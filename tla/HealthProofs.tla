---------------------------- MODULE HealthProofs ----------------------------
(***************************************************************************)
(* Theorems about HealthVerification, for every window, deadline, poll     *)
(* interval, request time and delay.                                       *)
(***************************************************************************)
EXTENDS HealthVerification, TLAPS

USE TimesAssumption

\* Every step of the tool, the endpoint and the clock keeps the types.
LEMMA TypePreserved ==
  ASSUME TypeOK, [Next]_vars
  PROVE  TypeOK'
<1> USE DEF TypeOK, Samples, Start
<1>1. CASE Request
  BY <1>1 DEF Request
<1>2. CASE GiveUp
  BY <1>2 DEF GiveUp
<1>3. CASE Answer
  BY <1>3 DEF Answer
<1>4. CASE ReadGood
  BY <1>4 DEF ReadGood, Sleep, StableSince
<1>5. CASE ReadBad
  BY <1>5 DEF ReadBad, Sleep
<1>6. CASE ReadRaises
  BY <1>6 DEF ReadRaises
<1>7. CASE Wake
  BY <1>7 DEF Wake
<1>8. CASE Change
  BY <1>8 DEF Change
<1>9. CASE Tick
  BY <1>9 DEF Tick
<1>10. CASE UNCHANGED vars
  BY <1>10 DEF vars
<1>11. QED
  BY <1>1, <1>2, <1>3, <1>4, <1>5, <1>6, <1>7, <1>8, <1>9, <1>10 DEF Next, Step

\* The clock stays within what the calls allow.
LEMMA OnTimePreserved ==
  ASSUME TypeOK, OnTime, [Next]_vars
  PROVE  OnTime'
<1> USE DEF TypeOK, OnTime, deadline, Start, Gap
<1>1. CASE Request
  BY <1>1 DEF Request
<1>2. CASE GiveUp
  BY <1>2 DEF GiveUp
<1>3. CASE Answer
  BY <1>3 DEF Answer
<1>4. CASE ReadGood
  BY <1>4 DEF ReadGood, Sleep, StableSince
<1>5. CASE ReadBad
  BY <1>5 DEF ReadBad, Sleep
<1>6. CASE ReadRaises
  BY <1>6 DEF ReadRaises
<1>7. CASE Wake
  BY <1>7 DEF Wake
<1>8. CASE Change
  BY <1>8 DEF Change
<1>9. CASE Tick
  BY <1>9 DEF Tick
<1>10. CASE UNCHANGED vars
  BY <1>10 DEF vars
<1>11. QED
  BY <1>1, <1>2, <1>3, <1>4, <1>5, <1>6, <1>7, <1>8, <1>9, <1>10 DEF Next, Step

\* What the tool has seen bounds how long ago the endpoint was disturbed.
LEMMA DisturbancePreserved ==
  ASSUME TypeOK, OnTime, DisturbanceSeen, [Next]_vars
  PROVE  DisturbanceSeen'
<1> USE DEF TypeOK, OnTime, DisturbanceSeen, Gap, Start, deadline, Samples
<1>1. CASE Request
  BY <1>1 DEF Request
<1>2. CASE GiveUp
  BY <1>2 DEF GiveUp
<1>3. CASE Answer
  BY <1>3 DEF Answer
<1>4. CASE ReadGood
  BY <1>4 DEF ReadGood, Sleep, StableSince
<1>5. CASE ReadBad
  BY <1>5 DEF ReadBad, Sleep
<1>6. CASE ReadRaises
  BY <1>6 DEF ReadRaises
<1>7. CASE Wake
  BY <1>7 DEF Wake
<1>8. CASE Change
  BY <1>8 DEF Change
<1>9. CASE Tick
  BY <1>9 DEF Tick
<1>10. CASE UNCHANGED vars
  BY <1>10 DEF vars
<1>11. QED
  BY <1>1, <1>2, <1>3, <1>4, <1>5, <1>6, <1>7, <1>8, <1>9, <1>10 DEF Next, Step

\* Answers come in the order of the GETs.
LEMMA AnswersPreserved ==
  ASSUME TypeOK, OnTime, AnswersInOrder, [Next]_vars
  PROVE  AnswersInOrder'
<1> USE DEF TypeOK, OnTime, AnswersInOrder, Samples
<1>1. CASE Request
  BY <1>1 DEF Request
<1>2. CASE GiveUp
  BY <1>2 DEF GiveUp
<1>3. CASE Answer
  <2>0. PICK p : p = [at |-> now, got |-> health]
    OBVIOUS
  <2>1. p \in answers' /\ since <= p.at /\ p.got = answer'
    BY <1>3, <2>0 DEF Answer
  <2>2. \A a \in answers' : a = p \/ a.at < since
    BY <1>3, <2>0 DEF Answer
  <2>3. QED
    BY <1>3, <2>1, <2>2 DEF Answer
<1>4. CASE ReadGood
  BY <1>4 DEF ReadGood, Sleep, StableSince
<1>5. CASE ReadBad
  BY <1>5 DEF ReadBad, Sleep
<1>6. CASE ReadRaises
  BY <1>6 DEF ReadRaises
<1>7. CASE Wake
  BY <1>7 DEF Wake
<1>8. CASE Change
  BY <1>8 DEF Change
<1>9. CASE Tick
  BY <1>9 DEF Tick
<1>10. CASE UNCHANGED vars
  BY <1>10 DEF vars
<1>11. QED
  BY <1>1, <1>2, <1>3, <1>4, <1>5, <1>6, <1>7, <1>8, <1>9, <1>10 DEF Next, Step

\* When the tool gives up, its last window began late, and so was disturbed late.
LEMMA CausePreserved ==
  ASSUME TypeOK, OnTime, DisturbanceSeen, FailureHasCause, [Next]_vars
  PROVE  FailureHasCause'
<1> USE DEF TypeOK, OnTime, DisturbanceSeen, FailureHasCause, Gap, Start, deadline, Samples
<1>1. CASE Request
  BY <1>1 DEF Request
<1>2. CASE GiveUp
  BY <1>2 DEF GiveUp
<1>3. CASE Answer
  BY <1>3 DEF Answer
<1>4. CASE ReadGood
  BY <1>4 DEF ReadGood, Sleep, StableSince
<1>5. CASE ReadBad
  BY <1>5 DEF ReadBad, Sleep
<1>6. CASE ReadRaises
  BY <1>6 DEF ReadRaises
<1>7. CASE Wake
  BY <1>7 DEF Wake
<1>8. CASE Change
  BY <1>8 DEF Change
<1>9. CASE Tick
  BY <1>9 DEF Tick
<1>10. CASE UNCHANGED vars
  BY <1>10 DEF vars
<1>11. QED
  BY <1>1, <1>2, <1>3, <1>4, <1>5, <1>6, <1>7, <1>8, <1>9, <1>10 DEF Next, Step

\* While samples are good, the answers they were read from form a streak.
LEMMA StreakPreserved ==
  ASSUME TypeOK, OnTime, DisturbanceSeen, AnswersInOrder, StreakAnswered, [Next]_vars
  PROVE  StreakAnswered'
<1> USE DEF TypeOK, OnTime, Gap, InStreak, StableSince, Samples
<1>1. ASSUME InStreak', InStreak, answers' = answers, now <= now', StableSince' = StableSince,
             \A last \in answers : Recent(last) => Recent(last)'
      PROVE  \E first, last \in answers' : Streak(first, last)'
  <2>1. PICK first \in answers, last \in answers : Streak(first, last)
    BY <1>1 DEF StreakAnswered
  <2>2. Streak(first, last)'
    BY <1>1, <2>1 DEF Streak
  <2>3. QED
    BY <1>1, <2>2
<1>2. CASE Request
  <2>1. \A last \in answers : Recent(last) => Recent(last)'
    BY <1>2 DEF Request, Recent
  <2>2. QED
    BY <1>1, <1>2, <2>1 DEF Request, StreakAnswered
<1>3. CASE GiveUp
  BY <1>3 DEF GiveUp, StreakAnswered
<1>4. CASE Answer
  <2>0. PICK new : new = [at |-> now, got |-> health]
    OBVIOUS
  <2>1. CASE health # "ok"
    BY <1>4, <2>1 DEF Answer, StreakAnswered
  <2>2. CASE health = "ok" /\ stable_since = 0
    <3>1. new \in answers' /\ \A a \in answers : a.at < now
      BY <1>4, <2>0 DEF Answer, AnswersInOrder
    <3>2. \A a \in answers' : a.at >= new.at => a.got = "ok"
      BY <1>4, <2>0, <2>2, <3>1 DEF Answer
    <3>3. \A t \in new.at .. new.at : t <= new.at /\ new.at <= t + Gap + RequestMax
      BY <2>0
    <3>4. Streak(new, new)'
      BY <1>4, <2>0, <2>2, <3>1, <3>2, <3>3 DEF Answer, Streak, Recent
    <3>5. QED
      BY <3>1, <3>4 DEF StreakAnswered
  <2>3. CASE health = "ok" /\ stable_since # 0
    <3>1. PICK first \in answers, last \in answers : Streak(first, last)
      BY <1>4, <2>3 DEF Answer, StreakAnswered
    <3>2. first \in answers' /\ new \in answers' /\ answers' = answers \cup {new}
      BY <1>4, <2>0 DEF Answer
    <3>3. \A a \in answers' : a.at >= first.at => a.got = "ok"
      BY <2>0, <2>3, <3>1, <3>2 DEF Streak
    <3>4. now <= last.at + Gap + RequestMax
      BY <1>4, <3>1 DEF Answer, Streak, Recent
    <3>5. ASSUME NEW t \in first.at .. new.at
          PROVE  \E a \in answers' : t <= a.at /\ a.at <= t + Gap + RequestMax
      <4>1. CASE t <= last.at
        BY <3>1, <3>2, <4>1 DEF Streak
      <4>2. CASE t > last.at
        <5>1. t <= new.at /\ new.at <= t + Gap + RequestMax
          BY <2>0, <3>1, <3>4, <4>2
        <5>2. QED
          BY <3>2, <5>1
      <4>3. QED
        BY <2>0, <3>1, <4>1, <4>2
    <3>6. Streak(first, new)'
      BY <1>4, <2>0, <2>3, <3>1, <3>2, <3>3, <3>5 DEF Answer, Streak, Recent
    <3>7. QED
      BY <3>2, <3>6 DEF StreakAnswered
  <2>4. QED
    BY <2>1, <2>2, <2>3
<1>5. CASE ReadGood
  <2>1. CASE now - StableSince >= Window
    BY <1>5, <2>1 DEF ReadGood, StreakAnswered
  <2>2. CASE ~ (now - StableSince >= Window)
    <3>1. \A last \in answers : Recent(last) => Recent(last)'
      BY <1>5, <2>2 DEF ReadGood, Sleep, Recent
    <3>2. QED
      BY <1>1, <1>5, <2>2, <3>1 DEF ReadGood, Sleep, StreakAnswered
  <2>3. QED
    BY <2>1, <2>2
<1>6. CASE ReadBad
  BY <1>6 DEF ReadBad, Sleep, StreakAnswered
<1>7. CASE ReadRaises
  BY <1>7 DEF ReadRaises, StreakAnswered
<1>8. CASE Wake
  <2>1. \A last \in answers : Recent(last) => Recent(last)'
    BY <1>8 DEF Wake, Recent
  <2>2. QED
    BY <1>1, <1>8, <2>1 DEF Wake, StreakAnswered
<1>9. CASE Change
  <2>1. \A last \in answers : Recent(last) => Recent(last)'
    BY <1>9 DEF Change, Recent
  <2>2. QED
    BY <1>1, <1>9, <2>1 DEF Change, StreakAnswered
<1>10. CASE Tick
  <2>1. CASE stable_since = 0
    <3>1. CASE pc = "reply" /\ answer = "ok"
      <4>1. PICK first \in answers, last \in answers : Streak(first, last)
        BY <3>1 DEF StreakAnswered
      <4>2. Streak(first, last)'
        BY <1>10, <2>1, <3>1, <4>1 DEF Tick, Streak, Recent
      <4>3. QED
        BY <1>10, <4>2 DEF Tick, StreakAnswered
    <3>2. CASE ~ (pc = "reply" /\ answer = "ok")
      BY <1>10, <2>1, <3>2 DEF Tick, StreakAnswered
    <3>3. QED
      BY <3>1, <3>2
  <2>2. CASE stable_since # 0
    <3>1. \A last \in answers : Recent(last) => Recent(last)'
      BY <1>10 DEF Tick, Recent
    <3>2. QED
      BY <1>1, <1>10, <2>2, <3>1 DEF Tick, StreakAnswered
  <2>3. QED
    BY <2>1, <2>2
<1>11. CASE UNCHANGED vars
  <2>1. \A last \in answers : Recent(last) => Recent(last)'
    BY <1>11 DEF vars, Recent
  <2>2. QED
    BY <1>1, <1>11, <2>1 DEF vars, StreakAnswered
<1>12. QED
  BY <1>2, <1>3, <1>4, <1>5, <1>6, <1>7, <1>8, <1>9, <1>10, <1>11 DEF Next, Step

\* A success is read at the end of a streak as long as the window.
LEMMA VerifiedPreserved ==
  ASSUME TypeOK, OnTime, AnswersInOrder, StreakAnswered, VerifiedWindow, [Next]_vars
  PROVE  VerifiedWindow'
<1> USE DEF TypeOK, OnTime
<1>1. CASE ReadGood /\ now - StableSince >= Window
  <2>1. PICK first \in answers, last \in answers : Streak(first, last)
    BY <1>1 DEF ReadGood, InStreak, StreakAnswered
  <2>2. last.at - first.at >= Window - RequestMax
    BY <1>1, <2>1 DEF ReadGood, Streak, Recent, StableSince
  <2>3. QED
    BY <1>1, <2>1, <2>2 DEF ReadGood, Streak, VerifiedWindow
<1>2. CASE ~ (ReadGood /\ now - StableSince >= Window)
  <2>1. result' = "ok" => result = "ok" /\ answers' = answers
    BY <1>2 DEF Next, Step, vars, Request, GiveUp, Answer, ReadGood, ReadBad, ReadRaises,
                Wake, Change, Tick, Sleep
  <2>2. QED
    BY <2>1 DEF VerifiedWindow
<1>3. QED
  BY <1>1, <1>2

-----------------------------------------------------------------------------

\* VerificationInv is inductive.
THEOREM HealthInvariance == Spec => []VerificationInv
<1>1. Init => VerificationInv
  BY DEF Init, VerificationInv, TypeOK, OnTime, DisturbanceSeen, AnswersInOrder, StreakAnswered, InStreak,
         VerifiedWindow, FailureHasCause, Start, Samples, Gap, deadline
<1>2. VerificationInv /\ [Next]_vars => VerificationInv'
  BY TypePreserved, OnTimePreserved, DisturbancePreserved, AnswersPreserved, CausePreserved,
     StreakPreserved, VerifiedPreserved DEF VerificationInv
<1>3. QED
  BY <1>1, <1>2, PTL DEF Spec

\* A success has seen good answers for a window, but for one GET.
THEOREM VerifiedWindowAlways == Spec => []VerifiedWindow
<1>1. VerificationInv => VerifiedWindow
  BY DEF VerificationInv
<1>2. QED
  BY <1>1, HealthInvariance, PTL

\* A verification that fails was disturbed within its last window.
THEOREM FailureHasCauseAlways == Spec => []FailureHasCause
<1>1. VerificationInv => FailureHasCause
  BY DEF VerificationInv
<1>2. QED
  BY <1>1, HealthInvariance, PTL

\* The tool is over one GET and one sleep after its deadline.
THEOREM EndsInTimeAlways == Spec => []EndsInTime
<1>1. VerificationInv => EndsInTime
  BY DEF VerificationInv, TypeOK, OnTime, EndsInTime, Gap, deadline, Start
<1>2. QED
  BY <1>1, HealthInvariance, PTL

=============================================================================
