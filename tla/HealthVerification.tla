------------------------- MODULE HealthVerification -------------------------
(***************************************************************************)
(* The tool verify_health_stable (src/agent/tools/remediation.py) and the  *)
(* health client it samples with (src/agent/observer/health.py), on an     *)
(* explicit clock.  The endpoint changes at any time; the tool only learns *)
(* what each of its GETs is answered, and learns it some time later.       *)
(*                                                                         *)
(* Time is counted in ticks and passes in the GET and in the sleep; what   *)
(* the tool computes between them takes none.  disturbed and answers       *)
(* record what happened, for the properties; the tool does not read them.  *)
(***************************************************************************)
EXTENDS Integers, FiniteSets

CONSTANTS
  Window,        \* stable_window_s
  MaxWait,       \* max_wait_s
  PollInterval,  \* poll_interval_s
  RequestMax,    \* bound: the longest a GET takes, with every socket timeout
  Delay          \* bound: how much too late a sleep can end

ASSUME TimesAssumption ==
  /\ Window \in Nat
  /\ MaxWait \in Nat
  /\ PollInterval \in Nat \ {0}
  /\ RequestMax \in Nat
  /\ Delay \in Nat

VARIABLES
  now,           \* time.monotonic
  health,        \* what a GET answered now ends as
  pc,            \* where the tool is
  since,         \* when the GET or the sleep it is in began
  stable_since,  \* since when every sample has been good; 0 for None
  answer,        \* what the GET it is in was answered
  result,        \* how the tool ended, as the executor records it
  disturbed,     \* the last time health was not "ok"; 0 for never
  answers        \* every answer given, with its time

vars == <<now, health, pc, since, stable_since, answer, result, disturbed, answers>>

\* HealthResult.ok, HealthResult not ok (another status, a refused connection,
\* an answer too late), or an exception get does not catch (the connection
\* breaks while the answer is read).
Samples == {"ok", "not_ok", "raises"}

Start == 1

deadline == Start + MaxWait

TypeOK ==
  /\ now \in Nat \ {0}
  /\ health \in Samples
  /\ pc \in {"check", "request", "reply", "sleep", "done"}
  /\ since \in Nat
  /\ stable_since \in Nat
  /\ answer \in Samples
  /\ result \in {"none", "ok", "verification_failed", "step_failed"}
  /\ disturbed \in Nat
  /\ answers \subseteq [at : Nat, got : Samples]

Init ==
  /\ now = Start
  /\ health \in Samples
  /\ pc = "check"
  /\ since = Start
  /\ stable_since = 0
  /\ answer = "not_ok"
  /\ result = "none"
  /\ disturbed = IF health = "ok" THEN 0 ELSE Start
  /\ answers = {}

-----------------------------------------------------------------------------
(* The tool                                                                *)

\* Faulty variant: the deadline does not count the window.
RequestTooLate ==
  /\ pc = "check"
  /\ now < deadline + Window
  /\ pc' = "request"
  /\ since' = now
  /\ UNCHANGED <<now, health, stable_since, answer, result, disturbed, answers>>

\* The loop condition, and the call of get behind it.
Request ==
  /\ pc = "check"
  /\ now < deadline
  /\ pc' = "request"
  /\ since' = now
  /\ UNCHANGED <<now, health, stable_since, answer, result, disturbed, answers>>

GiveUp ==
  /\ pc = "check"
  /\ now >= deadline
  /\ pc' = "done"
  /\ result' = "verification_failed"
  /\ UNCHANGED <<now, health, since, stable_since, answer, disturbed, answers>>

\* The endpoint answers, or fails to.
Answer ==
  /\ pc = "request"
  /\ pc' = "reply"
  /\ answer' = health
  /\ answers' = answers \cup {[at |-> now, got |-> health]}
  /\ UNCHANGED <<now, health, since, stable_since, result, disturbed>>

\* Faulty variant: every good sample starts the window anew.
SinceNow == now

\* stable_since or now.
StableSince == IF stable_since = 0 THEN now ELSE stable_since

Sleep ==
  /\ pc' = "sleep"
  /\ since' = now
  /\ UNCHANGED result

ReadGood ==
  /\ pc = "reply"
  /\ answer = "ok"
  /\ stable_since' = StableSince
  /\ IF now - StableSince >= Window
     THEN /\ pc' = "done"
          /\ result' = "ok"
          /\ UNCHANGED since
     ELSE Sleep
  /\ UNCHANGED <<now, health, answer, disturbed, answers>>

\* Faulty variant: a bad sample does not restart the window.
ReadBadKeepingWindow ==
  /\ pc = "reply"
  /\ answer = "not_ok"
  /\ Sleep
  /\ UNCHANGED <<now, health, stable_since, answer, disturbed, answers>>

ReadBad ==
  /\ pc = "reply"
  /\ answer = "not_ok"
  /\ stable_since' = 0
  /\ Sleep
  /\ UNCHANGED <<now, health, answer, disturbed, answers>>

\* The exception leaves the tool; the executor calls it step_failed.
ReadRaises ==
  /\ pc = "reply"
  /\ answer = "raises"
  /\ pc' = "done"
  /\ result' = "step_failed"
  /\ UNCHANGED <<now, health, since, stable_since, answer, disturbed, answers>>

Wake ==
  /\ pc = "sleep"
  /\ now >= since + PollInterval
  /\ pc' = "check"
  /\ UNCHANGED <<now, health, since, stable_since, answer, result, disturbed, answers>>

-----------------------------------------------------------------------------
(* The endpoint and the clock                                              *)

Change ==
  /\ pc # "done"
  /\ \E h \in Samples \ {health} : health' = h
  /\ disturbed' = now
  /\ UNCHANGED <<now, pc, since, stable_since, answer, result, answers>>

\* Time never passes a GET or a sleep that must be over.
Tick ==
  /\ \/ pc \in {"request", "reply"} /\ now < since + RequestMax
     \/ pc = "sleep" /\ now < since + PollInterval + Delay
  /\ now' = now + 1
  /\ disturbed' = IF health = "ok" THEN disturbed ELSE now + 1
  /\ UNCHANGED <<health, pc, since, stable_since, answer, result, answers>>

\* Faulty variant: get is given no timeout, and need not return.
StepWithoutTimeout ==
  \/ Request \/ GiveUp \/ ReadGood \/ ReadBad \/ ReadRaises \/ Wake

Step ==
  \/ Request \/ GiveUp \/ Answer \/ ReadGood \/ ReadBad \/ ReadRaises \/ Wake

Next == Step \/ Change \/ Tick

Spec == Init /\ [][Next]_vars

\* GETs and sleeps end; the clock goes on.
FairSpec == Spec /\ WF_vars(Step) /\ WF_vars(Tick)

-----------------------------------------------------------------------------
(* Properties                                                              *)

\* The longest from one GET to the next.
Gap == RequestMax + PollInterval + Delay

\* A success has seen the endpoint good from some answer to another that are a
\* window apart, but for the time one GET takes: every answer between them is
\* good, and none is longer than two GETs and a sleep from the next one.
VerifiedWindow ==
  result = "ok" =>
    \E first, last \in answers :
      /\ last.at - first.at >= Window - RequestMax
      /\ \A a \in answers : a.at >= first.at => a.got = "ok"
      /\ \A t \in first.at .. last.at :
           \E a \in answers : t <= a.at /\ a.at <= t + Gap + RequestMax

\* A repair is not called unverified when it works: before the tool gives up,
\* the endpoint was disturbed so late that less than a window, and two samples,
\* were left until the deadline.
FailureHasCause ==
  result = "verification_failed" => deadline < disturbed + Window + 2 * Gap

\* max_wait_s bounds the tool up to the GET and the sleep it is in.
EndsInTime == now <= deadline + Gap

\* The tool ends, whatever the endpoint does.
Ends == <>(result # "none")

-----------------------------------------------------------------------------
(* The inductive invariant                                                 *)

\* How far the clock can be at each place in the loop.
OnTime ==
  /\ since <= now
  /\ pc = "done" <=> result # "none"
  /\ pc \in {"request", "reply"} => since < deadline /\ now <= since + RequestMax
  /\ pc = "sleep" => since <= deadline + RequestMax /\ now <= since + PollInterval + Delay
  /\ pc \in {"check", "done"} => now <= deadline + Gap

\* The endpoint's last disturbance, as far as the tool can tell: a bad sample
\* is one, and a window that began late began late because of one.
DisturbanceSeen ==
  /\ disturbed <= now
  /\ health # "ok" => disturbed = now
  /\ pc = "reply" /\ answer # "ok" => since <= disturbed
  /\ stable_since = 0 =>
       /\ pc = "check" => now <= disturbed + Gap
       /\ pc \in {"request", "reply"} => since <= disturbed + Gap
       /\ pc = "sleep" => since <= disturbed + RequestMax
  /\ stable_since # 0 =>
       /\ stable_since <= now
       /\ stable_since <= disturbed + Gap + RequestMax
       /\ pc = "sleep" => since < stable_since + Window
       /\ pc = "check" => now < stable_since + Window + PollInterval + Delay

\* Answers are as old as the loop makes them: only the one being read can be
\* as new as the GET.
AnswersInOrder ==
  /\ \A a \in answers :
       /\ a.at <= now
       /\ pc = "sleep" => a.at <= since
       /\ pc = "check" => a.at < now
       /\ pc = "request" => a.at < since
  /\ pc = "reply" =>
       \E p \in answers :
         /\ since <= p.at
         /\ p.got = answer
         /\ \A a \in answers : a = p \/ a.at < since

\* Whether every sample since stable_since is good, the one being read included.
InStreak == IF pc = "reply" THEN answer = "ok" ELSE pc # "done" /\ stable_since # 0

\* How old the last answer can be.
Recent(last) ==
  CASE pc = "sleep"   -> since <= last.at + RequestMax
    [] pc = "check"   -> now <= last.at + Gap
    [] pc = "request" -> since <= last.at + Gap
    [] OTHER          -> since <= last.at

\* Nothing between first and last is bad or missing.
Streak(first, last) ==
  /\ first.at <= StableSince
  /\ \A a \in answers : a.at >= first.at => a.got = "ok"
  /\ \A t \in first.at .. last.at :
       \E a \in answers : t <= a.at /\ a.at <= t + Gap + RequestMax
  /\ Recent(last)

StreakAnswered == InStreak => \E first, last \in answers : Streak(first, last)

VerificationInv ==
  /\ TypeOK
  /\ OnTime
  /\ DisturbanceSeen
  /\ AnswersInOrder
  /\ StreakAnswered
  /\ VerifiedWindow
  /\ FailureHasCause

=============================================================================
