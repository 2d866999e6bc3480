------------------------ MODULE IncidentStateMachine ------------------------
(***************************************************************************)
(* The incident statuses and the table of legal status transitions         *)
(* (src/agent/models/state_machine.py).  Every versioned write of the      *)
(* incidents table is checked against this table first.                    *)
(***************************************************************************)

\* IncidentStatus.
Statuses ==
  {"OPEN", "PLANNED", "IN_PROGRESS", "RESOLVED", "FAILED", "NEEDS_HUMAN"}

\* IncidentStateMachine._TRANSITIONS.
Transitions ==
  [ OPEN        |-> {"PLANNED", "NEEDS_HUMAN"},
    PLANNED     |-> {"IN_PROGRESS", "NEEDS_HUMAN"},
    IN_PROGRESS |-> {"RESOLVED", "FAILED", "NEEDS_HUMAN"},
    FAILED      |-> {"OPEN", "NEEDS_HUMAN"},
    RESOLVED    |-> {},
    NEEDS_HUMAN |-> {} ]

\* can_transition, and the guard assert_can_transition puts on every write.
CanTransition(from, to) == to \in Transitions[from]

\* Faulty variant: FAILED is thought terminal, as the class comment has it.
ActionableWithoutFailed == {s \in Statuses : Transitions[s] # {}} \ {"FAILED"}

\* The statuses process_ready_incidents lists: those with a way out.
ActionableStatuses == {s \in Statuses : Transitions[s] # {}}

=============================================================================
