------------------------------ MODULE FreshView ------------------------------
(***************************************************************************)
(* What a polled view promises: what it shows is one answer of the server  *)
(* to the query it was last asked for, no older than that question.  An    *)
(* error may blank the view or leave what was there, and never mixes in an *)
(* answer to an earlier question.                                          *)
(***************************************************************************)
EXTENDS Integers

CONSTANTS
  Queries,     \* what a view can be asked to show
  MaxVersion   \* bound: version up to which others change the server

ASSUME FreshViewAssumption == Queries # {} /\ MaxVersion \in Nat

VARIABLES
  version,   \* changes the server has made
  query,     \* what the view is asked to show
  asked,     \* version of the server when it was asked last
  pending,   \* the question has no answer yet
  missed,    \* it was answered by an error, and the view shows what it showed before
  data       \* [query, read]: the answer to query at version read, 0 when it shows nothing

viewVars == <<version, query, asked, pending, missed, data>>

Nothing(q) == [query |-> q, read |-> 0]

Init ==
  /\ version = 1 /\ asked = 1 /\ pending = TRUE /\ missed = FALSE
  /\ \E q \in Queries : query = q /\ data = Nothing(q)

\* The server changes.
Change ==
  /\ version < MaxVersion
  /\ version' = version + 1
  /\ UNCHANGED <<query, asked, pending, missed, data>>

\* The view is opened anew.
Open(q) ==
  /\ query' = q /\ asked' = version /\ pending' = TRUE /\ missed' = FALSE
  /\ data' = Nothing(q)
  /\ UNCHANGED version

\* The view is asked, for what it shows already or for something else.
Ask(q) ==
  /\ query' = q /\ asked' = version /\ pending' = TRUE
  /\ UNCHANGED <<version, missed, data>>

Show ==
  /\ pending
  /\ \E v \in asked..version : data' = [query |-> query, read |-> v]
  /\ pending' = FALSE /\ missed' = FALSE
  /\ UNCHANGED <<version, query, asked>>

\* An error that blanks the view, or one that leaves what it shows.
Fail(blanks) ==
  /\ pending
  /\ IF blanks THEN data' = Nothing(query) /\ missed' = FALSE ELSE data' = data /\ missed' = TRUE
  /\ pending' = FALSE
  /\ UNCHANGED <<version, query, asked>>

Next ==
  \/ Change \/ Show
  \/ \E q \in Queries : Open(q) \/ Ask(q)
  \/ \E blanks \in BOOLEAN : Fail(blanks)

Spec == Init /\ [][Next]_viewVars
=============================================================================
