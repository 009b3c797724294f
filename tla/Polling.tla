------------------------------- MODULE Polling -------------------------------
(***************************************************************************)
(* usePolling (lib/hooks.js): the hook behind every list and status of the *)
(* interface.  A request is sent on mount, at every tick of its interval,  *)
(* when the page asks for it and when the dependencies change; answers     *)
(* come back in any order, and a generation counter decides which of them  *)
(* may be shown.                                                           *)
(*                                                                         *)
(* The server is a counter of its changes, and an answer is the value of   *)
(* the counter when the request was served.  The dependencies (page, sort, *)
(* search, selected network) are the query.                                *)
(***************************************************************************)
EXTENDS Integers

CONSTANTS
  Queries,      \* values of the dependencies
  MaxGen,       \* bound: requests a mount sends by itself
  MaxVersion    \* bound: changes of the server by others

ASSUME PollingAssumption == Queries # {} /\ MaxGen \in Nat /\ MaxVersion \in Nat

VARIABLES
  version,   \* the server: changes made
  query,     \* depsKey
  gen,       \* generationRef
  flights,   \* requests in flight: generation, query, version read (0: not served)
  loading,
  data,      \* query and version of the answer shown, version 0 for defaultValue
  failed,    \* history: the last answer was an error and data was left alone
  since      \* history: version of the server when the last request was sent

pollVars == <<version, query, gen, flights, loading, data, failed, since>>

Flight == [gen : Nat, query : Queries, read : Nat]

-----------------------------------------------------------------------------
\* The first render and its effect: the default value, and one request.
Mount(q) ==
  /\ query = q /\ gen = 1 /\ flights = {[gen |-> 1, query |-> q, read |-> 0]}
  /\ loading = TRUE /\ data = [query |-> q, read |-> 0] /\ failed = FALSE

Init == version = 1 /\ since = 1 /\ \E q \in Queries : Mount(q)

\* The component is left and opened again: a new instance of the hook.  The answers to the old
\* one reach a component that is gone.
Remount(q) ==
  /\ query' = q /\ gen' = 1 /\ flights' = {[gen |-> 1, query |-> q, read |-> 0]}
  /\ loading' = TRUE /\ data' = [query |-> q, read |-> 0] /\ failed' = FALSE
  /\ since' = version /\ version' = version

\* The server changes behind the interface.
Change ==
  /\ version < MaxVersion
  /\ version' = version + 1
  /\ UNCHANGED <<query, gen, flights, loading, data, failed, since>>

\* Mutant: the request goes out under the generation of the one before it.
Send_SameGen(q) ==
  /\ gen' = gen
  /\ flights' = flights \cup {[gen |-> gen, query |-> q, read |-> 0]}
  /\ loading' = TRUE /\ since' = version

\* refresh(): a new generation makes every request before it stale.
Send(q) ==
  /\ gen' = gen + 1
  /\ flights' = flights \cup {[gen |-> gen + 1, query |-> q, read |-> 0]}
  /\ loading' = TRUE /\ since' = version

\* setInterval, or the refresh a page asks for.
Tick ==
  /\ gen < MaxGen
  /\ Send(query)
  /\ UNCHANGED <<version, query, data, failed>>

\* The effect that runs when depsKey has changed.  What is shown stays.
ChangeQuery(q) ==
  /\ gen < MaxGen /\ q # query
  /\ query' = q /\ Send(q)
  /\ UNCHANGED <<version, data, failed>>

\* The server answers a request, at the version it has.
Serve(f) ==
  /\ f.read = 0
  /\ flights' = (flights \ {f}) \cup {[f EXCEPT !.read = version]}
  /\ UNCHANGED <<version, query, gen, loading, data, failed, since>>

\* Mutant: any answer is shown.
Current_Any(f) == TRUE

\* gen !== generationRef.current: the answer of a request that is not the last is dropped.
Current(f) == f.gen = gen

\* .then of a request.
Deliver(f) ==
  /\ f.read # 0
  /\ flights' = flights \ {f}
  /\ IF Current(f)
     THEN data' = [query |-> f.query, read |-> f.read] /\ loading' = FALSE /\ failed' = FALSE
     ELSE UNCHANGED <<data, loading, failed>>
  /\ UNCHANGED <<version, query, gen, since>>

\* An error.  A fetcher that catches it answers the default value (.catch(() => [])); one
\* that does not reaches the .catch of the hook, which leaves what is shown.
Fail(f, catches) ==
  /\ flights' = flights \ {f}
  /\ CASE Current(f) /\ catches  -> /\ data' = [query |-> f.query, read |-> 0]
                                    /\ loading' = FALSE /\ failed' = FALSE
       [] Current(f) /\ ~catches -> loading' = FALSE /\ failed' = TRUE /\ data' = data
       [] OTHER                  -> UNCHANGED <<data, loading, failed>>
  /\ UNCHANGED <<version, query, gen, since>>

Next ==
  \/ Change \/ Tick
  \/ \E q \in Queries : Remount(q) \/ ChangeQuery(q)
  \/ \E f \in flights : Serve(f) \/ Deliver(f) \/ (\E c \in BOOLEAN : Fail(f, c))

Spec == Init /\ [][Next]_pollVars

-----------------------------------------------------------------------------
\* Type invariant.
PollTypeOK ==
  /\ version \in Nat \ {0} /\ query \in Queries /\ gen \in Nat
  /\ flights \subseteq Flight /\ loading \in BOOLEAN /\ failed \in BOOLEAN
  /\ data \in [query : Queries, read : Nat] /\ since \in Nat \ {0}

\* The view is loading exactly while the request of its generation is in flight, and that
\* request asks for the query of the view and is answered no earlier than it was sent.
OnlyTheLast ==
  /\ \A f \in flights : f.gen <= gen
  /\ \A f, g \in flights : f.gen = g.gen => f = g
  /\ loading <=> \E f \in flights : f.gen = gen
  /\ \A f \in flights : f.gen = gen => f.query = query /\ f.read \in {0} \cup (since..version)
  /\ since <= version

\* Once the last request is answered, what is shown is an answer to the query of the view, read
\* no earlier than that request was sent, whatever order the answers came back in.
ShowsTheAnswer ==
  (~loading /\ ~failed) => data.query = query /\ data.read \in {0} \cup (since..version)

\* The abstract view.
View == INSTANCE FreshView WITH asked <- since, pending <- loading, missed <- failed

\* usePolling keeps the promise of a polled view.
IsFreshView == View!Spec
=============================================================================
