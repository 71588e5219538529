----------------------------- MODULE AIBackends -----------------------------
(***************************************************************************)
(* How a request chooses among the AI backends of app/services/            *)
(* ai_pipeline.py: _build_backend_order rotates the ones that are not      *)
(* cooling down by their weights, the generate_* functions try them in     *)
(* that order, a transient error starts a backend's cooldown, a success    *)
(* ends it, and an Ollama that is short of resources hands over to Gemini. *)
(*                                                                         *)
(* The rotation and the cooldowns are shared by the threads of a process,  *)
(* each behind a lock of its own that is held for one look or one change.  *)
(***************************************************************************)
EXTENDS Integers, Sequences

Flat == INSTANCE SequencesExt

CONSTANTS
  Weights,   \* of the enabled backends, in the order of the configuration
  Gemini,    \* the backends of that type; the others are Ollama's
  Flaky,     \* the backends that may be down (bound)
  Callers,   \* threads that make requests
  Cooldown   \* ai_backend_failure_cooldown_seconds, in ticks

Backends == DOMAIN Weights

ASSUME BackendsAssumption ==
  /\ Weights \in Seq(Nat \ {0}) /\ Weights /= <<>>
  /\ Gemini \subseteq Backends /\ Flaky \subseteq Backends /\ Cooldown \in Nat \ {0}

VARIABLES
  up,       \* whether a backend answers
  cooling,  \* ticks left of a cooldown
  turn,     \* _BACKEND_ROTATION_INDEX, by pool
  left,     \* the backends a thread's request has still to try, in order
  led       \* in how many requests of this round of a pool each came first (history)

backendVars == <<up, cooling, turn, left, led>>

BackendsInit ==
  /\ up = [b \in Backends |-> TRUE]
  /\ cooling = [b \in Backends |-> 0]
  /\ turn = [p \in SUBSET Backends |-> 0]
  /\ left = [c \in Callers |-> <<>>]
  /\ led = [p \in SUBSET Backends |-> [b \in Backends |-> 0]]

-----------------------------------------------------------------------------
(* _build_backend_order *)

Dispatchable(nodes) == {b \in nodes : cooling[b] = 0}

\* When all of them cool down, all of them are tried.
Pool(nodes) == IF Dispatchable(nodes) = {} THEN nodes ELSE Dispatchable(nodes)

\* Each of the pool has as many places, side by side, as its weight.
PlacesOf(pool, b) == [k \in 1 .. IF b \in pool THEN Weights[b] ELSE 0 |-> b]
Places(pool) == Flat!FlattenSeq([b \in Backends |-> PlacesOf(pool, b)])

Rotated(s, by) == SubSeq(s, by + 1, Len(s)) \o SubSeq(s, 1, by)

\* Each of them once, where it comes first.
WithNext(kept, b) == IF \E i \in DOMAIN kept : kept[i] = b THEN kept ELSE Append(kept, b)
Distinct(s) ==
  LET first[n \in 0 .. Len(s)] == IF n = 0 THEN <<>> ELSE WithNext(first[n - 1], s[n])
  IN  first[Len(s)]

NextPlace(pool) == (turn[pool] + 1) % Len(Places(pool))

\* The pool is read and the rotation advanced under different locks: both are
\* short, and the requests are ordered by the second.
Dispatch(c, nodes) ==
  LET pool == Pool(nodes)
      order == Distinct(Rotated(Places(pool), turn[pool]))
      round == IF turn[pool] = 0 THEN [b \in Backends |-> 0] ELSE led[pool] IN
  /\ left[c] = <<>> /\ nodes /= {}
  /\ left' = [left EXCEPT ![c] = order]
  /\ turn' = [turn EXCEPT ![pool] = NextPlace(pool)]
  /\ led' = [led EXCEPT ![pool] = [round EXCEPT ![order[1]] = @ + 1]]
  /\ UNCHANGED <<up, cooling>>

-----------------------------------------------------------------------------
(* The loops of generate_markdown_completion and of the functions of its shape *)

\* It is its turn and it answers, which ends the request.
Answers(c) ==
  /\ left[c] /= <<>> /\ up[Head(left[c])]
  /\ left' = [left EXCEPT ![c] = <<>>]
  /\ UNCHANGED <<up, turn, led>>

\* _clear_backend_cooldown, whoever started it.
Answered(c) ==
  /\ Answers(c)
  /\ cooling' = [cooling EXCEPT ![Head(left[c])] = 0]

\* The frame of a video leaves the cooldowns alone.
FrameAnswered(c) == Answers(c) /\ UNCHANGED cooling

GoesOn(c, rest) ==
  /\ left' = [left EXCEPT ![c] = rest]
  /\ UNCHANGED <<up, turn, led>>

\* A role's review that cannot be read counts as a failure of the request, not
\* of the backend: the next one is asked.
Unreadable(c) ==
  /\ left[c] /= <<>> /\ up[Head(left[c])]
  /\ GoesOn(c, Tail(left[c]))
  /\ UNCHANGED cooling

GeminiIn(rest) == SelectSeq(rest, LAMBDA b : b \in Gemini)

\* _reprioritize_backends_for_dynamic_fallback
GeminiFirst(rest) ==
  GeminiIn(rest) \o SelectSeq(rest, LAMBDA b : b \notin Gemini)

\* The error is transient or not (or cooldowns are switched off, or it was the
\* frame of a video), and a lack of resources or not; a backend that is up may
\* refuse a request, too.
Refused(c) ==
  LET failed == Head(left[c])
      rest == Tail(left[c]) IN
  /\ left[c] /= <<>>
  /\ \/ GoesOn(c, rest)
     \/ failed \notin Gemini /\ GeminiIn(rest) /= <<>> /\ GoesOn(c, GeminiFirst(rest))
  /\ \/ ~up[failed] /\ cooling' = [cooling EXCEPT ![failed] = Cooldown]
     \/ UNCHANGED cooling

\* configure_ai_backend_failure_cooldown_seconds, to zero.
SwitchCooldownOff ==
  /\ cooling' = [b \in Backends |-> 0]
  /\ UNCHANGED <<up, turn, left, led>>

\* Mistake: a cooldown is not over at its last tick.
ElapseNotQuite ==
  /\ \E b \in Backends : cooling[b] > 1
  /\ cooling' = [b \in Backends |-> IF cooling[b] > 1 THEN cooling[b] - 1 ELSE cooling[b]]
  /\ UNCHANGED <<up, turn, left, led>>

Elapse ==
  /\ \E b \in Backends : cooling[b] > 0
  /\ cooling' = [b \in Backends |-> IF cooling[b] > 0 THEN cooling[b] - 1 ELSE 0]
  /\ UNCHANGED <<up, turn, left, led>>

BackendChanges ==
  /\ \E b \in Flaky : up' = [up EXCEPT ![b] = ~@]
  /\ UNCHANGED <<cooling, turn, left, led>>

Request(c) == Answered(c) \/ FrameAnswered(c) \/ Unreadable(c) \/ Refused(c)
SomeDispatch == \E c \in Callers : Dispatch(c, Backends)
LeadBy(b) == \E c \in Callers : Dispatch(c, Backends) /\ Head(left'[c]) = b

\* Only Gemini is asked to transcribe; the local model stands by.
Transcribe(c) == Dispatch(c, Gemini)

BackendsNext ==
  \/ SomeDispatch \/ \E c \in Callers : Transcribe(c) \/ Request(c)
  \/ SwitchCooldownOff \/ Elapse \/ BackendChanges

\* Calls have a timeout and time passes; nobody has to make a request.
BackendsFairness ==
  WF_backendVars(Elapse) /\ \A c \in Callers : WF_backendVars(Request(c))

BackendsSpec == BackendsInit /\ [][BackendsNext]_backendVars
FairBackendsSpec == BackendsSpec /\ BackendsFairness

-----------------------------------------------------------------------------
(* Properties *)

\* A round of the rotation gives each backend of the pool the lead as often as
\* its weight says, although the pools change as backends fail and recover
\* between the requests of a round.
LeadsByWeight ==
  \A p \in SUBSET Backends :
    turn[p] = 0 /\ (\E b \in p : led[p][b] > 0) => \A b \in p : led[p][b] = Weights[b]

\* A backend that stays up gets the lead again and again as long as requests
\* come: no cooldown, no place in the rotation and no failure of others keeps it
\* out.
ComesFirstAgain ==
  \A b \in Backends :
    <>[]up[b] /\ []<><<SomeDispatch>>_backendVars => []<><<LeadBy(b)>>_backendVars

\* The backends share the requests, as often as they should and again and again.
LeadIsShared == []LeadsByWeight /\ ComesFirstAgain
=============================================================================
