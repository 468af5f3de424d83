------------------------- MODULE PipelineRunProofs -------------------------
(***************************************************************************)
(* Proofs about PipelineRun: the exit information that travels through the *)
(* abort channel when processors throw, for all nets, any number of        *)
(* exceptions and any capacity of the abort channel.                       *)
(*                                                                         *)
(* Of all the steps of the processors only five kinds matter to it, which  *)
(* StepKinds separates; the invariants are then proved for the kinds.      *)
(*                                                                         *)
(* Then the order in which sinks consume items.  View says what a step     *)
(* does to the items: a processor takes or drops the head of a queue,      *)
(* makes, applies or sends.  d[n] is the number of the last item of a      *)
(* source that n has taken; OrderInv says where the items are, relative    *)
(* to d, and Turns how the items of two sources follow each other behind a *)
(* Concat.                                                                 *)
(***************************************************************************)
EXTENDS PipelineEofProofs

Stopped == Hosted \cup {"error"}

(* The types of what the argument is about.                                *)
AbortType ==
    /\ net \in Nets
    /\ abort_channel \in [Pipeline -> 0..AbortCapacity]
    /\ at \in [Node -> Location]
    /\ thrown \subseteq Node

(* A processor throws once: user code does not run in a processor that has *)
(* thrown.                                                                 *)
ThrownAreStopped == ~ crashed => \A n \in thrown : at[n] \in Stopped

AbortInv == AbortType /\ ThrownAreStopped

-----------------------------------------------------------------------------

(* n goes on with work(), or with its hosted mode.                         *)
Moves(n) ==
    /\ \E l \in Location :
           /\ at' = [at EXCEPT ![n] = l]
           /\ \/ at[n] \in Working /\ l \in Working \cup {"done"}
              \/ at[n] \in Hosted \ {"TryPush"} /\ l \in Stopped \ {"TryPush"}
    /\ UNCHANGED <<net, abort_channel, thrown, crashed>>

(* n takes the exit information.                                           *)
Receives(n) ==
    /\ at[n] \in Working
    /\ AbortReceived(n)
    /\ UNCHANGED <<net, thrown>>

(* User code of n throws.                                                  *)
Throws(n) ==
    /\ at[n] \in Working
    /\ thrown' = thrown \cup {n}
    /\ Throw(n)
    /\ UNCHANGED <<net, abort_channel>>

(* n puts the exit information into the abort channel.                     *)
Notifies(n) ==
    /\ at[n] = "TryPush"
    /\ abort_channel' = IF abort_channel[AbortOf(n)] = AbortCapacity THEN abort_channel
                        ELSE [abort_channel EXCEPT ![AbortOf(n)] = @ + 1]
    /\ at' = [at EXCEPT ![n] = "close_input"]
    /\ UNCHANGED <<net, thrown, crashed>>

(* Nothing that matters changes.                                           *)
Rests == UNCHANGED <<net, at, abort_channel, thrown, crashed>>

(* Every processor has an abort channel.                                   *)
LEMMA NetTypes ==
  ASSUME net \in Nets
  PROVE  \A n \in Node : AbortOf(n) \in Pipeline
  BY NetAssumption DEF NetType, AbortOf, PipelineOf

(* Working, hosted and ended processors are told apart.                    *)
LEMMA Locations ==
  /\ Working \cup Stopped \cup {"done"} \subseteq Location
  /\ "TryPush" \notin Working
  /\ Working \cap Stopped = {}
  /\ "done" \notin Stopped
  BY DEF Working, Stopped, Hosted, Location

(* A processor starts with its work, or has none.                          *)
LEMMA BeginWorks ==
  ASSUME NEW n \in Node
  PROVE  Begin(n) \in Working \cup {"done"}
  BY DEF Begin, Working

(* Every step of a processor is of one of the kinds.                       *)
LEMMA StepKinds ==
  ASSUME AbortType, NEW n \in Node, Step(n), UNCHANGED net
  PROVE  Moves(n) \/ Receives(n) \/ Throws(n) \/ Notifies(n) \/ Rests
  <1> USE Locations, BeginWorks
  <1>1. CASE Generate(n)
    <2>1. Moves(n)
      BY <1>1 DEF Generate, Moves, Goto, Working, Location, run
    <2> QED BY <2>1
  <1>2. CASE UserThrow(n)
    <2>1. Throws(n)
      BY <1>2 DEF UserThrow, Throws, Working
    <2> QED BY <2>1
  <1>3. CASE Pop(n)
    <2>1. Moves(n)
      BY <1>3 DEF Pop, Moves, Goto, Working, Location, run
    <2> QED BY <2>1
  <1>4. CASE PopAbort(n)
    <2>1. CASE AbortReceived(n)
      BY <1>4, <2>1 DEF PopAbort, Receives, Working
    <2>2. CASE AbortChecked(n) /\ ~ AbortReceived(n)
      BY <1>4, <2>2 DEF PopAbort, AbortChecked, Moves, Goto, Working, Location
    <2> QED BY <1>4, <2>1, <2>2 DEF PopAbort
  <1>5. CASE Apply(n)
    <2> DEFINE v == val[n]
    <2>1. AfterValue(n, v) \in Working \cup {"done"}
      BY DEF AfterValue, Working
    <2>2. Moves(n)
      BY <1>5, <2>1 DEF Apply, Moves, Goto, Working, Location, run
    <2> QED BY <2>2
  <1>6. CASE Push(n)
    <2>1. Moves(n)
      BY <1>6 DEF Push, AfterPush, Moves, Goto, Working, Location, run
    <2> QED BY <2>1
  <1>7. CASE PushAbort(n)
    <2>1. CASE AbortReceived(n)
      BY <1>7, <2>1 DEF PushAbort, Receives, Working
    <2>2. CASE AbortChecked(n) /\ ~ AbortReceived(n)
      BY <1>7, <2>2 DEF PushAbort, AbortChecked, AfterPush, Moves, Goto, Working, Location
    <2> QED BY <1>7, <2>1, <2>2 DEF PushAbort
  <1>8. CASE AfterWork(n)
    <2>1. Moves(n)
      BY <1>8 DEF AfterWork, Moves, Goto, Working, Location, run
    <2> QED BY <2>1
  <1>8a. CASE RunEmbedded(n)
    <2>1. Moves(n)
      BY <1>8a DEF RunEmbedded, Moves, Goto, Working, Location, run
    <2> QED BY <2>1
  <1>9. CASE NotifyAbort(n)
    <2>1. Notifies(n)
      BY <1>9 DEF NotifyAbort, Notifies, Goto, run
    <2> QED BY <2>1
  <1>10. CASE CloseInput(n)
    BY <1>10 DEF CloseInput, Rests, run
  <1>11. CASE InputsClosed(n) \/ Rethrow(n)
    <2>1. Moves(n)
      BY <1>11 DEF InputsClosed, Rethrow, Moves, Goto, Hosted, Stopped, Location, run
    <2> QED BY <2>1
  <1>12. CASE CloseOutput(n)
    BY <1>12 DEF CloseOutput, Rests, run
  <1> QED BY <1>1, <1>2, <1>3, <1>4, <1>5, <1>6, <1>7, <1>8, <1>8a, <1>9, <1>10, <1>11,
            <1>12 DEF Step

(* Every step of the system is of one of the kinds.                        *)
LEMMA NextKinds ==
  ASSUME AbortType, [Next]_vars
  PROVE  \/ Rests
         \/ ~ crashed /\ \E n \in Node : Moves(n) \/ Receives(n) \/ Throws(n) \/ Notifies(n)
  <1>1. CASE UNCHANGED vars
    BY <1>1 DEF vars, run, Rests
  <1>2. CASE \E n \in Node : ~ crashed /\ UNCHANGED net /\ Step(n)
    BY <1>2, StepKinds
  <1>3. CASE \E p \in Pipeline : UNCHANGED net /\ Return(p)
    BY <1>3 DEF Return, Rests
  <1> QED BY <1>1, <1>2, <1>3 DEF Next

-----------------------------------------------------------------------------

(* Initially nobody has thrown.                                            *)
LEMMA InitAbortInv == Init => AbortInv
  <1> SUFFICES ASSUME Init PROVE AbortInv
    OBVIOUS
  <1>1. \A n \in Node : Begin(n) \in Location
    BY BeginWorks, Locations
  <1>2. at \in [Node -> Location]
    BY <1>1 DEF Init
  <1>3. abort_channel \in [Pipeline -> 0..AbortCapacity]
    BY AbortAssumption DEF Init
  <1> QED BY <1>2, <1>3 DEF Init, AbortInv, AbortType, ThrownAreStopped

(* Every kind of step keeps the types.                                     *)
LEMMA NextAbortType ==
  ASSUME AbortType, [Next]_vars
  PROVE  AbortType'
  <1> USE Locations, AbortAssumption
  <1>0. \A n \in Node : /\ AbortOf(n) \in Pipeline
                        /\ abort_channel[AbortOf(n)] \in 0..AbortCapacity
    BY NetTypes DEF AbortType
  <1>1. CASE Rests
    BY <1>1 DEF Rests, AbortType
  <1>2. ASSUME NEW n \in Node, Moves(n) PROVE AbortType'
    BY <1>2 DEF Moves, AbortType
  <1>3. ASSUME NEW n \in Node, Receives(n) PROVE AbortType'
    <2>1. abort_channel' \in [Pipeline -> 0..AbortCapacity]
      BY <1>0, <1>3 DEF Receives, AbortReceived, token, AbortType
    <2>2. at' \in [Node -> Location]
      BY <1>3 DEF Receives, AbortReceived, Throw, Goto, AbortType, Location, Hosted
    <2> QED BY <1>3, <2>1, <2>2 DEF Receives, AbortType
  <1>4. ASSUME NEW n \in Node, Throws(n) PROVE AbortType'
    BY <1>4 DEF Throws, Throw, Goto, AbortType, Location, Hosted
  <1>5. ASSUME NEW n \in Node, Notifies(n) PROVE AbortType'
    <2>1. abort_channel' \in [Pipeline -> 0..AbortCapacity]
      BY <1>0, <1>5 DEF Notifies, AbortType
    <2> QED BY <1>5, <2>1 DEF Notifies, AbortType, Location, Hosted
  <1> QED BY <1>1, <1>2, <1>3, <1>4, <1>5, NextKinds

(* Every kind of step leaves a processor that has thrown in its hosted     *)
(* mode.                                                                   *)
LEMMA NextThrownAreStopped ==
  ASSUME AbortInv, [Next]_vars
  PROVE  ThrownAreStopped'
  <1> USE Locations DEF AbortInv, AbortType, ThrownAreStopped
  <1>1. CASE Rests
    BY <1>1 DEF Rests
  <1>2. ASSUME ~ crashed, NEW n \in Node, Moves(n) PROVE ThrownAreStopped'
    BY <1>2 DEF Moves
  <1>3. ASSUME ~ crashed, NEW n \in Node, Receives(n) PROVE ThrownAreStopped'
    BY <1>3 DEF Receives, AbortReceived, Throw, Goto, Stopped, Hosted
  <1>4. ASSUME ~ crashed, NEW n \in Node, Throws(n) PROVE ThrownAreStopped'
    BY <1>4 DEF Throws, Throw, Goto, Stopped, Hosted
  <1>5. ASSUME ~ crashed, NEW n \in Node, Notifies(n) PROVE ThrownAreStopped'
    BY <1>5 DEF Notifies, Stopped, Hosted
  <1> QED BY <1>1, <1>2, <1>3, <1>4, <1>5, NextKinds

(* The inductive invariant is preserved.                                   *)
LEMMA NextAbortInv ==
  ASSUME AbortInv, [Next]_vars
  PROVE  AbortInv'
  BY NextAbortType, NextThrownAreStopped DEF AbortInv

-----------------------------------------------------------------------------

(* Every kind of step keeps the exit information somewhere.                *)
LEMMA NextAbortPersists ==
  ASSUME AbortInv, AbortPersists, [Next]_vars
  PROVE  AbortPersists'
  <1> USE Locations DEF AbortInv, AbortType
  <1> USE NetTypes
  <1>1. CASE Rests
    BY <1>1 DEF Rests, AbortPersists, bound, token, Bound, AbortOf, PipelineOf
  <1>2. ASSUME NEW n \in Node, Moves(n) PROVE AbortPersists'
    BY <1>2 DEF Moves, AbortPersists, bound, token, Bound, AbortOf, PipelineOf, Stopped, Hosted
  <1>3. ASSUME NEW n \in Node, Receives(n) PROVE AbortPersists'
    <2>1. \A m \in Node : AbortOf(m)' = AbortOf(m) /\ (bound(m)' <=> bound(m))
      BY <1>3 DEF Receives, bound, Bound, AbortOf, PipelineOf
    <2>2. /\ abort_channel' = [abort_channel EXCEPT ![AbortOf(n)] = @ - 1]
          /\ at' = [at EXCEPT ![n] = "TryPush"]
      BY <1>3 DEF Receives, AbortReceived, Throw, Goto
    <2>3. ASSUME NEW m \in Node, bound(m), at'[m] \in Hosted \cup {"error"}
          PROVE  token(m)' \/ \E l \in Node : AbortOf(l)' = AbortOf(m)' /\ at'[l] = "TryPush"
      <3>1. CASE AbortOf(m) = AbortOf(n)
        BY <2>1, <2>2, <3>1
      <3>2. CASE AbortOf(m) # AbortOf(n)
        <4>1. m # n /\ at[m] \in Hosted \cup {"error"}
          BY <2>2, <2>3, <3>2
        <4>2. token(m) <=> token(m)'
          BY <2>1, <2>2, <3>2 DEF token
        <4>3. CASE token(m)
          BY <4>2, <4>3
        <4>4. CASE ~ token(m)
          <5>1. PICK l \in Node : AbortOf(l) = AbortOf(m) /\ at[l] = "TryPush"
            BY <2>3, <4>1, <4>4 DEF AbortPersists
          <5>2. at'[l] = "TryPush"
            BY <2>2, <5>1
          <5> QED BY <2>1, <5>1, <5>2
        <4> QED BY <4>3, <4>4
      <3> QED BY <3>1, <3>2
    <2> QED BY <2>1, <2>3 DEF AbortPersists
  <1>4. ASSUME NEW n \in Node, Throws(n) PROVE AbortPersists'
    BY <1>4 DEF Throws, Throw, Goto, AbortPersists, bound, token, Bound, AbortOf, PipelineOf,
                Stopped, Hosted
  <1>5. ASSUME NEW n \in Node, Notifies(n) PROVE AbortPersists'
    BY <1>5, AbortAssumption DEF Notifies, AbortPersists, bound, token, Bound, AbortOf, PipelineOf,
                                 Stopped, Hosted
  <1> QED BY <1>1, <1>2, <1>3, <1>4, <1>5, NextKinds

(* Once a processor has thrown, the exit information is in the abort       *)
(* channel or in the hands of a processor that puts it back: no            *)
(* interleaving of TryPop and TryPush, and no full abort channel, loses it.*)
THEOREM ExitInformationPersists == Spec => []AbortPersists
  <1>1. Init => AbortPersists
    BY BeginWorks, Locations DEF Init, AbortPersists, Stopped
  <1> QED BY <1>1, InitAbortInv, NextAbortInv, NextAbortPersists, PTL DEF Spec

-----------------------------------------------------------------------------

(* The processors with the abort channel of pipeline p that are about to   *)
(* put exit information into it, and those whose user code has thrown.     *)
Carriers(p) == {n \in Node : AbortOf(n) = p /\ at[n] = "TryPush"}
ThrownOf(p) == {n \in thrown : AbortOf(n) = p}

(* Both sides of the balance can be counted.                               *)
LEMMA CarriersFinite ==
  ASSUME AbortType, NEW p \in Pipeline
  PROVE  /\ IsFiniteSet(Carriers(p)) /\ Cardinality(Carriers(p)) \in Nat
         /\ IsFiniteSet(ThrownOf(p)) /\ Cardinality(ThrownOf(p)) \in Nat
  <1>1. Carriers(p) \subseteq Node /\ ThrownOf(p) \subseteq Node
    BY DEF Carriers, ThrownOf, AbortType
  <1>2. IsFiniteSet(Carriers(p)) /\ IsFiniteSet(ThrownOf(p))
    BY <1>1, NodeAssumption, FS_Subset
  <1> QED BY <1>2, FS_CardinalityType

Balanced(p) == abort_channel[p] + Cardinality(Carriers(p)) <= Cardinality(ThrownOf(p))

(* A set that gains at most the element n gains at most one element.       *)
LEMMA OneMore ==
  ASSUME NEW S, IsFiniteSet(S), NEW n, n \notin S, NEW T, T = S \/ T = S \cup {n}
  PROVE  Cardinality(T) \in Nat /\ Cardinality(T) <= Cardinality(S) + 1
  <1>1. Cardinality(S) \in Nat
    BY FS_CardinalityType
  <1>2. CASE T = S
    BY <1>1, <1>2
  <1>3. CASE T = S \cup {n}
    <2>1. Cardinality(T) = Cardinality(S) + 1
      BY <1>3, FS_AddElement
    <2> QED BY <1>1, <2>1
  <1> QED BY <1>2, <1>3

(* A step with another abort channel, or one that leaves both sides alone. *)
LEMMA BalancedFrame ==
  ASSUME NEW p \in Pipeline, Balanced(p), abort_channel'[p] = abort_channel[p],
         Carriers(p)' = Carriers(p), ThrownOf(p)' = ThrownOf(p)
  PROVE  Balanced(p)'
  BY DEF Balanced

(* Every kind of step keeps the balance of exit information and            *)
(* exceptions.                                                             *)
LEMMA NextBalanced ==
  ASSUME AbortInv, NEW p \in Pipeline, Balanced(p), [Next]_vars
  PROVE  Balanced(p)'
  <1> USE Locations
  <1>0. /\ AbortType /\ AbortType'
        /\ \A n \in Node : AbortOf(n) \in Pipeline
        /\ abort_channel[p] \in Nat
    BY NetTypes, NextAbortType DEF AbortInv, AbortType
  <1>f. /\ IsFiniteSet(Carriers(p)) /\ Cardinality(Carriers(p)) \in Nat
        /\ IsFiniteSet(ThrownOf(p)) /\ Cardinality(ThrownOf(p)) \in Nat
    BY <1>0, CarriersFinite
  <1>1. CASE Rests
    <2>1. Carriers(p)' = Carriers(p) /\ ThrownOf(p)' = ThrownOf(p)
      BY <1>1 DEF Rests, Carriers, ThrownOf, AbortOf, PipelineOf
    <2> QED BY <1>1, <2>1, BalancedFrame DEF Rests
  <1>2. ASSUME NEW n \in Node, Moves(n) PROVE Balanced(p)'
    <2>1. Carriers(p)' = Carriers(p) /\ ThrownOf(p)' = ThrownOf(p)
      BY <1>0, <1>2 DEF Moves, Carriers, ThrownOf, AbortOf, PipelineOf, AbortType, Stopped, Hosted
    <2> QED BY <1>2, <2>1, BalancedFrame DEF Moves
  <1>3. ASSUME NEW n \in Node, Receives(n) PROVE Balanced(p)'
    <2>1. ThrownOf(p)' = ThrownOf(p)
      BY <1>3 DEF Receives, ThrownOf, AbortOf, PipelineOf
    <2>2. CASE AbortOf(n) # p
      <3>1. Carriers(p)' = Carriers(p) /\ abort_channel'[p] = abort_channel[p]
        BY <1>0, <1>3, <2>2 DEF Receives, AbortReceived, Throw, Goto, Carriers, AbortOf, PipelineOf,
                                AbortType
      <3> QED BY <2>1, <3>1, BalancedFrame
    <2>3. CASE AbortOf(n) = p
      <3>1. abort_channel'[p] = abort_channel[p] - 1
        BY <1>0, <1>3, <2>3 DEF Receives, AbortReceived, AbortType
      <3>2. n \notin Carriers(p)
        BY <1>3 DEF Receives, Carriers
      <3>3. Carriers(p)' = Carriers(p) \/ Carriers(p)' = Carriers(p) \cup {n}
        BY <1>0, <1>3, <2>3 DEF Receives, AbortReceived, Throw, Goto, Carriers, AbortOf, PipelineOf,
                                AbortType
      <3>4. /\ Cardinality(Carriers(p))' \in Nat
            /\ Cardinality(Carriers(p))' <= Cardinality(Carriers(p)) + 1
        BY <1>f, <3>2, <3>3, OneMore
      <3> QED BY <1>0, <1>f, <2>1, <3>1, <3>4 DEF Balanced
    <2> QED BY <2>2, <2>3
  <1>4. ASSUME ~ crashed, NEW n \in Node, Throws(n) PROVE Balanced(p)'
    <2>1. abort_channel'[p] = abort_channel[p]
      BY <1>4 DEF Throws
    <2>2. CASE AbortOf(n) # p
      <3>1. Carriers(p)' = Carriers(p) /\ ThrownOf(p)' = ThrownOf(p)
        BY <1>0, <1>4, <2>2 DEF Throws, Throw, Goto, Carriers, ThrownOf, AbortOf, PipelineOf, AbortType
      <3> QED BY <2>1, <3>1, BalancedFrame
    <2>3. CASE AbortOf(n) = p
      <3>1. n \notin Carriers(p) /\ n \notin ThrownOf(p)
        BY <1>4 DEF Throws, Carriers, ThrownOf, AbortInv, ThrownAreStopped
      <3>2. Carriers(p)' = Carriers(p) \/ Carriers(p)' = Carriers(p) \cup {n}
        BY <1>0, <1>4, <2>3 DEF Throws, Throw, Goto, Carriers, AbortOf, PipelineOf, AbortType
      <3>3. ThrownOf(p)' = ThrownOf(p) \cup {n}
        BY <1>4, <2>3 DEF Throws, ThrownOf, AbortOf, PipelineOf
      <3>4. /\ Cardinality(Carriers(p))' \in Nat
            /\ Cardinality(Carriers(p))' <= Cardinality(Carriers(p)) + 1
        BY <1>f, <3>1, <3>2, OneMore
      <3>5. Cardinality(ThrownOf(p))' = Cardinality(ThrownOf(p)) + 1
        BY <1>f, <3>1, <3>3, FS_AddElement
      <3> QED BY <1>0, <1>f, <2>1, <3>4, <3>5 DEF Balanced
    <2> QED BY <2>2, <2>3
  <1>5. ASSUME NEW n \in Node, Notifies(n) PROVE Balanced(p)'
    <2>1. ThrownOf(p)' = ThrownOf(p)
      BY <1>5 DEF Notifies, ThrownOf, AbortOf, PipelineOf
    <2>2. CASE AbortOf(n) # p
      <3>1. Carriers(p)' = Carriers(p) /\ abort_channel'[p] = abort_channel[p]
        BY <1>0, <1>5, <2>2 DEF Notifies, Carriers, AbortOf, PipelineOf, AbortType
      <3> QED BY <2>1, <3>1, BalancedFrame
    <2>3. CASE AbortOf(n) = p
      <3>1. abort_channel'[p] \in Nat /\ abort_channel'[p] <= abort_channel[p] + 1
        BY <1>0, <1>5, <2>3 DEF Notifies, AbortType
      <3>2. n \in Carriers(p) /\ Carriers(p)' = Carriers(p) \ {n}
        BY <1>0, <1>5, <2>3 DEF Notifies, Carriers, AbortOf, PipelineOf, AbortType
      <3>3. /\ Cardinality(Carriers(p))' \in Nat
            /\ Cardinality(Carriers(p))' = Cardinality(Carriers(p)) - 1
        BY <1>f, <3>2, FS_RemoveElement, FS_CardinalityType
      <3> QED BY <1>0, <1>f, <2>1, <3>1, <3>3 DEF Balanced
    <2> QED BY <2>2, <2>3
  <1> QED BY <1>0, <1>1, <1>2, <1>3, <1>4, <1>5, NextKinds

(* The exit information is never multiplied: there is at most one for each *)
(* exception of user code, in the abort channel or in the hands of a       *)
(* processor, so a pipeline is stopped only by its own exceptions.         *)
THEOREM ExitInformationIsCaused == Spec => []AbortTokensFromThrows
  <1>1. AbortTokensFromThrows <=> \A p \in Pipeline : Balanced(p)
    BY DEF AbortTokensFromThrows, Balanced, Carriers, ThrownOf
  <1>2. Init => \A p \in Pipeline : Balanced(p)
    <2> SUFFICES ASSUME Init, NEW p \in Pipeline PROVE Balanced(p)
      OBVIOUS
    <2>1. Carriers(p) = {} /\ ThrownOf(p) = {}
      BY BeginWorks, Locations DEF Init, Carriers, ThrownOf
    <2> QED BY <2>1, FS_EmptySet DEF Init, Balanced
  <1>3. AbortInv /\ (\A p \in Pipeline : Balanced(p)) /\ [Next]_vars
            => (\A p \in Pipeline : Balanced(p))'
    BY NextBalanced
  <1>4. (\A p \in Pipeline : Balanced(p)) => AbortTokensFromThrows
    BY <1>1
  <1> QED BY <1>2, <1>3, <1>4, InitAbortInv, NextAbortInv, PTL DEF Spec

-----------------------------------------------------------------------------

(* The item <<s, x>> is in the hands of n, or n has still to push it       *)
(* through output port j.                                                  *)
Holding(s, n, x) == at[n] \in {"PopAbort", "apply"} /\ val[n] = <<s, x>>
Unsent(n) == {k \in DOMAIN pending[n] : at[n] = "Push" \/ (at[n] = "PushAbort" /\ k > 1)}
Sending(s, n, j, x) == \E k \in Unsent(n) : pending[n][k] = <<j, <<s, x>> >>
ToSend(s, n, j, x) == Holding(s, n, x) \/ Sending(s, n, j, x)

(* What is pushed is one item, through every port at most once.            *)
OneItem(n) ==
    \A k, l \in Unsent(n) : pending[n][k][2] # EOF /\ pending[n][l][2] # EOF =>
        /\ pending[n][k][2] = pending[n][l][2]
        /\ pending[n][k][1] = pending[n][l][1] => k = l
GotInSink(n) == Kind[n] \notin {"sink", "channel_sink"} => got[n] = <<>>
ItemInv == \A n \in Node : OneItem(n) /\ GotInSink(n)

-----------------------------------------------------------------------------

(* What a step of n does to the items.                                     *)
OthersKeep(n) ==
    \A m \in Node \ {n} :
        /\ at'[m] = at[m] /\ got'[m] = got[m] /\ made'[m] = made[m] /\ index'[m] = index[m]
        /\ \A s \in Node, x \in Nat : /\ Holding(s, m, x)' <=> Holding(s, m, x)
                                      /\ \A j \in Nat : Sending(s, m, j, x)' <=> Sending(s, m, j, x)

Empty(n) == \A s \in Node, x \in Nat : ~ Holding(s, n, x) /\ \A j \in Nat : ~ Sending(s, n, j, x)

(* n pops v for work().                                                    *)
Takes(n, i, v) ==
    /\ i \in DOMAIN In[n] /\ i = index[n] /\ index'[n] = i
    /\ chan[In[n][i]] # <<>> /\ v = Head(chan[In[n][i]])
    /\ chan' = [chan EXCEPT ![In[n][i]] = Tail(chan[In[n][i]])]
    /\ got' = got /\ made' = made
    /\ Kind[n] # "source" /\ at[n] \notin Stopped /\ at'[n] \notin Stopped
    /\ Empty(n)
    /\ \A s \in Node, x \in Nat : /\ Holding(s, n, x)' <=> v = <<s, x>>
                                  /\ \A j \in Nat : ~ Sending(s, n, j, x)'

(* n pops a value in its hosted mode.                                      *)
Drops(n, i) ==
    /\ i \in DOMAIN In[n]
    /\ chan[In[n][i]] # <<>>
    /\ chan' = [chan EXCEPT ![In[n][i]] = Tail(chan[In[n][i]])]
    /\ got' = got /\ made' = made
    /\ at[n] \in Stopped /\ at'[n] \in Stopped
    /\ Empty(n) /\ Empty(n)'

(* A source generates an item, or EOF.                                     *)
Makes(n) ==
    /\ Kind[n] = "source" /\ DOMAIN Out[n] = {1}
    /\ chan' = chan /\ got' = got /\ index'[n] = index[n]
    /\ at[n] \notin Stopped /\ at'[n] \notin Stopped
    /\ Empty(n)
    /\ n \notin Endless =>
           \/ made'[n] = made[n] /\ Empty(n)'
           \/ /\ made'[n] = made[n] + 1
              /\ \A s \in Node, x \in Nat : /\ ~ Holding(s, n, x)'
                                            /\ \A j \in Nat : Sending(s, n, j, x)' <=> s = n /\ j = 1 /\ x = made[n] + 1
    /\ n \in Endless => \A s \in Node, x \in Nat : /\ ~ Holding(s, n, x)'
                                                   /\ \A j \in Nat : Sending(s, n, j, x)' => s = n

(* n deals with the value that it has popped.                              *)
Applies(n) ==
    /\ Kind[n] # "source"
    /\ chan' = chan /\ index'[n] >= index[n]
    /\ at[n] \notin Stopped /\ at'[n] \notin Stopped
    /\ \A s \in Node, x \in Nat, j \in Nat : ~ Sending(s, n, j, x) /\ ~ Holding(s, n, x)'
    /\ \A s \in Node, x \in Nat, j \in Nat : Kind[s] = "source" /\ Sending(s, n, j, x)' => Holding(s, n, x) /\ Kind[n] # "accumulate"
    /\ \A s \in Node, x \in Nat : \A j \in DOMAIN Out[n] :
           Holding(s, n, x) /\ Kind[n] \notin {"dispatch", "accumulate"} /\ <<s, x>> \notin Filtered =>
               Sending(s, n, j, x)'
    /\ \/ /\ got' = got
          /\ \A s \in Node, x \in Nat : Holding(s, n, x) => s \in Endless \/ Kind[n] \notin {"sink", "channel_sink"}
       \/ /\ Kind[n] \in {"sink", "channel_sink"}
          /\ \E s \in Node, x \in Nat : Holding(s, n, x) /\ got' = [got EXCEPT ![n] = Append(got[n], <<s, x>>)]

(* n pushes v.                                                             *)
Sends(n, j, v) ==
    /\ j \in DOMAIN Out[n] /\ v \in Value
    /\ chan' = [chan EXCEPT ![Out[n][j]] = Append(chan[Out[n][j]], v)]
    /\ got' = got /\ made' = made
    /\ at'[n] \in Stopped <=> at[n] \in Stopped
    /\ at'[n] \notin Stopped => index'[n] = index[n]
    /\ \A s \in Node, x \in Nat : /\ ~ Holding(s, n, x) /\ ~ Holding(s, n, x)'
                                  /\ v = <<s, x>> => Sending(s, n, j, x)
                                  /\ \A k \in Nat : Sending(s, n, k, x)' <=> Sending(s, n, k, x) /\ ~ (k = j /\ v = <<s, x>>)

(* n goes on, or stops and forgets what it has.                            *)
Quiet(n) ==
    /\ chan' = chan /\ got' = got /\ made' = made
    /\ at[n] \in Stopped => at'[n] \in Stopped
    /\ at'[n] \notin Stopped => index'[n] = index[n]
    /\ \A s \in Node, x \in Nat : /\ Holding(s, n, x)' => Holding(s, n, x)
                                  /\ \A j \in Nat : Sending(s, n, j, x)' => Sending(s, n, j, x)
    /\ \/ at'[n] \in Stopped
       \/ \A s \in Node, x \in Nat : /\ Holding(s, n, x)' <=> Holding(s, n, x)
                                     /\ \A j \in Nat : Sending(s, n, j, x)' <=> Sending(s, n, j, x)

View(n) == \/ \E i \in DOMAIN In[n], v \in Value : Takes(n, i, v)
           \/ \E i \in DOMAIN In[n] : Drops(n, i)
           \/ Makes(n) \/ Applies(n) \/ Quiet(n)
           \/ \E j \in DOMAIN Out[n], v \in Value : Sends(n, j, v)

LEMMA OthersKept ==
  ASSUME PortInv, UNCHANGED net, NEW n \in Node, Step(n)
  PROVE  OthersKeep(n)
  <1> SUFFICES ASSUME NEW m \in Node \ {n}
               PROVE  /\ at'[m] = at[m] /\ got'[m] = got[m] /\ made'[m] = made[m] /\ index'[m] = index[m]
                      /\ \A s \in Node, x \in Nat : /\ Holding(s, m, x)' <=> Holding(s, m, x)
                                                    /\ \A j \in Nat : Sending(s, m, j, x)' <=> Sending(s, m, j, x)
    BY DEF OthersKeep
  <1>1. Same(m)
    BY OthersSame DEF PortInv
  <1>2. got'[m] = got[m] /\ made'[m] = made[m]
    <2>1. TypeOK
      BY DEF PortInv
    <2> QED BY <2>1 DEF TypeOK, Step, Generate, UserThrow, Pop, PopAbort, Apply, Push, PushAbort, AfterWork,
            RunEmbedded, NotifyAbort, CloseInput, InputsClosed, CloseOutput, Rethrow, work
  <1>3. at'[m] = at[m] /\ val'[m] = val[m] /\ pending'[m] = pending[m] /\ index'[m] = index[m]
    BY <1>1 DEF Same
  <1>4. Unsent(m)' = Unsent(m)
    BY <1>3 DEF Unsent
  <1>5. ASSUME NEW s \in Node, NEW x \in Nat PROVE Holding(s, m, x)' <=> Holding(s, m, x)
    BY <1>3 DEF Holding
  <1>6. ASSUME NEW s \in Node, NEW x \in Nat, NEW j \in Nat PROVE Sending(s, m, j, x)' <=> Sending(s, m, j, x)
    BY <1>3, <1>4 DEF Sending
  <1> QED BY <1>2, <1>3, <1>5, <1>6

(* Who is neither at PopAbort, apply nor pushing has nothing.              *)
LEMMA NothingHeld ==
  ASSUME NEW n \in Node
  PROVE  /\ at[n] \notin {"PopAbort", "apply", "Push", "PushAbort"} => Empty(n)
         /\ at'[n] \notin {"PopAbort", "apply", "Push", "PushAbort"} => Empty(n)'
         /\ at[n] \notin {"Push", "PushAbort"} => \A s \in Node, x \in Nat, j \in Nat : ~ Sending(s, n, j, x)
         /\ at'[n] \notin {"Push", "PushAbort"} => \A s \in Node, x \in Nat, j \in Nat : ~ Sending(s, n, j, x)'
         /\ at[n] \notin {"PopAbort", "apply"} => \A s \in Node, x \in Nat : ~ Holding(s, n, x)
         /\ at'[n] \notin {"PopAbort", "apply"} => \A s \in Node, x \in Nat : ~ Holding(s, n, x)'
  BY DEF Empty, Holding, Sending, Unsent

LEMMA TakesView ==
  ASSUME PortInv, UNCHANGED net, NEW n \in Node, Pop(n)
  PROVE  View(n)
  <1> DEFINE i == index[n]
             v == Head(chan[In[n][i]])
  <1>0. TypeOK /\ NodeInv(n) /\ net \in Nets /\ at[n] = "Pop"
    BY DEF PortInv, TypeOK, Pop
  <1>1. Reads(n, i)
    BY PopReads
  <1>2. i \in DOMAIN In[n] /\ chan[In[n][i]] # <<>> /\ chan' = [chan EXCEPT ![In[n][i]] = Tail(chan[In[n][i]])]
    BY <1>1 DEF Reads
  <1>3. In[n][i] \in Channel
    BY <1>0, <1>2, NetFacts
  <1>4. v \in Value
    BY <1>0, <1>2, <1>3, DequeueType DEF Dequeue
  <1>5. /\ val'[n] = v /\ index'[n] = i /\ got' = got /\ made' = made
        /\ at'[n] \in {"apply", "PopAbort", "Pop"} /\ (v # EOF => at'[n] # "Pop")
    BY <1>0 DEF Pop, Goto, TypeOK
  <1>6. Kind[n] # "source"
    BY <1>0 DEF NodeInv, KindInv, Reading
  <1> HIDE DEF v, i
  <1>7. ASSUME NEW s \in Node, NEW x \in Nat PROVE Holding(s, n, x)' <=> v = <<s, x>>
    <2>1. <<s, x>> # EOF
      BY ValueAssumption DEF Item
    <2> QED BY <1>5, <2>1 DEF Holding
  <1>8. at[n] \notin Stopped /\ at'[n] \notin Stopped
    BY <1>0, <1>5 DEF Stopped, Hosted
  <1>9. Empty(n) /\ \A s \in Node, x \in Nat, j \in Nat : ~ Sending(s, n, j, x)'
    BY <1>0, <1>5, NothingHeld
  <1>10. Takes(n, i, v)
    BY <1>2, <1>5, <1>6, <1>7, <1>8, <1>9 DEF Takes, i, v
  <1> QED BY <1>2, <1>4, <1>10 DEF View

LEMMA DropsView ==
  ASSUME PortInv, UNCHANGED net, NEW n \in Node, CloseInput(n)
  PROVE  View(n)
  <1>1. PICK i \in DOMAIN In[n] : Reads(n, i)
    BY CloseInputReads
  <1>2. i \in DOMAIN In[n] /\ chan[In[n][i]] # <<>> /\ chan' = [chan EXCEPT ![In[n][i]] = Tail(chan[In[n][i]])]
    BY <1>1 DEF Reads
  <1>3. at[n] = "close_input" /\ at' = at /\ got' = got /\ made' = made
    BY DEF CloseInput
  <1>4. Empty(n) /\ Empty(n)' /\ at[n] \in Stopped /\ at'[n] \in Stopped
    BY <1>3, NothingHeld DEF Stopped, Hosted
  <1>5. Drops(n, i)
    BY <1>2, <1>3, <1>4 DEF Drops
  <1> QED BY <1>5 DEF View

LEMMA EndsView ==
  ASSUME PortInv, UNCHANGED net, NEW n \in Node, AfterWork(n) \/ CloseOutput(n)
  PROVE  View(n)
  <1>1. PICK j \in DOMAIN Out[n] : Writes(n, j, EOF)
    BY EofWrites
  <1>2. EOF \in Value /\ chan' = [chan EXCEPT ![Out[n][j]] = Append(chan[Out[n][j]], EOF)]
    BY <1>1 DEF Writes
  <1>3. /\ got' = got /\ made' = made
        /\ \/ at[n] = "after_work" /\ at'[n] = "done" /\ index'[n] = index[n]
           \/ at[n] = "close_output" /\ at'[n] = "close_output"
    BY DEF AfterWork, CloseOutput, work, PortInv, TypeOK, Goto
  <1>4. /\ Empty(n) /\ Empty(n)' /\ (at[n] \in Stopped <=> at'[n] \in Stopped)
        /\ at'[n] \notin Stopped => index'[n] = index[n]
    BY <1>3, NothingHeld DEF Stopped, Hosted
  <1>5. \A s \in Node, x \in Nat : EOF # <<s, x>>
    BY ValueAssumption DEF Item
  <1>6. Sends(n, j, EOF)
    BY <1>2, <1>3, <1>4, <1>5 DEF Sends, Empty
  <1> QED BY <1>2, <1>6 DEF View

LEMMA MakesView ==
  ASSUME PortInv, UNCHANGED net, NEW n \in Node, Generate(n)
  PROVE  View(n)
  <1>0. TypeOK /\ NodeInv(n) /\ net \in Nets /\ at[n] = "generate" /\ at'[n] = "Push"
    BY DEF PortInv, TypeOK, Generate, Goto
  <1>1. Kind[n] = "source" /\ DOMAIN Out[n] = {1}
    BY <1>0, Ports DEF NodeInv, KindInv
  <1>2. chan' = chan /\ got' = got /\ index' = index /\ made[n] \in Nat
    BY <1>0 DEF Generate, TypeOK
  <1>3. at[n] \notin Stopped /\ at'[n] \notin Stopped
    BY <1>0 DEF Stopped, Hosted
  <1>4. Empty(n) /\ \A s \in Node, x \in Nat : ~ Holding(s, n, x)'
    BY <1>0, NothingHeld
  <1>5. \/ n \in Endless /\ pending'[n] = << <<1, <<n, 0>> >> >>
        \/ n \notin Endless /\ made'[n] = made[n] + 1 /\ pending'[n] = << <<1, <<n, made[n] + 1>> >> >>
        \/ n \notin Endless /\ made'[n] = made[n] /\ pending'[n] = << <<1, EOF>> >>
    BY <1>0 DEF Generate, TypeOK
  <1>6. ASSUME NEW w, pending'[n] = << <<1, w>> >>
        PROVE  \A s \in Node, x \in Nat, j \in Nat : Sending(s, n, j, x)' <=> j = 1 /\ w = <<s, x>>
    <2>1. DOMAIN pending'[n] = {1} /\ pending'[n][1] = <<1, w>>
      BY <1>6
    <2>2. Unsent(n)' = {1}
      BY <1>0, <2>1 DEF Unsent
    <2> QED BY <2>1, <2>2 DEF Sending
  <1>7. CASE n \in Endless
    <2>1. \A s \in Node, x \in Nat, j \in Nat : Sending(s, n, j, x)' => s = n
      BY <1>5, <1>6, <1>7
    <2>2. Makes(n)
      BY <1>1, <1>2, <1>3, <1>4, <1>7, <2>1 DEF Makes
    <2> QED BY <2>2 DEF View
  <1>8. CASE n \notin Endless /\ made'[n] = made[n] + 1 /\ pending'[n] = << <<1, <<n, made[n] + 1>> >> >>
    <2>1. \A s \in Node, x \in Nat, j \in Nat : Sending(s, n, j, x)' <=> s = n /\ j = 1 /\ x = made[n] + 1
      BY <1>6, <1>8
    <2>2. Makes(n)
      BY <1>1, <1>2, <1>3, <1>4, <1>8, <2>1 DEF Makes
    <2> QED BY <2>2 DEF View
  <1>9. CASE n \notin Endless /\ made'[n] = made[n] /\ pending'[n] = << <<1, EOF>> >>
    <2>1. \A s \in Node, x \in Nat, j \in Nat : ~ Sending(s, n, j, x)'
      BY <1>6, <1>9, ValueAssumption DEF Item
    <2>2. Empty(n)'
      BY <1>4, <2>1 DEF Empty
    <2>3. Makes(n)
      BY <1>1, <1>2, <1>3, <1>4, <1>9, <2>2 DEF Makes
    <2> QED BY <2>3 DEF View
  <1> QED BY <1>5, <1>7, <1>8, <1>9

(* The pushes for a value: the value itself, through every output unless   *)
(* it is distributed, accumulated or filtered, and through none twice.     *)
PushesOf(n, v, todo) ==
    /\ Kind[n] # "accumulate" => \A k \in DOMAIN todo : todo[k][2] = v
    /\ Kind[n] = "accumulate" => \A k \in DOMAIN todo : todo[k][2] \in {<<n, made[n]>>, EOF}
    /\ \A k, l \in DOMAIN todo : todo[k][2] # EOF /\ todo[l][2] # EOF =>
           todo[k][2] = todo[l][2] /\ (todo[k][1] = todo[l][1] => k = l)
    /\ v # EOF /\ Kind[n] \notin {"dispatch", "accumulate"} /\ v \notin Filtered =>
           \A j \in DOMAIN Out[n] : \E k \in DOMAIN todo : todo[k] = <<j, v>>

LEMMA PushesItems ==
  ASSUME net \in Nets, NEW n \in Node, NEW v \in Value, made[n] \in Nat,
         Kind[n] \notin {"none", "source", "embed"}, NEW todo \in Pushes(n, v)
  PROVE  PushesOf(n, v, todo)
  <1>1. CASE todo = <<>> /\ (Kind[n] \in {"dispatch", "accumulate", "sink"} \/ v = EOF \/ v \in Filtered)
    <2>1. DOMAIN todo = {}
      BY <1>1
    <2>2. Kind[n] = "sink" => DOMAIN Out[n] = {}
      BY Ports
    <2> QED BY <1>1, <2>1, <2>2 DEF PushesOf
  <1>2. CASE todo = << <<1, v>> >> /\ Kind[n] \notin {"sink", "dispatch", "fork", "accumulate"}
    <2>1. DOMAIN todo = {1} /\ todo[1] = <<1, v>>
      BY <1>2
    <2>2. DOMAIN Out[n] = {1}
      BY <1>2, Ports
    <2> QED BY <1>2, <2>1, <2>2 DEF PushesOf
  <1>3. CASE todo = ToEveryOutput(n, v) /\ Kind[n] \in {"dispatch", "fork"}
    <2>1. DOMAIN todo = DOMAIN Out[n] /\ \A j \in DOMAIN Out[n] : todo[j] = <<j, v>>
      BY <1>3 DEF ToEveryOutput
    <2> QED BY <1>3, <2>1 DEF PushesOf
  <1>4. CASE Kind[n] = "dispatch" /\ \E j \in DOMAIN Out[n] : todo = << <<j, v>> >>
    <2>1. PICK j \in DOMAIN Out[n] : todo = << <<j, v>> >>
      BY <1>4
    <2>2. DOMAIN todo = {1} /\ todo[1] = <<j, v>>
      BY <2>1
    <2> QED BY <1>4, <2>2 DEF PushesOf
  <1>5. CASE Kind[n] = "accumulate" /\ todo = << <<1, <<n, made[n]>> >>, <<1, EOF>> >>
    <2>1. DOMAIN todo = {1, 2} /\ todo[1] = <<1, <<n, made[n]>> >> /\ todo[2] = <<1, EOF>>
      BY <1>5
    <2> QED BY <1>5, <2>1 DEF PushesOf
  <1> USE PushesCases
  <1>6. CASE Kind[n] = "fork"
    BY <1>3, <1>6
  <1>7. CASE Kind[n] = "dispatch"
    BY <1>3, <1>4, <1>7 DEF Dispatched
  <1>8. CASE Kind[n] = "accumulate"
    BY <1>1, <1>5, <1>8 DEF Accumulated
  <1>9. CASE Kind[n] = "sink"
    BY <1>1, <1>9
  <1>10. CASE Kind[n] = "concat"
    BY <1>1, <1>2, <1>10 DEF NextInput
  <1>11. CASE Kind[n] \in {"channel_sink", "channel_source", "transform"}
    BY <1>1, <1>2, <1>11
  <1>12. CASE Kind[n] = "filter"
    <2>1. Pushes(n, v) = IF v \in Filtered THEN {<<>>} ELSE {<< <<1, v>> >>}
      BY <1>12 DEF Pushes, NextInput, Dropped
    <2> QED BY <1>1, <1>2, <1>12, <2>1
  <1>13. Kind[n] \in Kinds
    BY NetFacts
  <1> QED BY <1>6, <1>7, <1>8, <1>9, <1>10, <1>11, <1>12, <1>13 DEF Kinds

LEMMA AppliesView ==
  ASSUME PortInv, UNCHANGED net, NEW n \in Node, Apply(n)
  PROVE  View(n) /\ OneItem(n)'
  <1> PICK v : v = val[n]
    OBVIOUS
  <1>0. TypeOK /\ NodeInv(n) /\ net \in Nets /\ at[n] = "apply"
    BY DEF PortInv, TypeOK, Apply
  <1>1. Kind[n] \notin {"none", "source", "embed"} /\ v \in Value /\ made[n] \in Nat
    BY <1>0 DEF NodeInv, KindInv, Reading, TypeOK, Value
  <1>2. PICK todo \in Pushes(n, v) :
           /\ pending'[n] = todo
           /\ at'[n] = IF todo = <<>> THEN AfterValue(n, v) ELSE "Push"
    BY <1>0 DEF Apply, Goto, TypeOK
  <1>3. PushesOf(n, v, todo)
    BY <1>0, <1>1, PushesItems
  <1>4. todo = <<>> \/ todo \in PushSeq
    BY <1>0, <1>1, PushesGood DEF GoodPushes
  <1>5. at'[n] \in {"Push", "Pop", "after_work", "done"} /\ (at'[n] = "Push" <=> todo # <<>>)
    <2>1. Begin(n) = "Pop"
      BY <1>1, BeginAt
    <2> QED BY <1>2, <2>1 DEF AfterValue
  <1>6. Unsent(n)' = DOMAIN todo
    <2>1. todo = <<>> => DOMAIN todo = {}
      OBVIOUS
    <2>2. CASE todo = <<>>
      BY <1>2, <1>5, <2>1, <2>2 DEF Unsent
    <2>3. CASE todo # <<>>
      BY <1>2, <1>5, <2>3 DEF Unsent
    <2> QED BY <2>2, <2>3
  <1>7. \A s \in Node, x \in Nat : Holding(s, n, x) <=> v = <<s, x>>
    BY <1>0 DEF Holding
  <1>8. \A s \in Node, x \in Nat, j \in Nat :
           Sending(s, n, j, x)' <=> \E k \in DOMAIN todo : todo[k] = <<j, <<s, x>> >>
    BY <1>2, <1>6 DEF Sending
  <1>9. \A s \in Node, x \in Nat : <<s, x>> # EOF
    BY ValueAssumption DEF Item
  <1>10. ASSUME NEW s \in Node, NEW x \in Nat, NEW j \in Nat, Kind[s] = "source", Sending(s, n, j, x)'
         PROVE  Holding(s, n, x) /\ Kind[n] # "accumulate"
    <2>1. PICK k \in DOMAIN todo : todo[k] = <<j, <<s, x>> >>
      BY <1>8, <1>10
    <2>2. todo[k][2] = <<s, x>>
      BY <2>1
    <2>3. Kind[n] # "accumulate"
      <3>1. Kind[n] = "accumulate" => <<s, x>> = <<n, made[n]>>
        BY <1>3, <1>9, <2>2 DEF PushesOf
      <3> QED BY <1>10, <3>1
    <2> QED BY <1>3, <1>7, <2>2, <2>3 DEF PushesOf
  <1>11. ASSUME NEW s \in Node, NEW x \in Nat, NEW j \in DOMAIN Out[n], Holding(s, n, x),
                Kind[n] \notin {"dispatch", "accumulate"}, <<s, x>> \notin Filtered
         PROVE  Sending(s, n, j, x)'
    <2>1. \E k \in DOMAIN todo : todo[k] = <<j, <<s, x>> >>
      BY <1>3, <1>7, <1>9, <1>11 DEF PushesOf
    <2>2. j \in Nat
      BY <1>0, Ports
    <2> QED BY <1>8, <2>1, <2>2
  <1>12. \/ /\ got' = got
            /\ \A s \in Node, x \in Nat : Holding(s, n, x) => s \in Endless \/ Kind[n] \notin {"sink", "channel_sink"}
         \/ /\ Kind[n] \in {"sink", "channel_sink"}
            /\ \E s \in Node, x \in Nat : Holding(s, n, x) /\ got' = [got EXCEPT ![n] = Append(got[n], <<s, x>>)]
    <2>1. got' = IF Kind[n] \in {"sink", "channel_sink"} /\ Recorded(v)
                 THEN [got EXCEPT ![n] = Append(got[n], v)] ELSE got
      BY DEF Apply
    <2>2. CASE Kind[n] \in {"sink", "channel_sink"} /\ Recorded(v)
      <3>1. PICK s \in Node, x \in Nat : v = <<s, x>>
        BY <1>1, <2>2 DEF Recorded, Value, Item
      <3>2. Holding(s, n, x) /\ got' = [got EXCEPT ![n] = Append(got[n], <<s, x>>)]
        BY <1>7, <2>1, <2>2, <3>1
      <3> QED BY <2>2, <3>2
    <2>3. CASE ~ (Kind[n] \in {"sink", "channel_sink"} /\ Recorded(v))
      <3>1. got' = got
        BY <2>1, <2>3
      <3>2. ASSUME NEW s \in Node, NEW x \in Nat, Holding(s, n, x)
            PROVE  s \in Endless \/ Kind[n] \notin {"sink", "channel_sink"}
        <4>1. v = <<s, x>> /\ v # EOF /\ v[1] = s
          BY <1>7, <1>9, <3>2
        <4> QED BY <2>3, <4>1 DEF Recorded
      <3> QED BY <3>1, <3>2
    <2> QED BY <2>2, <2>3
  <1>13. /\ chan' = chan /\ index'[n] >= index[n] /\ at[n] \notin Stopped /\ at'[n] \notin Stopped
    BY <1>0, <1>5 DEF Apply, TypeOK, Stopped, Hosted
  <1>14. \A s \in Node, x \in Nat, j \in Nat : ~ Sending(s, n, j, x) /\ ~ Holding(s, n, x)'
    BY <1>0, <1>5, NothingHeld
  <1>15. Applies(n)
    BY <1>1, <1>10, <1>11, <1>12, <1>13, <1>14 DEF Applies
  <1>16. OneItem(n)'
    BY <1>2, <1>3, <1>6 DEF OneItem, PushesOf
  <1> QED BY <1>15, <1>16 DEF View

(* The pushes that are left after the first.                               *)
Advances(n) ==
    \/ at'[n] = "PushAbort" /\ pending'[n] = pending[n]
    \/ /\ pending'[n] = Tail(pending[n])
       /\ at'[n] \in {"Push", "generate", "Pop", "done", "Run"}
       /\ at'[n] # "Push" => Tail(pending[n]) = <<>>
Left(s, n, j, x) == \E k \in DOMAIN pending[n] : k > 1 /\ pending[n][k] = <<j, <<s, x>> >>

LEMMA UnsentAfter ==
  ASSUME TypeOK, NEW n \in Node, at[n] \in {"Push", "PushAbort"}, pending[n] # <<>>, Advances(n)
  PROVE  /\ \A s \in Node, x \in Nat, j \in Nat : Sending(s, n, j, x)' <=> Left(s, n, j, x)
         /\ at[n] = "PushAbort" => \A s \in Node, x \in Nat, j \in Nat : Sending(s, n, j, x) <=> Left(s, n, j, x)
         /\ OneItem(n) => OneItem(n)'
  <1>1. PICK p : p = pending[n]
    OBVIOUS
  <1>2. p \in PushSeq /\ p # <<>>
    BY <1>1 DEF TypeOK, PushSeq, Value
  <1>3. /\ Len(p) \in Nat /\ Len(p) >= 1 /\ DOMAIN p = 1..Len(p)
        /\ Len(Tail(p)) = Len(p) - 1 /\ DOMAIN Tail(p) = 1..Len(Tail(p))
        /\ \A k \in DOMAIN Tail(p) : Tail(p)[k] = p[k + 1] /\ k + 1 \in DOMAIN p
    BY <1>2, TailFacts DEF PushSeq
  <1>4. at[n] = "Push" => Unsent(n) = DOMAIN p
    BY <1>1 DEF Unsent
  <1>5. at[n] = "PushAbort" => Unsent(n) = {k \in DOMAIN p : k > 1}
    BY <1>1 DEF Unsent
  <1>6. CASE at'[n] = "PushAbort" /\ pending'[n] = p
    <2>1. Unsent(n)' = {k \in DOMAIN p : k > 1}
      BY <1>6 DEF Unsent
    <2>2. OneItem(n) => OneItem(n)'
      BY <1>1, <1>4, <1>5, <1>6, <2>1 DEF OneItem
    <2> QED BY <1>1, <1>5, <1>6, <2>1, <2>2 DEF Sending, Left
  <1>7. CASE /\ pending'[n] = Tail(p)
             /\ at'[n] \in {"Push", "generate", "Pop", "done", "Run"} /\ (at'[n] # "Push" => Tail(p) = <<>>)
    <2>1. Unsent(n)' = DOMAIN Tail(p)
      <3>1. CASE at'[n] = "Push"
        BY <1>7, <3>1 DEF Unsent
      <3>2. CASE at'[n] # "Push"
        <4>1. DOMAIN Tail(p) = {}
          BY <1>7, <3>2
        <4> QED BY <1>7, <3>2, <4>1 DEF Unsent
      <3> QED BY <3>1, <3>2
    <2>2. \A w : (\E k \in DOMAIN Tail(p) : Tail(p)[k] = w) <=> \E k \in DOMAIN p : k > 1 /\ p[k] = w
      <3>1. \A k \in DOMAIN p : k > 1 => k - 1 \in DOMAIN Tail(p) /\ (k - 1) + 1 = k
        BY <1>3
      <3>2. \A k \in DOMAIN p : k > 1 => Tail(p)[k - 1] = p[k] /\ k - 1 \in DOMAIN Tail(p)
        BY <1>3, <3>1
      <3>3. \A k \in DOMAIN Tail(p) : k + 1 > 1
        BY <1>3
      <3> QED BY <1>3, <3>2, <3>3
    <2>3. OneItem(n) => OneItem(n)'
      <3> SUFFICES ASSUME OneItem(n), NEW k \in DOMAIN Tail(p), NEW l \in DOMAIN Tail(p),
                          Tail(p)[k][2] # EOF, Tail(p)[l][2] # EOF
                   PROVE  /\ Tail(p)[k][2] = Tail(p)[l][2]
                          /\ Tail(p)[k][1] = Tail(p)[l][1] => k = l
        BY <1>7, <2>1 DEF OneItem
      <3>1. /\ Tail(p)[k] = p[k + 1] /\ Tail(p)[l] = p[l + 1] /\ k + 1 \in DOMAIN p /\ l + 1 \in DOMAIN p
            /\ k + 1 > 1 /\ l + 1 > 1 /\ (k + 1 = l + 1 => k = l)
        BY <1>3
      <3>2. k + 1 \in Unsent(n) /\ l + 1 \in Unsent(n)
        BY <1>4, <1>5, <3>1
      <3> QED BY <1>1, <3>1, <3>2 DEF OneItem
    <2>4. \A s \in Node, x \in Nat, j \in Nat : Sending(s, n, j, x)' <=>
              \E k \in DOMAIN p : k > 1 /\ p[k] = <<j, <<s, x>> >>
      <3>1. \A s, x, j : Sending(s, n, j, x)' <=> \E k \in DOMAIN Tail(p) : Tail(p)[k] = <<j, <<s, x>> >>
        BY <1>7, <2>1 DEF Sending
      <3> SUFFICES ASSUME NEW s \in Node, NEW x \in Nat, NEW j \in Nat
                   PROVE  Sending(s, n, j, x)' <=> \E k \in DOMAIN p : k > 1 /\ p[k] = <<j, <<s, x>> >>
        OBVIOUS
      <3> PICK w : w = <<j, <<s, x>> >>
        OBVIOUS
      <3>2. Sending(s, n, j, x)' <=> \E k \in DOMAIN Tail(p) : Tail(p)[k] = w
        BY <3>1
      <3> QED BY <2>2, <3>2
    <2>6. at[n] = "PushAbort" => \A s \in Node, x \in Nat, j \in Nat : Sending(s, n, j, x) <=>
              \E k \in DOMAIN p : k > 1 /\ p[k] = <<j, <<s, x>> >>
      BY <1>1, <1>5 DEF Sending
    <2>7. \A s \in Node, x \in Nat, j \in Nat : Left(s, n, j, x) <=>
              \E k \in DOMAIN p : k > 1 /\ p[k] = <<j, <<s, x>> >>
      BY <1>1 DEF Left
    <2> QED BY <2>3, <2>4, <2>6, <2>7
  <1> QED BY <1>1, <1>6, <1>7 DEF Advances

LEMMA SendsView ==
  ASSUME PortInv, UNCHANGED net, NEW n \in Node, OneItem(n), Push(n)
  PROVE  View(n) /\ OneItem(n)'
  <1>0. TypeOK /\ NodeInv(n) /\ net \in Nets /\ at[n] = "Push" /\ pending[n] # <<>>
    BY DEF PortInv, TypeOK, Push, NodeInv, PendingInv, Pushing
  <1>1. PICK p : p = pending[n]
    OBVIOUS
  <1>2. /\ p \in PushSeq /\ p # <<>> /\ p[1] = Head(p) /\ p[1][2] \in Value
        /\ p[1][1] \in DOMAIN Out[n]
    BY <1>1, PushEffect
  <1>3. Enqueue(Out[n][p[1][1]], p[1][2])
    BY <1>1, PushEffect, Zenon
  <1>4. PICK j, v : j = p[1][1] /\ v = p[1][2]
    OBVIOUS
  <1>5. chan' = [chan EXCEPT ![Out[n][j]] = Append(chan[Out[n][j]], v)]
    BY <1>3, <1>4 DEF Enqueue
  <1>6. got' = got /\ made' = made /\ index'[n] = index[n]
    BY DEF Push
  <1>7. Begin(n) \in {"generate", "Pop"}
    BY <1>0, BeginAt DEF NodeInv, KindInv, Pushing
  <1>8. Advances(n)
    BY <1>0, <1>7 DEF Push, AfterPush, Goto, TypeOK, Advances
  <1>9. at[n] \notin Stopped /\ at'[n] \notin Stopped
    BY <1>0, <1>8 DEF Advances, Stopped, Hosted
  <1>10. \A s \in Node, x \in Nat : ~ Holding(s, n, x) /\ ~ Holding(s, n, x)'
    BY <1>0, <1>8, NothingHeld DEF Advances
  <1>11. /\ \A s \in Node, x \in Nat, k \in Nat : Sending(s, n, k, x)' <=>
                \E l \in DOMAIN p : l > 1 /\ p[l] = <<k, <<s, x>> >>
         /\ \A s \in Node, x \in Nat, k \in Nat : Sending(s, n, k, x) <=>
                \E l \in DOMAIN p : p[l] = <<k, <<s, x>> >>
         /\ OneItem(n)'
    <2>1. Unsent(n) = DOMAIN p
      BY <1>0, <1>1 DEF Unsent
    <2>2. \A s \in Node, x \in Nat, k \in Nat : Sending(s, n, k, x)' <=> Left(s, n, k, x)
      BY <1>0, <1>8, UnsentAfter
    <2>3. OneItem(n)'
      BY <1>0, <1>8, UnsentAfter
    <2> QED BY <1>1, <2>1, <2>2, <2>3 DEF Sending, Left
  <1>12. /\ p[1] = <<j, v>> /\ 1 \in DOMAIN p /\ DOMAIN p \subseteq Nat \ {0} /\ j \in Nat
    <2>1. p[1] \in Nat \X Value /\ DOMAIN p = 1..Len(p) /\ Len(p) \in Nat /\ Len(p) >= 1
      BY <1>2, TailFacts DEF PushSeq
    <2> QED BY <1>4, <2>1
  <1>13. \A s \in Node, x \in Nat : v = <<s, x>> => Sending(s, n, j, x)
    BY <1>11, <1>12
  <1>14. ASSUME NEW s \in Node, NEW x \in Nat, NEW k \in Nat
         PROVE  Sending(s, n, k, x)' <=> Sending(s, n, k, x) /\ ~ (k = j /\ v = <<s, x>>)
    <2>1. <<s, x>> # EOF
      BY ValueAssumption DEF Item
    <2>2. Unsent(n) = DOMAIN p
      BY <1>0, <1>1 DEF Unsent
    <2>3. ASSUME NEW l \in DOMAIN p, l > 1, p[l] = <<k, <<s, x>> >>, k = j, v = <<s, x>> PROVE FALSE
      <3>1. p[l][2] # EOF /\ p[1][2] # EOF /\ p[l][1] = p[1][1]
        BY <1>12, <2>1, <2>3
      <3>2. l = 1
        BY <1>1, <1>12, <2>2, <3>1 DEF OneItem
      <3> QED BY <2>3, <3>2
    <2>4. Sending(s, n, k, x)' => Sending(s, n, k, x) /\ ~ (k = j /\ v = <<s, x>>)
      BY <1>11, <2>3
    <2>5. ASSUME Sending(s, n, k, x), ~ (k = j /\ v = <<s, x>>) PROVE Sending(s, n, k, x)'
      <3>1. PICK l \in DOMAIN p : p[l] = <<k, <<s, x>> >>
        BY <1>11, <2>5
      <3>2. l # 1
        BY <1>12, <2>5, <3>1
      <3>3. l > 1
        BY <1>12, <3>2
      <3> QED BY <1>11, <3>1, <3>3
    <2> QED BY <2>4, <2>5
  <1>15. Sends(n, j, v) /\ j \in DOMAIN Out[n] /\ v \in Value
    <2>1. j \in DOMAIN Out[n] /\ v \in Value
      BY <1>2, <1>4
    <2> QED BY <1>5, <1>6, <1>9, <1>10, <1>13, <1>14, <2>1 DEF Sends
  <1> QED BY <1>11, <1>15 DEF View

(* A processor that stops has nothing any more.                            *)
LEMMA StopsQuietly ==
  ASSUME NEW n \in Node, chan' = chan, got' = got, made' = made, at'[n] \in Stopped
  PROVE  View(n) /\ OneItem(n)'
  <1>1. Empty(n)' /\ Unsent(n)' = {}
    BY NothingHeld DEF Stopped, Hosted, Unsent
  <1>2. OneItem(n)'
    BY <1>1 DEF OneItem
  <1>3. Quiet(n)
    BY <1>1 DEF Quiet, Empty
  <1> QED BY <1>2, <1>3 DEF View

(* One that crashes the process does nothing else.                         *)
LEMMA ThrowView ==
  ASSUME TypeOK, NEW n \in Node, OneItem(n), Throw(n), UNCHANGED <<net, chan, val, pending, index, got, made>>
  PROVE  View(n) /\ OneItem(n)'
  <1>1. CASE bound(n)
    <2>1. at'[n] \in Stopped
      BY <1>1 DEF Throw, Goto, TypeOK, Stopped, Hosted
    <2> QED BY <2>1, StopsQuietly
  <1>2. CASE ~ bound(n)
    <2>1. at' = at
      BY <1>2 DEF Throw
    <2>2. Unsent(n)' = Unsent(n)
      BY <2>1 DEF Unsent
    <2>3. \A s \in Node, x \in Nat : /\ Holding(s, n, x)' <=> Holding(s, n, x)
                                     /\ \A j \in Nat : Sending(s, n, j, x)' <=> Sending(s, n, j, x)
      BY <2>1, <2>2 DEF Holding, Sending
    <2>4. OneItem(n)'
      BY <2>2 DEF OneItem
    <2>5. Quiet(n)
      BY <2>1, <2>3 DEF Quiet
    <2> QED BY <2>4, <2>5 DEF View
  <1> QED BY <1>1, <1>2

LEMMA PopAbortView ==
  ASSUME PortInv, UNCHANGED net, NEW n \in Node, OneItem(n), PopAbort(n)
  PROVE  View(n) /\ OneItem(n)'
  <1>0. TypeOK /\ NodeInv(n) /\ at[n] = "PopAbort" /\ UNCHANGED <<net, chan, val, pending, index, got, made>>
    BY DEF PortInv, PopAbort, work
  <1>1. CASE AbortReceived(n)
    BY <1>0, <1>1, ThrowView DEF AbortReceived
  <1>2. CASE at'[n] = IF val[n] = EOF THEN "Pop" ELSE "apply"
    <2>1. at[n] \notin Stopped /\ at'[n] \notin Stopped
      BY <1>0, <1>2 DEF Stopped, Hosted
    <2>2. \A s \in Node, x \in Nat : Holding(s, n, x)' <=> Holding(s, n, x)
      <3>1. \A s \in Node, x \in Nat : <<s, x>> # EOF
        BY ValueAssumption DEF Item
      <3> QED BY <1>0, <1>2, <3>1 DEF Holding
    <2>3. \A s \in Node, x \in Nat, j \in Nat : ~ Sending(s, n, j, x) /\ ~ Sending(s, n, j, x)'
      BY <1>0, <1>2, NothingHeld
    <2>4. Unsent(n)' = {}
      BY <1>2 DEF Unsent
    <2>5. OneItem(n)'
      BY <2>4 DEF OneItem
    <2>6. Quiet(n)
      BY <1>0, <2>1, <2>2, <2>3 DEF Quiet
    <2> QED BY <2>5, <2>6 DEF View
  <1> QED BY <1>0, <1>1, <1>2 DEF PopAbort, Goto, TypeOK

LEMMA PushAbortView ==
  ASSUME PortInv, UNCHANGED net, NEW n \in Node, OneItem(n), PushAbort(n)
  PROVE  View(n) /\ OneItem(n)'
  <1>0. /\ TypeOK /\ NodeInv(n) /\ at[n] = "PushAbort" /\ pending[n] # <<>>
        /\ UNCHANGED <<net, chan, val, index, got, made>>
    BY DEF PortInv, PushAbort, NodeInv, PendingInv, Pushing
  <1>1. CASE AbortReceived(n) /\ UNCHANGED pending
    BY <1>0, <1>1, ThrowView DEF AbortReceived
  <1>2. CASE AfterPush(n)
    <2>0. Begin(n) \in {"generate", "Pop"}
      BY <1>0, BeginAt DEF NodeInv, KindInv, Pushing
    <2>1. Advances(n)
      BY <1>0, <1>2, <2>0 DEF AfterPush, Goto, TypeOK, Advances
    <2>2. \A s \in Node, x \in Nat, j \in Nat : Sending(s, n, j, x)' <=> Left(s, n, j, x)
      BY <1>0, <2>1, UnsentAfter
    <2>3. \A s \in Node, x \in Nat, j \in Nat : Sending(s, n, j, x) <=> Left(s, n, j, x)
      BY <1>0, <2>1, UnsentAfter
    <2>4. OneItem(n)'
      BY <1>0, <2>1, UnsentAfter
    <2>5. at[n] \notin Stopped /\ at'[n] \in {"Push", "PushAbort", "generate", "Pop", "done", "Run"}
      BY <1>0, <2>1 DEF Advances, Stopped, Hosted
    <2>6. \A s \in Node, x \in Nat : ~ Holding(s, n, x) /\ ~ Holding(s, n, x)'
      BY <1>0, <2>5, NothingHeld
    <2>7. Quiet(n)
      BY <1>0, <2>2, <2>3, <2>5, <2>6 DEF Quiet
    <2> QED BY <2>4, <2>7 DEF View
  <1> QED BY <1>1, <1>2 DEF PushAbort

(* What a processor has consumed changes only in a sink.                   *)
LEMMA GotStays ==
  ASSUME PortInv, UNCHANGED net, NEW n \in Node, GotInSink(n), Step(n)
  PROVE  GotInSink(n)'
  <1>1. Kind' = Kind /\ TypeOK
    BY DEF Kind, PortInv
  <1>2. Kind[n] \notin {"sink", "channel_sink"} => got' = got
    BY DEF Step, Generate, UserThrow, Pop, PopAbort, Apply, Push, PushAbort, AfterWork,
       RunEmbedded, NotifyAbort, CloseInput, InputsClosed, CloseOutput, Rethrow, work
  <1> QED BY <1>1, <1>2 DEF GotInSink

(* Every step is one of these.                                             *)
LEMMA StepView ==
  ASSUME PortInv, ItemInv, UNCHANGED net, NEW n \in Node, Step(n)
  PROVE  View(n) /\ OthersKeep(n) /\ ItemInv'
  <1>0. TypeOK /\ OneItem(n) /\ GotInSink(n)
    BY DEF PortInv, ItemInv
  <1>1. View(n) /\ OneItem(n)'
    <2>1. CASE Generate(n)
      <3>1. at'[n] = "Push" /\ \E w : pending'[n] = << <<1, w>> >>
        BY <1>0, <2>1 DEF Generate, Goto, TypeOK
      <3>2. PICK w : pending'[n] = << <<1, w>> >>
        BY <3>1
      <3>3. DOMAIN pending'[n] = {1}
        BY <3>2
      <3>4. OneItem(n)'
        BY <3>3 DEF OneItem, Unsent
      <3> QED BY <2>1, <3>4, MakesView
    <2>2. CASE UserThrow(n)
      BY <1>0, <2>2, ThrowView DEF UserThrow, work
    <2>3. CASE Pop(n) \/ CloseInput(n) \/ AfterWork(n) \/ CloseOutput(n)
      <3>1. at'[n] \notin {"Push", "PushAbort"}
        BY <1>0, <2>3 DEF Pop, CloseInput, AfterWork, CloseOutput, Goto, TypeOK
      <3>2. OneItem(n)'
        BY <3>1 DEF OneItem, Unsent
      <3> QED BY <2>3, <3>2, TakesView, DropsView, EndsView
    <2>4. CASE PopAbort(n)
      BY <1>0, <2>4, PopAbortView
    <2>5. CASE Apply(n)
      BY <2>5, AppliesView
    <2>6. CASE Push(n)
      BY <1>0, <2>6, SendsView
    <2>7. CASE PushAbort(n)
      BY <1>0, <2>7, PushAbortView
    <2>8. CASE RunEmbedded(n)
      <3>1. at[n] = "Run" /\ at'[n] = "done" /\ UNCHANGED <<chan, got, made, index>>
        BY <1>0, <2>8 DEF RunEmbedded, Goto, TypeOK, work
      <3>2. Empty(n) /\ Empty(n)' /\ at[n] \notin Stopped
        BY <3>1, NothingHeld DEF Stopped, Hosted
      <3>3. Quiet(n)
        BY <3>1, <3>2 DEF Quiet, Empty
      <3>4. OneItem(n)'
        BY <3>1 DEF OneItem, Unsent
      <3> QED BY <3>3, <3>4 DEF View
    <2>9. CASE NotifyAbort(n) \/ InputsClosed(n) \/ Rethrow(n)
      <3>1. chan' = chan /\ got' = got /\ made' = made /\ at'[n] \in Stopped
        BY <1>0, <2>9 DEF NotifyAbort, InputsClosed, Rethrow, Goto, TypeOK, Stopped, Hosted, work
      <3> QED BY <3>1, StopsQuietly
    <2> QED BY <2>1, <2>2, <2>3, <2>4, <2>5, <2>6, <2>7, <2>8, <2>9 DEF Step
  <1>2. OthersKeep(n)
    BY OthersKept
  <1>3. GotInSink(n)'
    BY <1>0, GotStays
  <1>4. ASSUME NEW m \in Node \ {n} PROVE OneItem(m)' /\ GotInSink(m)'
    <2>1. OneItem(m) /\ GotInSink(m)
      BY DEF ItemInv
    <2>2. Same(m) /\ got'[m] = got[m] /\ Kind' = Kind
      BY <1>0, <1>2, OthersSame DEF OthersKeep, Kind
    <2>3. Unsent(m)' = Unsent(m)
      BY <2>2 DEF Unsent, Same
    <2> QED BY <2>1, <2>2, <2>3 DEF OneItem, GotInSink, Same
  <1> QED BY <1>1, <1>2, <1>3, <1>4 DEF ItemInv

-----------------------------------------------------------------------------

(* <<s, x>> is in q; the items of s are in q in the order of their numbers;*)
(* no item of s is in q after one of t.                                    *)
Has(q, s, x) == \E b \in DOMAIN q : q[b] = <<s, x>>
Rising(q, s) == \A a, b \in DOMAIN q : \A x, y \in Nat :
                    a < b /\ q[a] = <<s, x>> /\ q[b] = <<s, y>> => x < y
NoneAfter(q, s, t) == \A a, b \in DOMAIN q : \A x, y \in Nat :
                          a < b /\ q[a] = <<t, x>> => q[b] # <<s, y>>

LEMMA ItemsOfTail ==
  ASSUME NEW S, NEW q \in Seq(S), q # <<>>, NEW s
  PROVE  /\ Rising(q, s) => Rising(Tail(q), s)
         /\ \A t : NoneAfter(q, s, t) => NoneAfter(Tail(q), s, t)
         /\ \A x \in Nat : Has(Tail(q), s, x) => Has(q, s, x)
         /\ \A x \in Nat : Has(q, s, x) => Head(q) = <<s, x>> \/ Has(Tail(q), s, x)
         /\ \A x, y \in Nat : Rising(q, s) /\ Head(q) = <<s, x>> /\ Has(Tail(q), s, y) => x < y
         /\ \A x \in Nat : Head(q) = <<s, x>> => Has(q, s, x)
         /\ \A t : \A x, y \in Nat : NoneAfter(q, s, t) /\ Head(q) = <<t, x>> => ~ Has(Tail(q), s, y)
  <1> PICK r : r = Tail(q)
    OBVIOUS
  <1>1. /\ Len(q) \in Nat /\ Len(q) >= 1 /\ DOMAIN q = 1..Len(q) /\ Head(q) = q[1]
        /\ Len(r) = Len(q) - 1 /\ DOMAIN r = 1..Len(r)
        /\ \A k \in DOMAIN r : r[k] = q[k + 1] /\ k + 1 \in DOMAIN q
    BY TailFacts
  <1>2. /\ \A k, l \in DOMAIN r : k < l => k + 1 < l + 1
        /\ \A k \in DOMAIN r : 1 < k + 1
        /\ \A k \in DOMAIN q : k # 1 => k - 1 \in DOMAIN r /\ r[k - 1] = q[k]
        /\ 1 \in DOMAIN q
    <2>1. \A k, l \in DOMAIN r : k < l => k + 1 < l + 1
      BY <1>1
    <2>2. \A k \in DOMAIN r : 1 < k + 1
      BY <1>1
    <2>3. ASSUME NEW k \in DOMAIN q, k # 1 PROVE k - 1 \in DOMAIN r /\ r[k - 1] = q[k]
      <3>1. k - 1 \in DOMAIN r /\ (k - 1) + 1 = k
        BY <1>1, <2>3
      <3> QED BY <1>1, <3>1
    <2>4. 1 \in DOMAIN q
      BY <1>1
    <2> QED BY <2>1, <2>2, <2>3, <2>4
  <1>3. Rising(q, s) => Rising(r, s)
    BY <1>1, <1>2 DEF Rising
  <1>4. \A t : NoneAfter(q, s, t) => NoneAfter(r, s, t)
    BY <1>1, <1>2 DEF NoneAfter
  <1>5. \A x \in Nat : Has(r, s, x) => Has(q, s, x)
    BY <1>1, <1>2 DEF Has
  <1>6. \A x \in Nat : Has(q, s, x) => Head(q) = <<s, x>> \/ Has(r, s, x)
    BY <1>1, <1>2 DEF Has
  <1>7. \A x, y \in Nat : Rising(q, s) /\ Head(q) = <<s, x>> /\ Has(r, s, y) => x < y
    BY <1>1, <1>2 DEF Has, Rising
  <1>8. \A x \in Nat : Head(q) = <<s, x>> => Has(q, s, x)
    BY <1>1, <1>2 DEF Has
  <1>9. \A t : \A x, y \in Nat : NoneAfter(q, s, t) /\ Head(q) = <<t, x>> => ~ Has(r, s, y)
    BY <1>1, <1>2 DEF Has, NoneAfter
  <1> QED BY <1>3, <1>4, <1>5, <1>6, <1>7, <1>8, <1>9

LEMMA ItemsOfAppend ==
  ASSUME NEW S, NEW q \in Seq(S), NEW v, NEW s
  PROVE  /\ \A x \in Nat : Has(Append(q, v), s, x) <=> Has(q, s, x) \/ v = <<s, x>>
         /\ Rising(q, s) /\ (\A x, y \in Nat : v = <<s, x>> /\ Has(q, s, y) => y < x) => Rising(Append(q, v), s)
         /\ \A t : NoneAfter(q, s, t) /\ (\A x, y \in Nat : v = <<s, x>> => ~ Has(q, t, y)) => NoneAfter(Append(q, v), s, t)
  <1>1. PICK r : r = Append(q, v)
    OBVIOUS
  <1>2. /\ Len(q) \in Nat /\ DOMAIN q = 1..Len(q) /\ DOMAIN r = 1..Len(q) + 1
        /\ \A k \in DOMAIN q : r[k] = q[k]
        /\ r[Len(q) + 1] = v
    BY <1>1
  <1>3. PICK l : l = Len(q) + 1
    OBVIOUS
  <1>4. /\ DOMAIN r = DOMAIN q \cup {l} /\ l \notin DOMAIN q /\ r[l] = v /\ l \in DOMAIN r
        /\ \A k \in DOMAIN q : r[k] = q[k] /\ k < l /\ ~ (l < k) /\ k \in DOMAIN r
        /\ ~ (l < l)
    BY <1>2, <1>3
  <1> HIDE <1>1
  <1>5. \A x \in Nat : Has(r, s, x) <=> Has(q, s, x) \/ v = <<s, x>>
    BY <1>4 DEF Has
  <1>6. ASSUME Rising(q, s), \A x, y \in Nat : v = <<s, x>> /\ Has(q, s, y) => y < x
        PROVE  Rising(r, s)
    <2> SUFFICES ASSUME NEW a \in DOMAIN r, NEW b \in DOMAIN r, NEW x \in Nat, NEW y \in Nat,
                        a < b, r[a] = <<s, x>>, r[b] = <<s, y>>
                 PROVE  x < y
      BY DEF Rising
    <2>1. a \in DOMAIN q
      BY <1>4
    <2>2. CASE b = l
      BY <1>4, <1>6, <2>1, <2>2 DEF Has
    <2>3. CASE b \in DOMAIN q
      BY <1>4, <1>6, <2>1, <2>3 DEF Rising
    <2> QED BY <1>4, <2>2, <2>3
  <1>7. ASSUME NEW t, NoneAfter(q, s, t), \A x, y \in Nat : v = <<s, x>> => ~ Has(q, t, y)
        PROVE  NoneAfter(r, s, t)
    <2> SUFFICES ASSUME NEW a \in DOMAIN r, NEW b \in DOMAIN r, NEW x \in Nat, NEW y \in Nat,
                        a < b, r[a] = <<t, x>>, r[b] = <<s, y>>
                 PROVE  FALSE
      BY DEF NoneAfter
    <2>1. a \in DOMAIN q
      BY <1>4
    <2>2. CASE b = l
      BY <1>4, <1>7, <2>1, <2>2 DEF Has
    <2>3. CASE b \in DOMAIN q
      BY <1>4, <1>7, <2>1, <2>3 DEF NoneAfter
    <2> QED BY <1>4, <2>2, <2>3
  <1> QED BY <1>1, <1>5, <1>6, <1>7

-----------------------------------------------------------------------------

(* The items that m passes on reach n through output port j and input      *)
(* port i.                                                                 *)
Lane(F, m, j, n, i) ==
    /\ m \in F /\ j \in DOMAIN Out[m]
    /\ n \in Node /\ i \in DOMAIN In[n]
    /\ PassesOn(net, m, j, n, i)

OnWay(s, F) == /\ F \in SUBSET Node /\ s \in Node \ Endless
               /\ Kind[s] = "source" /\ IsWay(net, s, F)

(* On the way of s there is one lane to a processor, and none to s.        *)
LEMMA Lanes ==
  ASSUME net \in Nets, NEW s, NEW F, OnWay(s, F)
  PROVE  /\ F \subseteq Node /\ s \in Node /\ s \in F /\ s \notin Endless
         /\ \A m, j, n, i : Lane(F, m, j, n, i) =>
                /\ m \in Node /\ m \in F /\ n \in Node /\ n \in F /\ n # s /\ j \in Nat
                /\ j \in DOMAIN Out[m] /\ i \in DOMAIN In[n]
                /\ Out[m][j] = In[n][i] /\ Kind[m] # "accumulate"
                /\ In[n][i] \in Channel
         /\ \A m1, j1, m2, j2, n, i1, i2 : Lane(F, m1, j1, n, i1) /\ Lane(F, m2, j2, n, i2) =>
                m1 = m2 /\ j1 = j2 /\ i1 = i2
         /\ \A n1, n2 \in Node : \A i1 \in DOMAIN In[n1], i2 \in DOMAIN In[n2] :
                In[n1][i1] = In[n2][i2] => n1 = n2 /\ i1 = i2
         /\ \A n \in Node : \A j, k \in DOMAIN Out[n] : Out[n][j] = Out[n][k] => j = k
  <1>1. F \subseteq Node /\ s \in Node /\ s \in F /\ s \notin Endless /\ DOMAIN In[s] = {}
    <2>1. F \subseteq Node /\ s \in Node /\ s \in F /\ s \notin Endless /\ Kind[s] = "source"
      BY DEF OnWay, IsWay
    <2>2. Len(In[s]) = 0 /\ DOMAIN In[s] = 1..Len(In[s])
      BY <2>1, NetFacts, Ports DEF Arity
    <2> QED BY <2>1, <2>2
  <1>2. ASSUME NEW m, NEW j, NEW n, NEW i, Lane(F, m, j, n, i)
        PROVE  /\ m \in Node /\ m \in F /\ n \in Node /\ n \in F /\ n # s /\ j \in Nat
               /\ j \in DOMAIN Out[m] /\ i \in DOMAIN In[n]
               /\ Out[m][j] = In[n][i] /\ Kind[m] # "accumulate"
               /\ In[n][i] \in Channel
               /\ Feeds(net, m, j, n)
    <2>1. /\ m \in F /\ j \in DOMAIN Out[m] /\ n \in Node /\ i \in DOMAIN In[n]
          /\ Out[m][j] = In[n][i] /\ Kind[m] # "accumulate"
      BY <1>2 DEF Lane, PassesOn, Kind, In, Out
    <2>2. Feeds(net, m, j, n) /\ j \in DOMAIN net.out[m]
      BY <1>2 DEF Lane, Feeds, In, Out
    <2>3. n \in F
      BY <2>1, <2>2 DEF OnWay, IsWay
    <2>4. j \in Nat
      BY <1>1, <2>1, Ports
    <2>5. In[n][i] \in Channel
      BY <2>1, NetFacts
    <2> QED BY <1>1, <2>1, <2>2, <2>3, <2>4, <2>5
  <1>3. \A n1, n2 \in Node : \A i1 \in DOMAIN In[n1], i2 \in DOMAIN In[n2] :
            In[n1][i1] = In[n2][i2] => n1 = n2 /\ i1 = i2
    BY NetFacts
  <1>4. ASSUME NEW m1, NEW j1, NEW m2, NEW j2, NEW n, NEW i1, NEW i2,
               Lane(F, m1, j1, n, i1), Lane(F, m2, j2, n, i2)
        PROVE  m1 = m2 /\ j1 = j2 /\ i1 = i2
    <2>1. /\ m1 \in F /\ j1 \in DOMAIN net.out[m1] /\ Feeds(net, m1, j1, n) /\ n \in Node
          /\ Out[m1][j1] = In[n][i1] /\ i1 \in DOMAIN In[n]
      BY <1>2, <1>4 DEF Out
    <2>2. /\ m2 \in F /\ j2 \in DOMAIN net.out[m2] /\ Feeds(net, m2, j2, n)
          /\ Out[m2][j2] = In[n][i2] /\ i2 \in DOMAIN In[n]
      BY <1>2, <1>4 DEF Out
    <2>3. m1 = m2 /\ j1 = j2
      BY <2>1, <2>2 DEF OnWay, IsWay
    <2> QED BY <1>3, <2>1, <2>2, <2>3
  <1>5. \A n \in Node : \A j, k \in DOMAIN Out[n] : Out[n][j] = Out[n][k] => j = k
    BY NetFacts
  <1> QED BY <1>1, <1>2, <1>3, <1>4, <1>5

-----------------------------------------------------------------------------

(* Where the items of s are, when d[n] is the number of the last one that  *)
(* n has popped (or generated).  What n has or pushes is that one.         *)
ItemsAt(s, F, d) ==
    /\ d[s] = made[s]
    /\ \A n \in Node, x \in Nat :
           /\ Holding(s, n, x) => n \in F /\ n # s /\ x = d[n]
           /\ \A j \in Nat : Sending(s, n, j, x) => n \in F /\ x = d[n] /\ Kind[n] # "accumulate"

(* What is in the queue of n is in order, has a greater number than what n *)
(* has popped, and has come by a lane, before what is still to come by it. *)
Queued(s, F, d) ==
    \A n \in Node : \A i \in DOMAIN In[n] :
        /\ Rising(chan[In[n][i]], s)
        /\ \A x \in Nat : Has(chan[In[n][i]], s, x) =>
               /\ d[n] < x
               /\ \E m, j : /\ Lane(F, m, j, n, i)
                            /\ x <= d[m] /\ (ToSend(s, m, j, d[m]) => x < d[m])

Ahead(s, F, d) ==
    \A m, j, n, i : Lane(F, m, j, n, i) =>
        d[n] <= d[m] /\ (ToSend(s, m, j, d[m]) => d[n] < d[m])

Consumed(s, d) ==
    \A n \in Node :
        /\ Rising(got[n], s)
        /\ \A x \in Nat : Has(got[n], s, x) => x <= d[n] /\ (Holding(s, n, d[n]) => x < d[n])

(* What m has popped and n has not is in the queue between them, unless it *)
(* was filtered, or is the last, which m has still to push, or has lost    *)
(* with its exception; what a sink has popped it has consumed, or else.    *)
NoGap(s, F, d) ==
    \A m, j, n, i : Lane(F, m, j, n, i) /\ at[n] \notin Stopped => \A x \in Nat : d[n] < x /\ x <= d[m] =>
        \/ <<s, x>> \in Filtered
        \/ Has(chan[In[n][i]], s, x)
        \/ x = d[m] /\ (ToSend(s, m, j, x) \/ at[m] \in Stopped)
AllConsumed(s, F, d) ==
    \A n \in F : Kind[n] \in {"sink", "channel_sink"} => \A x \in Nat : 0 < x /\ x <= d[n] =>
        \/ <<s, x>> \in Filtered
        \/ Has(got[n], s, x)
        \/ x = d[n] /\ (Holding(s, n, x) \/ at[n] \in Stopped)

Undistributed(F) == \A n \in F : Kind[n] # "dispatch"

OrderInv(s, F, d) ==
    /\ d \in [Node -> Nat]
    /\ ItemsAt(s, F, d) /\ Queued(s, F, d) /\ Ahead(s, F, d) /\ Consumed(s, d)
    /\ Undistributed(F) => NoGap(s, F, d) /\ AllConsumed(s, F, d)

LEMMA NetSame ==
  ASSUME UNCHANGED net
  PROVE  /\ In' = In /\ Out' = Out /\ Kind' = Kind /\ Filtered' = Filtered /\ Endless' = Endless
         /\ \A F, m, j, n, i : Lane(F, m, j, n, i)' <=> Lane(F, m, j, n, i)
         /\ \A F : Undistributed(F)' <=> Undistributed(F)
  <1>1. In' = In /\ Out' = Out /\ Kind' = Kind /\ Filtered' = Filtered /\ Endless' = Endless
    BY DEF In, Out, Kind, Filtered, Endless
  <1>2. \A F, m, j, n, i : Lane(F, m, j, n, i)' <=> Lane(F, m, j, n, i)
    BY <1>1 DEF Lane
  <1>3. \A F : Undistributed(F)' <=> Undistributed(F)
    BY <1>1 DEF Undistributed
  <1> QED BY <1>1, <1>2, <1>3

(* n pops an item of s: by the lane that leads to n, and after those that  *)
(* n has popped before; what is between them was filtered.                 *)
LEMMA TakesOrder ==
  ASSUME PortInv, UNCHANGED net, NEW s, NEW F, OnWay(s, F), NEW d, OrderInv(s, F, d),
         NEW n \in Node, OthersKeep(n), NEW i, NEW x \in Nat, Takes(n, i, <<s, x>>),
         NEW e, e = [d EXCEPT ![n] = x]
  PROVE  OrderInv(s, F, e)'
  <1>0. TypeOK /\ net \in Nets
    BY DEF PortInv, TypeOK
  <1>1. /\ d \in [Node -> Nat] /\ ItemsAt(s, F, d) /\ Queued(s, F, d) /\ Ahead(s, F, d) /\ Consumed(s, d)
        /\ Undistributed(F) => NoGap(s, F, d) /\ AllConsumed(s, F, d)
    BY DEF OrderInv
  <1> USE <1>0, NetSame, Lanes
  <1>2. PICK q : q = chan[In[n][i]]
    OBVIOUS
  <1>3. /\ i \in DOMAIN In[n] /\ In[n][i] \in Channel /\ q \in Seq(Value) /\ q # <<>> /\ Head(q) = <<s, x>>
        /\ chan'[In[n][i]] = Tail(q) /\ \A c \in Channel \ {In[n][i]} : chan'[c] = chan[c]
        /\ got' = got /\ made' = made /\ at[n] \notin Stopped /\ at'[n] \notin Stopped
    <2>1. /\ i \in DOMAIN In[n] /\ q # <<>> /\ Head(q) = <<s, x>>
          /\ chan' = [chan EXCEPT ![In[n][i]] = Tail(q)]
          /\ got' = got /\ made' = made /\ at[n] \notin Stopped /\ at'[n] \notin Stopped
      BY <1>2 DEF Takes
    <2>2. In[n][i] \in Channel
      BY <2>1, NetFacts
    <2>3. chan \in [Channel -> Seq(Value)]
      BY DEF TypeOK, Value
    <2> QED BY <1>2, <2>1, <2>2, <2>3
  <1>4. Has(q, s, x) /\ Rising(q, s) /\ Rising(Tail(q), s)
    BY <1>1, <1>2, <1>3, ItemsOfTail DEF Queued
  <1>5. \A y \in Nat : /\ Has(Tail(q), s, y) => Has(q, s, y) /\ x < y
                       /\ Has(q, s, y) /\ y # x => Has(Tail(q), s, y)
    BY <1>3, <1>4, ItemsOfTail
  <1>6. PICK m0, j0 : /\ Lane(F, m0, j0, n, i) /\ d[n] < x /\ x <= d[m0]
                      /\ ToSend(s, m0, j0, d[m0]) => x < d[m0]
    BY <1>1, <1>2, <1>3, <1>4 DEF Queued
  <1>7. /\ m0 \in Node /\ m0 # n /\ n \in F /\ n # s /\ j0 \in Nat /\ d[m0] \in Nat /\ d[n] \in Nat
        /\ \A m, j, k : Lane(F, m, j, n, k) => m = m0 /\ j = j0 /\ k = i
    BY <1>1, <1>6
  <1>8. e \in [Node -> Nat] /\ e[n] = x /\ \A m \in Node \ {n} : e[m] = d[m]
    BY <1>1
  <1>9. \A m \in Node \ {n}, y \in Nat : /\ at'[m] = at[m]
                                         /\ Holding(s, m, y)' <=> Holding(s, m, y)
                                         /\ \A j \in Nat : /\ Sending(s, m, j, y)' <=> Sending(s, m, j, y)
                                                           /\ ToSend(s, m, j, y)' <=> ToSend(s, m, j, y)
    BY DEF OthersKeep, ToSend, OnWay
  <1>10. \A y \in Nat : /\ ~ Holding(s, n, y) /\ (Holding(s, n, y)' <=> y = x)
                        /\ \A j \in Nat : /\ ~ Sending(s, n, j, y)' /\ ~ ToSend(s, n, j, y)
                                          /\ ToSend(s, n, j, y)' <=> y = x
    BY DEF Takes, Empty, ToSend, OnWay
  <1>11. ItemsAt(s, F, e)'
    <2>1. e[s] = made'[s]
      BY <1>1, <1>3, <1>7, <1>8 DEF ItemsAt
    <2>2. ASSUME NEW l \in Node, NEW y \in Nat
          PROVE  /\ Holding(s, l, y)' => l \in F /\ l # s /\ y = e[l]
                 /\ \A j \in Nat : Sending(s, l, j, y)' => l \in F /\ y = e[l] /\ Kind[l] # "accumulate"
      <3>1. CASE l = n
        BY <1>7, <1>8, <1>10, <3>1
      <3>2. CASE l # n
        BY <1>1, <1>8, <1>9, <3>2 DEF ItemsAt
      <3> QED BY <3>1, <3>2
    <2> QED BY <2>1, <2>2 DEF ItemsAt
  <1>12. Queued(s, F, e)'
    <2> SUFFICES ASSUME NEW l \in Node, NEW k \in DOMAIN In[l]
                 PROVE  /\ Rising(chan'[In[l][k]], s)
                        /\ \A y \in Nat : Has(chan'[In[l][k]], s, y) =>
                               /\ e[l] < y
                               /\ \E m, j : /\ Lane(F, m, j, l, k)
                                            /\ y <= e[m] /\ (ToSend(s, m, j, e[m])' => y < e[m])
      BY DEF Queued
    <2>1. CASE l = n /\ k = i
      BY <1>1, <1>2, <1>3, <1>4, <1>5, <1>7, <1>8, <1>9, <2>1 DEF Queued
    <2>2. CASE l = n /\ k # i
      <3>1. In[n][k] # In[n][i] /\ In[n][k] \in Channel
        BY <1>3, <2>2, NetFacts
      <3>2. chan'[In[n][k]] = chan[In[n][k]]
        BY <1>3, <3>1
      <3>3. ASSUME NEW y \in Nat, Has(chan[In[n][k]], s, y) PROVE FALSE
        <4>1. \E m, j : Lane(F, m, j, n, k)
          BY <1>1, <2>2, <3>3 DEF Queued
        <4> QED BY <1>7, <2>2, <4>1
      <3> QED BY <1>1, <2>2, <3>2, <3>3 DEF Queued
    <2>3. CASE l # n
      <3>1. In[l][k] # In[n][i] /\ In[l][k] \in Channel
        BY <1>3, <2>3, NetFacts
      <3>2. chan'[In[l][k]] = chan[In[l][k]] /\ e[l] = d[l]
        BY <1>3, <1>8, <2>3, <3>1
      <3>3. ASSUME NEW y \in Nat, Has(chan[In[l][k]], s, y)
            PROVE  /\ d[l] < y
                   /\ \E m, j : /\ Lane(F, m, j, l, k)
                                /\ y <= e[m] /\ (ToSend(s, m, j, e[m])' => y < e[m])
        <4>1. d[l] < y
          BY <1>1, <3>3 DEF Queued
        <4>2. PICK m, j : Lane(F, m, j, l, k) /\ y <= d[m] /\ (ToSend(s, m, j, d[m]) => y < d[m])
          BY <1>1, <3>3 DEF Queued
        <4>3. m \in Node /\ j \in Nat /\ d[m] \in Nat
          BY <1>1, <4>2
        <4>4. y <= e[m] /\ (ToSend(s, m, j, e[m])' => y < e[m])
          <5>1. CASE m = n
            BY <1>6, <1>8, <4>2, <4>3, <5>1
          <5>2. CASE m # n
            BY <1>8, <1>9, <4>2, <4>3, <5>2
          <5> QED BY <5>1, <5>2
        <4> QED BY <4>1, <4>2, <4>4
      <3>4. Rising(chan[In[l][k]], s)
        BY <1>1 DEF Queued
      <3> QED BY <3>2, <3>3, <3>4
    <2> QED BY <2>1, <2>2, <2>3
  <1>13. Ahead(s, F, e)'
    <2> SUFFICES ASSUME NEW m, NEW j, NEW l, NEW k, Lane(F, m, j, l, k)
                 PROVE  e[l] <= e[m] /\ (ToSend(s, m, j, e[m])' => e[l] < e[m])
      BY DEF Ahead
    <2>1. m \in Node /\ l \in Node /\ j \in Nat /\ d[l] <= d[m] /\ (ToSend(s, m, j, d[m]) => d[l] < d[m])
      BY <1>1 DEF Ahead
    <2>2. CASE l = n
      BY <1>6, <1>7, <1>8, <1>9, <2>2
    <2>3. CASE l # n /\ m = n
      BY <1>1, <1>6, <1>7, <1>8, <2>1, <2>3
    <2>4. CASE l # n /\ m # n
      BY <1>1, <1>8, <1>9, <2>1, <2>4
    <2> QED BY <2>2, <2>3, <2>4
  <1>14. Consumed(s, e)'
    <2> SUFFICES ASSUME NEW l \in Node
                 PROVE  /\ Rising(got[l], s)
                        /\ \A y \in Nat : Has(got[l], s, y) => y <= e[l] /\ (Holding(s, l, e[l])' => y < e[l])
      BY <1>3 DEF Consumed
    <2> QED BY <1>1, <1>6, <1>7, <1>8, <1>9 DEF Consumed
  <1>15. ASSUME Undistributed(F), NEW y \in Nat, d[n] < y, y < x PROVE <<s, y>> \in Filtered
    <2>1. NoGap(s, F, d) /\ y <= d[m0] /\ y # d[m0]
      BY <1>1, <1>6, <1>7, <1>15
    <2>2. ~ Has(q, s, y)
      BY <1>5, <1>15
    <2> QED BY <1>2, <1>3, <1>6, <1>15, <2>1, <2>2 DEF NoGap
  <1>16. ASSUME Undistributed(F) PROVE NoGap(s, F, e)'
    <2> SUFFICES ASSUME NEW m, NEW j, NEW l, NEW k, Lane(F, m, j, l, k), at'[l] \notin Stopped,
                        NEW y \in Nat, e[l] < y, y <= e[m]
                 PROVE  \/ <<s, y>> \in Filtered
                        \/ Has(chan'[In[l][k]], s, y)
                        \/ y = e[m] /\ (ToSend(s, m, j, y)' \/ at'[m] \in Stopped)
      BY DEF NoGap
    <2>1. /\ m \in Node /\ l \in Node /\ j \in Nat /\ NoGap(s, F, d) /\ k \in DOMAIN In[l] /\ In[l][k] \in Channel
          /\ at[l] \notin Stopped
      BY <1>1, <1>3, <1>9, <1>16
    <2>2. CASE l = n
      BY <1>2, <1>3, <1>5, <1>6, <1>7, <1>8, <1>9, <2>1, <2>2 DEF NoGap
    <2>3. CASE l # n
      <3>1. chan'[In[l][k]] = chan[In[l][k]] /\ e[l] = d[l]
        BY <1>3, <1>8, <2>1, <2>3
      <3>2. CASE m = n
        <4>1. e[m] = x /\ d[l] < y /\ y <= x /\ d[m] = d[n] /\ d[n] \in Nat
          BY <1>7, <1>8, <3>1, <3>2
        <4>2. CASE y <= d[n]
          <5>1. ~ ToSend(s, m, j, y) /\ at[m] \notin Stopped
            BY <1>3, <1>10, <2>1, <3>2
          <5> QED BY <2>1, <3>1, <4>1, <4>2, <5>1 DEF NoGap
        <4>3. CASE d[n] < y /\ y < x
          BY <1>15, <1>16, <4>3
        <4>4. CASE y = x
          BY <1>10, <2>1, <3>2, <4>1, <4>4
        <4> QED BY <4>1, <4>2, <4>3, <4>4
      <3>3. CASE m # n
        BY <1>8, <1>9, <2>1, <3>1, <3>3 DEF NoGap
      <3> QED BY <3>2, <3>3
    <2> QED BY <2>2, <2>3
  <1>17. ASSUME Undistributed(F) PROVE AllConsumed(s, F, e)'
    <2> SUFFICES ASSUME NEW l \in F, Kind[l] \in {"sink", "channel_sink"}, NEW y \in Nat, 0 < y, y <= e[l]
                 PROVE  \/ <<s, y>> \in Filtered
                        \/ Has(got[l], s, y)
                        \/ y = e[l] /\ (Holding(s, l, y)' \/ at'[l] \in Stopped)
      BY <1>3 DEF AllConsumed
    <2>1. AllConsumed(s, F, d) /\ l \in Node
      BY <1>1, <1>17
    <2>2. CASE l = n
      <3>1. e[l] = x /\ y <= x /\ d[n] \in Nat /\ ~ Holding(s, n, y) /\ at[n] \notin Stopped
        BY <1>3, <1>7, <1>8, <1>10, <2>2
      <3>2. CASE y <= d[n]
        BY <2>1, <2>2, <3>1, <3>2 DEF AllConsumed
      <3>3. CASE d[n] < y /\ y < x
        BY <1>15, <1>17, <3>3
      <3>4. CASE y = x
        BY <1>10, <2>2, <3>1, <3>4
      <3> QED BY <3>1, <3>2, <3>3, <3>4
    <2>3. CASE l # n
      BY <1>8, <1>9, <2>1, <2>3 DEF AllConsumed
    <2> QED BY <2>2, <2>3
  <1> QED BY <1>8, <1>11, <1>12, <1>13, <1>14, <1>16, <1>17 DEF OrderInv

(* A step in which no processor gets an item of s to push.                 *)
Fewer(s) ==
    \A m \in Node, y \in Nat :
        /\ Holding(s, m, y)' => Holding(s, m, y)
        /\ \A j \in Nat : Sending(s, m, j, y)' => ToSend(s, m, j, y) /\ Kind[m] # "accumulate"

LEMMA FewerOrder ==
  ASSUME net \in Nets, UNCHANGED net, NEW s, NEW F, OnWay(s, F), NEW d, OrderInv(s, F, d), Fewer(s),
         made'[s] = made[s]
  PROVE  /\ d \in [Node -> Nat] /\ ItemsAt(s, F, d)' /\ Ahead(s, F, d)'
         /\ chan' = chan => Queued(s, F, d)'
         /\ got' = got => Consumed(s, d)'
         /\ \A m \in Node, y \in Nat, j \in Nat : ToSend(s, m, j, y)' => ToSend(s, m, j, y)
  <1>1. d \in [Node -> Nat] /\ ItemsAt(s, F, d) /\ Queued(s, F, d) /\ Ahead(s, F, d) /\ Consumed(s, d)
    BY DEF OrderInv
  <1> USE NetSame, Lanes
  <1>2. \A m \in Node, y \in Nat, j \in Nat : ToSend(s, m, j, y)' => ToSend(s, m, j, y)
    BY DEF Fewer, ToSend
  <1>3. ItemsAt(s, F, d)'
    <2>1. d[s] = made'[s]
      BY <1>1 DEF ItemsAt
    <2>2. ASSUME NEW l \in Node, NEW y \in Nat
          PROVE  /\ Holding(s, l, y)' => l \in F /\ l # s /\ y = d[l]
                 /\ \A j \in Nat : Sending(s, l, j, y)' => l \in F /\ y = d[l] /\ Kind[l] # "accumulate"
      BY <1>1 DEF ItemsAt, Fewer, ToSend
    <2> QED BY <2>1, <2>2 DEF ItemsAt
  <1>4. Ahead(s, F, d)'
    <2> SUFFICES ASSUME NEW m, NEW j, NEW l, NEW k, Lane(F, m, j, l, k)
                 PROVE  d[l] <= d[m] /\ (ToSend(s, m, j, d[m])' => d[l] < d[m])
      BY DEF Ahead
    <2> QED BY <1>1, <1>2 DEF Ahead
  <1>5. ASSUME chan' = chan PROVE Queued(s, F, d)'
    <2> SUFFICES ASSUME NEW l \in Node, NEW k \in DOMAIN In[l]
                 PROVE  /\ Rising(chan[In[l][k]], s)
                        /\ \A y \in Nat : Has(chan[In[l][k]], s, y) =>
                               /\ d[l] < y
                               /\ \E m, j : /\ Lane(F, m, j, l, k)
                                            /\ y <= d[m] /\ (ToSend(s, m, j, d[m])' => y < d[m])
      BY <1>5 DEF Queued
    <2>1. \A m, j : Lane(F, m, j, l, k) => m \in Node /\ d[m] \in Nat /\ j \in Nat
      BY <1>1
    <2> QED BY <1>1, <1>2, <2>1 DEF Queued
  <1>6. ASSUME got' = got PROVE Consumed(s, d)'
    <2> SUFFICES ASSUME NEW l \in Node
                 PROVE  /\ Rising(got[l], s)
                        /\ \A y \in Nat : Has(got[l], s, y) => y <= d[l] /\ (Holding(s, l, d[l])' => y < d[l])
      BY <1>6 DEF Consumed
    <2> QED BY <1>1 DEF Consumed, Fewer
  <1> QED BY <1>1, <1>2, <1>3, <1>4, <1>5, <1>6

(* A step that does not touch the items of s, but may stop n.              *)
LEMMA StillOrder ==
  ASSUME net \in Nets, UNCHANGED net, NEW s, NEW F, OnWay(s, F), NEW d, OrderInv(s, F, d), Fewer(s),
         made'[s] = made[s], chan' = chan, got' = got,
         \A m \in Node : at[m] \in Stopped => at'[m] \in Stopped,
         \A m \in Node, y \in Nat :
             \/ at'[m] \in Stopped
             \/ /\ Holding(s, m, y) => Holding(s, m, y)'
                /\ \A j \in Nat : ToSend(s, m, j, y) => ToSend(s, m, j, y)'
  PROVE  OrderInv(s, F, d)'
  <1> USE NetSame, Lanes
  <1>1. d \in [Node -> Nat] /\ ItemsAt(s, F, d)' /\ Ahead(s, F, d)' /\ Queued(s, F, d)' /\ Consumed(s, d)'
    BY FewerOrder
  <1>2. ASSUME Undistributed(F) PROVE NoGap(s, F, d)'
    <2> SUFFICES ASSUME NEW m, NEW j, NEW l, NEW k, Lane(F, m, j, l, k), at'[l] \notin Stopped,
                        NEW y \in Nat, d[l] < y, y <= d[m]
                 PROVE  \/ <<s, y>> \in Filtered
                        \/ Has(chan[In[l][k]], s, y)
                        \/ y = d[m] /\ (ToSend(s, m, j, y)' \/ at'[m] \in Stopped)
      BY DEF NoGap
    <2>1. m \in Node /\ l \in Node /\ j \in Nat /\ NoGap(s, F, d) /\ at[l] \notin Stopped
      BY <1>2 DEF OrderInv
    <2>2. \/ <<s, y>> \in Filtered
          \/ Has(chan[In[l][k]], s, y)
          \/ y = d[m] /\ (ToSend(s, m, j, y) \/ at[m] \in Stopped)
      BY <2>1 DEF NoGap
    <2> QED BY <2>1, <2>2
  <1>3. ASSUME Undistributed(F) PROVE AllConsumed(s, F, d)'
    <2> SUFFICES ASSUME NEW l \in F, Kind[l] \in {"sink", "channel_sink"}, NEW y \in Nat, 0 < y, y <= d[l]
                 PROVE  \/ <<s, y>> \in Filtered
                        \/ Has(got[l], s, y)
                        \/ y = d[l] /\ (Holding(s, l, y)' \/ at'[l] \in Stopped)
      BY DEF AllConsumed
    <2>1. AllConsumed(s, F, d) /\ l \in Node
      BY <1>3 DEF OrderInv
    <2> QED BY <2>1 DEF AllConsumed
  <1> QED BY <1>1, <1>2, <1>3 DEF OrderInv

LEMMA QuietOrder ==
  ASSUME net \in Nets, UNCHANGED net, NEW s, NEW F, OnWay(s, F), NEW d, OrderInv(s, F, d),
         NEW n \in Node, OthersKeep(n), Quiet(n)
  PROVE  OrderInv(s, F, d)'
  <1>1. s \in Node /\ ItemsAt(s, F, d)
    BY Lanes DEF OrderInv
  <1>2. Fewer(s)
    <2> SUFFICES ASSUME NEW m \in Node, NEW y \in Nat
                 PROVE  /\ Holding(s, m, y)' => Holding(s, m, y)
                        /\ \A j \in Nat : Sending(s, m, j, y)' => ToSend(s, m, j, y) /\ Kind[m] # "accumulate"
      BY DEF Fewer
    <2>1. \A j \in Nat : (Sending(s, m, j, y)' => Sending(s, m, j, y)) /\ (Holding(s, m, y)' => Holding(s, m, y))
      BY <1>1 DEF Quiet, OthersKeep
    <2> QED BY <1>1, <2>1 DEF ItemsAt, ToSend
  <1>3. /\ made' = made /\ chan' = chan /\ got' = got
        /\ \A m \in Node : at[m] \in Stopped => at'[m] \in Stopped
    BY DEF Quiet, OthersKeep
  <1>4. \A m \in Node, y \in Nat :
             \/ at'[m] \in Stopped
             \/ /\ Holding(s, m, y) => Holding(s, m, y)'
                /\ \A j \in Nat : ToSend(s, m, j, y) => ToSend(s, m, j, y)'
    BY <1>1 DEF Quiet, OthersKeep, ToSend
  <1> QED BY <1>2, <1>3, <1>4, StillOrder

(* s generates an item, or EOF; or another source does.                    *)
LEMMA MakesOrder ==
  ASSUME net \in Nets, UNCHANGED net, NEW s, NEW F, OnWay(s, F), NEW d, OrderInv(s, F, d),
         made[s] \in Nat, NEW n \in Node, OthersKeep(n), Makes(n), NEW e, e = [d EXCEPT ![s] = made'[s]]
  PROVE  OrderInv(s, F, e)'
  <1>0. s \in Node /\ s \in F /\ s \notin Endless /\ Kind[s] = "source" /\ d \in [Node -> Nat] /\ d[s] = made[s]
    BY Lanes DEF OnWay, OrderInv, ItemsAt
  <1>1. CASE ~ (n = s /\ made'[s] = made[s] + 1)
    <2>1. made'[s] = made[s] /\ e = d /\ \A y \in Nat : ~ Holding(s, n, y) /\ ~ Holding(s, n, y)'
      <3>1. made'[s] = made[s]
        BY <1>0, <1>1 DEF Makes, OthersKeep
      <3>2. \A y \in Nat : ~ Holding(s, n, y) /\ ~ Holding(s, n, y)'
        BY <1>0 DEF Makes, Empty
      <3> QED BY <1>0, <3>1, <3>2
    <2>2. \A y \in Nat, j \in Nat : ~ Sending(s, n, j, y) /\ ~ Sending(s, n, j, y)'
      BY <1>0, <1>1 DEF Makes, Empty
    <2>3. /\ chan' = chan /\ got' = got
          /\ \A m \in Node : at[m] \in Stopped => at'[m] \in Stopped
          /\ \A m \in Node, y \in Nat : /\ Holding(s, m, y)' <=> Holding(s, m, y)
                                        /\ \A j \in Nat : Sending(s, m, j, y)' <=> Sending(s, m, j, y)
      <3>1. chan' = chan /\ got' = got /\ at[n] \notin Stopped /\ \A m \in Node \ {n} : at'[m] = at[m]
        BY DEF Makes, OthersKeep
      <3>2. \A m \in Node \ {n}, y \in Nat :
                /\ Holding(s, m, y)' <=> Holding(s, m, y)
                /\ \A j \in Nat : Sending(s, m, j, y)' <=> Sending(s, m, j, y)
        BY <1>0 DEF OthersKeep
      <3> QED BY <2>1, <2>2, <3>1, <3>2
    <2>4. Fewer(s)
      BY <2>3 DEF Fewer, ToSend, OrderInv, ItemsAt
    <2>5. \A m \in Node, y \in Nat : /\ Holding(s, m, y) => Holding(s, m, y)'
                                     /\ \A j \in Nat : ToSend(s, m, j, y) => ToSend(s, m, j, y)'
      BY <2>3 DEF ToSend
    <2> QED BY <2>1, <2>3, <2>4, <2>5, StillOrder
  <1>2. CASE n = s /\ made'[s] = made[s] + 1
    <2> USE NetSame, Lanes
    <2>1. /\ ItemsAt(s, F, d) /\ Queued(s, F, d) /\ Ahead(s, F, d) /\ Consumed(s, d)
          /\ Undistributed(F) => NoGap(s, F, d) /\ AllConsumed(s, F, d)
      BY DEF OrderInv
    <2>2. /\ e \in [Node -> Nat] /\ e[s] = d[s] + 1 /\ d[s] \in Nat /\ \A m \in Node \ {s} : e[m] = d[m]
          /\ e[s] = made'[s]
      BY <1>0, <1>2
    <2>3. /\ \A y \in Nat : ~ Holding(s, s, y) /\ ~ Holding(s, s, y)'
          /\ \A y \in Nat, j \in Nat : ~ ToSend(s, s, j, y)
      BY <1>0, <1>2 DEF Makes, Empty, ToSend
    <2>4. /\ \A y \in Nat, j \in Nat : Sending(s, s, j, y)' <=> j = 1 /\ y = e[s]
          /\ ToSend(s, s, 1, e[s])'
      BY <1>0, <1>2, <2>2 DEF Makes, Empty, ToSend
    <2>5. /\ chan' = chan /\ got' = got /\ at[s] \notin Stopped /\ at'[s] \notin Stopped /\ DOMAIN Out[s] = {1}
          /\ \A m \in Node \ {s}, y \in Nat : /\ at'[m] = at[m]
                                              /\ Holding(s, m, y)' <=> Holding(s, m, y)
                                              /\ \A j \in Nat : /\ Sending(s, m, j, y)' <=> Sending(s, m, j, y)
                                                                /\ ToSend(s, m, j, y)' <=> ToSend(s, m, j, y)
      BY <1>0, <1>2 DEF Makes, OthersKeep, ToSend
    <2>6. ItemsAt(s, F, e)'
      <3>1. ASSUME NEW l \in Node, NEW y \in Nat
            PROVE  /\ Holding(s, l, y)' => l \in F /\ l # s /\ y = e[l]
                   /\ \A j \in Nat : Sending(s, l, j, y)' => l \in F /\ y = e[l] /\ Kind[l] # "accumulate"
        <4>1. CASE l = s
          BY <1>0, <2>3, <2>4, <4>1
        <4>2. CASE l # s
          BY <2>1, <2>2, <2>5, <4>2 DEF ItemsAt
        <4> QED BY <4>1, <4>2
      <3> QED BY <2>2, <3>1 DEF ItemsAt
    <2>7. Queued(s, F, e)'
      <3> SUFFICES ASSUME NEW l \in Node, NEW k \in DOMAIN In[l]
                   PROVE  /\ Rising(chan[In[l][k]], s)
                          /\ \A y \in Nat : Has(chan[In[l][k]], s, y) =>
                                 /\ e[l] < y
                                 /\ \E m, j : /\ Lane(F, m, j, l, k)
                                              /\ y <= e[m] /\ (ToSend(s, m, j, e[m])' => y < e[m])
        BY <2>5 DEF Queued
      <3>1. Rising(chan[In[l][k]], s)
        BY <2>1 DEF Queued
      <3>2. ASSUME NEW y \in Nat, Has(chan[In[l][k]], s, y)
            PROVE  /\ e[l] < y
                   /\ \E m, j : /\ Lane(F, m, j, l, k)
                                /\ y <= e[m] /\ (ToSend(s, m, j, e[m])' => y < e[m])
        <4>1. PICK m, j : Lane(F, m, j, l, k) /\ y <= d[m] /\ (ToSend(s, m, j, d[m]) => y < d[m])
          BY <2>1, <3>2 DEF Queued
        <4>2. m \in Node /\ j \in Nat /\ d[m] \in Nat /\ l # s
          BY <1>0, <4>1
        <4>3. y <= e[m] /\ (ToSend(s, m, j, e[m])' => y < e[m])
          <5>1. CASE m = s
            BY <2>2, <4>1, <4>2, <5>1
          <5>2. CASE m # s
            BY <2>2, <2>5, <4>1, <4>2, <5>2
          <5> QED BY <5>1, <5>2
        <4>4. e[l] < y
          BY <2>1, <2>2, <3>2, <4>2 DEF Queued
        <4> QED BY <4>1, <4>3, <4>4
      <3> QED BY <3>1, <3>2
    <2>8. Ahead(s, F, e)'
      <3> SUFFICES ASSUME NEW m, NEW j, NEW l, NEW k, Lane(F, m, j, l, k)
                   PROVE  e[l] <= e[m] /\ (ToSend(s, m, j, e[m])' => e[l] < e[m])
        BY DEF Ahead
      <3>1. /\ m \in Node /\ l \in Node /\ j \in Nat /\ l # s
            /\ d[l] <= d[m] /\ (ToSend(s, m, j, d[m]) => d[l] < d[m]) /\ e[l] = d[l] /\ d[l] \in Nat
        BY <1>0, <2>1, <2>2 DEF Ahead
      <3>2. CASE m = s
        BY <2>2, <3>1, <3>2
      <3>3. CASE m # s
        BY <1>0, <2>2, <2>5, <3>1, <3>3
      <3> QED BY <3>2, <3>3
    <2>9. Consumed(s, e)'
      <3> SUFFICES ASSUME NEW l \in Node
                   PROVE  /\ Rising(got[l], s)
                          /\ \A y \in Nat : Has(got[l], s, y) => y <= e[l] /\ (Holding(s, l, e[l])' => y < e[l])
        BY <2>5 DEF Consumed
      <3>1. CASE l = s
        BY <2>1, <2>2, <2>3, <3>1 DEF Consumed
      <3>2. CASE l # s
        BY <1>0, <2>1, <2>2, <2>5, <3>2 DEF Consumed
      <3> QED BY <3>1, <3>2
    <2>10. ASSUME Undistributed(F) PROVE NoGap(s, F, e)'
      <3> SUFFICES ASSUME NEW m, NEW j, NEW l, NEW k, Lane(F, m, j, l, k), at'[l] \notin Stopped,
                          NEW y \in Nat, e[l] < y, y <= e[m]
                   PROVE  \/ <<s, y>> \in Filtered
                          \/ Has(chan[In[l][k]], s, y)
                          \/ y = e[m] /\ (ToSend(s, m, j, y)' \/ at'[m] \in Stopped)
        BY <2>5 DEF NoGap
      <3>1. /\ m \in Node /\ l \in Node /\ l # s /\ j \in Nat /\ j \in DOMAIN Out[m] /\ NoGap(s, F, d)
            /\ at[l] \notin Stopped /\ e[l] = d[l] /\ d[m] \in Nat
        BY <1>0, <2>1, <2>2, <2>5, <2>10
      <3>2. CASE m = s
        <4>1. j = 1 /\ ~ ToSend(s, m, j, y)
          BY <2>3, <2>5, <3>1, <3>2
        <4>2. CASE y = e[s]
          BY <2>4, <3>2, <4>1, <4>2
        <4>3. CASE y # e[s]
          <5>1. y <= d[s]
            BY <2>2, <3>2, <4>3
          <5> QED BY <2>5, <3>1, <3>2, <4>1, <5>1 DEF NoGap
        <4> QED BY <4>2, <4>3
      <3>3. CASE m # s
        BY <2>2, <2>5, <3>1, <3>3 DEF NoGap
      <3> QED BY <3>2, <3>3
    <2>11. ASSUME Undistributed(F) PROVE AllConsumed(s, F, e)'
      <3> SUFFICES ASSUME NEW l \in F, Kind[l] \in {"sink", "channel_sink"}, NEW y \in Nat, 0 < y, y <= e[l]
                   PROVE  \/ <<s, y>> \in Filtered
                          \/ Has(got[l], s, y)
                          \/ y = e[l] /\ (Holding(s, l, y)' \/ at'[l] \in Stopped)
        BY <2>5 DEF AllConsumed
      <3>1. AllConsumed(s, F, d) /\ l \in Node /\ l # s
        BY <1>0, <2>1, <2>11
      <3> QED BY <2>2, <2>5, <3>1 DEF AllConsumed
    <2> QED BY <2>2, <2>6, <2>7, <2>8, <2>9, <2>10, <2>11 DEF OrderInv
  <1> QED BY <1>1, <1>2

(* n pops something else, or drops what it pops.                           *)
LEMMA PopsOrder ==
  ASSUME PortInv, UNCHANGED net, NEW s, NEW F, OnWay(s, F), NEW d, OrderInv(s, F, d),
         NEW n \in Node, OthersKeep(n), NEW i \in DOMAIN In[n],
         \/ Drops(n, i)
         \/ \E v : Takes(n, i, v) /\ \A x \in Nat : v # <<s, x>>
  PROVE  OrderInv(s, F, d)'
  <1>0. TypeOK /\ net \in Nets
    BY DEF PortInv, TypeOK
  <1>1. /\ d \in [Node -> Nat] /\ ItemsAt(s, F, d) /\ Queued(s, F, d) /\ Ahead(s, F, d) /\ Consumed(s, d)
        /\ Undistributed(F) => NoGap(s, F, d) /\ AllConsumed(s, F, d)
    BY DEF OrderInv
  <1> USE <1>0, NetSame, Lanes
  <1>2. PICK q : q = chan[In[n][i]]
    OBVIOUS
  <1>3. /\ In[n][i] \in Channel /\ q \in Seq(Value) /\ q # <<>>
        /\ chan'[In[n][i]] = Tail(q) /\ \A c \in Channel \ {In[n][i]} : chan'[c] = chan[c]
        /\ got' = got /\ made' = made /\ (at[n] \in Stopped <=> at'[n] \in Stopped)
        /\ at[n] \notin Stopped => \A x \in Nat : Head(q) # <<s, x>>
    <2>1. /\ q # <<>> /\ chan' = [chan EXCEPT ![In[n][i]] = Tail(q)]
          /\ got' = got /\ made' = made /\ (at[n] \in Stopped <=> at'[n] \in Stopped)
          /\ at[n] \notin Stopped => \A x \in Nat : Head(q) # <<s, x>>
      BY <1>2 DEF Takes, Drops
    <2>2. In[n][i] \in Channel
      BY NetFacts
    <2>3. chan \in [Channel -> Seq(Value)]
      BY DEF TypeOK, Value
    <2> QED BY <1>2, <2>1, <2>2, <2>3
  <1>4. /\ Rising(q, s) => Rising(Tail(q), s)
        /\ \A y \in Nat : /\ Has(Tail(q), s, y) => Has(q, s, y)
                          /\ Has(q, s, y) => Head(q) = <<s, y>> \/ Has(Tail(q), s, y)
    BY <1>3, ItemsOfTail
  <1>5. \A y \in Nat : /\ ~ Holding(s, n, y) /\ ~ Holding(s, n, y)'
                       /\ \A j \in Nat : ~ Sending(s, n, j, y) /\ ~ Sending(s, n, j, y)'
    BY DEF Takes, Drops, Empty, OnWay
  <1>6. \A m \in Node, y \in Nat : /\ at'[m] \in Stopped <=> at[m] \in Stopped
                                   /\ Holding(s, m, y)' <=> Holding(s, m, y)
                                   /\ \A j \in Nat : /\ Sending(s, m, j, y)' <=> Sending(s, m, j, y)
                                                     /\ ToSend(s, m, j, y)' <=> ToSend(s, m, j, y)
    BY <1>3, <1>5 DEF OthersKeep, ToSend, OnWay
  <1>7. Fewer(s)
    BY <1>1, <1>6 DEF Fewer, ToSend, ItemsAt
  <1>8. ItemsAt(s, F, d)' /\ Ahead(s, F, d)' /\ Consumed(s, d)'
    BY <1>3, <1>7, FewerOrder
  <1>9. ASSUME NEW l \in Node, NEW k \in DOMAIN In[l]
        PROVE  /\ Rising(chan[In[l][k]], s) => Rising(chan'[In[l][k]], s)
               /\ \A y \in Nat : Has(chan'[In[l][k]], s, y) => Has(chan[In[l][k]], s, y)
               /\ at'[l] \notin Stopped => \A y \in Nat : Has(chan[In[l][k]], s, y) => Has(chan'[In[l][k]], s, y)
    <2>1. CASE In[l][k] = In[n][i]
      <3>1. l = n
        BY <2>1
      <3> QED BY <1>2, <1>3, <1>4, <2>1, <3>1
    <2>2. CASE In[l][k] # In[n][i]
      <3>1. In[l][k] \in Channel
        BY NetFacts
      <3> QED BY <1>3, <2>2, <3>1
    <2> QED BY <2>1, <2>2
  <1>10. Queued(s, F, d)'
    <2> SUFFICES ASSUME NEW l \in Node, NEW k \in DOMAIN In[l]
                 PROVE  /\ Rising(chan'[In[l][k]], s)
                        /\ \A y \in Nat : Has(chan'[In[l][k]], s, y) =>
                               /\ d[l] < y
                               /\ \E m, j : /\ Lane(F, m, j, l, k)
                                            /\ y <= d[m] /\ (ToSend(s, m, j, d[m])' => y < d[m])
      BY DEF Queued
    <2>1. \A m, j : Lane(F, m, j, l, k) => m \in Node /\ d[m] \in Nat /\ j \in Nat
      BY <1>1
    <2>2. /\ Rising(chan[In[l][k]], s)
          /\ \A y \in Nat : Has(chan[In[l][k]], s, y) =>
                 /\ d[l] < y
                 /\ \E m, j : /\ Lane(F, m, j, l, k)
                              /\ y <= d[m] /\ (ToSend(s, m, j, d[m]) => y < d[m])
      BY <1>1 DEF Queued
    <2> QED BY <1>6, <1>9, <2>1, <2>2
  <1>11. ASSUME Undistributed(F) PROVE NoGap(s, F, d)'
    <2> SUFFICES ASSUME NEW m, NEW j, NEW l, NEW k, Lane(F, m, j, l, k), at'[l] \notin Stopped,
                        NEW y \in Nat, d[l] < y, y <= d[m]
                 PROVE  \/ <<s, y>> \in Filtered
                        \/ Has(chan'[In[l][k]], s, y)
                        \/ y = d[m] /\ (ToSend(s, m, j, y)' \/ at'[m] \in Stopped)
      BY DEF NoGap
    <2>1. m \in Node /\ l \in Node /\ k \in DOMAIN In[l] /\ j \in Nat /\ NoGap(s, F, d) /\ at[l] \notin Stopped
      BY <1>1, <1>6, <1>11
    <2>2. \/ <<s, y>> \in Filtered
          \/ Has(chan[In[l][k]], s, y)
          \/ y = d[m] /\ (ToSend(s, m, j, y) \/ at[m] \in Stopped)
      BY <2>1 DEF NoGap
    <2> QED BY <1>6, <1>9, <2>1, <2>2
  <1>12. ASSUME Undistributed(F) PROVE AllConsumed(s, F, d)'
    <2> SUFFICES ASSUME NEW l \in F, Kind[l] \in {"sink", "channel_sink"}, NEW y \in Nat, 0 < y, y <= d[l]
                 PROVE  \/ <<s, y>> \in Filtered
                        \/ Has(got[l], s, y)
                        \/ y = d[l] /\ (Holding(s, l, y)' \/ at'[l] \in Stopped)
      BY <1>3 DEF AllConsumed
    <2>1. AllConsumed(s, F, d) /\ l \in Node
      BY <1>1, <1>12
    <2> QED BY <1>6, <2>1 DEF AllConsumed
  <1> QED BY <1>1, <1>8, <1>10, <1>11, <1>12 DEF OrderInv

(* n deals with a value: it passes an item of s on, through every output,  *)
(* unless the item is filtered; a sink consumes it.                        *)
LEMMA AppliesOrder ==
  ASSUME PortInv, UNCHANGED net, NEW s, NEW F, OnWay(s, F), NEW d, OrderInv(s, F, d),
         NEW n \in Node, OthersKeep(n), Applies(n), made'[s] = made[s]
  PROVE  OrderInv(s, F, d)'
  <1>0. TypeOK /\ net \in Nets /\ s \in Node /\ Kind[s] = "source" /\ s \notin Endless
    BY DEF PortInv, TypeOK, OnWay
  <1>1. /\ d \in [Node -> Nat] /\ ItemsAt(s, F, d) /\ Queued(s, F, d) /\ Ahead(s, F, d) /\ Consumed(s, d)
        /\ Undistributed(F) => NoGap(s, F, d) /\ AllConsumed(s, F, d)
    BY DEF OrderInv
  <1> USE <1>0, NetSame, Lanes
  <1>2. \A m \in Node \ {n}, y \in Nat : /\ at'[m] = at[m]
                                         /\ Holding(s, m, y)' <=> Holding(s, m, y)
                                         /\ \A j \in Nat : /\ Sending(s, m, j, y)' <=> Sending(s, m, j, y)
                                                           /\ ToSend(s, m, j, y)' <=> ToSend(s, m, j, y)
    BY DEF OthersKeep, ToSend
  <1>3. \A y \in Nat : /\ ~ Holding(s, n, y)'
                       /\ \A j \in Nat : /\ ~ Sending(s, n, j, y)
                                         /\ Sending(s, n, j, y)' => Holding(s, n, y) /\ Kind[n] # "accumulate"
    BY DEF Applies
  <1>4. chan' = chan /\ at[n] \notin Stopped /\ at'[n] \notin Stopped
    BY DEF Applies
  <1>5. Fewer(s)
    <2> SUFFICES ASSUME NEW m \in Node, NEW y \in Nat
                 PROVE  /\ Holding(s, m, y)' => Holding(s, m, y)
                        /\ \A j \in Nat : Sending(s, m, j, y)' => ToSend(s, m, j, y) /\ Kind[m] # "accumulate"
      BY DEF Fewer
    <2>1. CASE m = n
      BY <1>3, <2>1 DEF ToSend
    <2>2. CASE m # n
      BY <1>1, <1>2, <2>2 DEF ItemsAt, ToSend
    <2> QED BY <2>1, <2>2
  <1>6. ItemsAt(s, F, d)' /\ Ahead(s, F, d)' /\ Queued(s, F, d)'
    BY <1>4, <1>5, FewerOrder
  <1>7. /\ \A l \in Node \ {n} : got'[l] = got[l]
        /\ \A y \in Nat : Has(got[n], s, y) => Has(got'[n], s, y)
        /\ \A y \in Nat : Has(got'[n], s, y) => Has(got[n], s, y) \/ Holding(s, n, y)
        /\ Rising(got'[n], s)
        /\ Kind[n] \in {"sink", "channel_sink"} => \A y \in Nat : Holding(s, n, y) => Has(got'[n], s, y)
    <2>1. got \in [Node -> Seq(Item)] /\ Rising(got[n], s)
      BY <1>1 DEF TypeOK, Consumed
    <2>2. CASE /\ got' = got
               /\ \A x \in Nat : Holding(s, n, x) => Kind[n] \notin {"sink", "channel_sink"}
      BY <2>1, <2>2
    <2>3. CASE \E t \in Node, x \in Nat : Holding(t, n, x) /\ got' = [got EXCEPT ![n] = Append(got[n], <<t, x>>)]
      <3>1. PICK t \in Node, x \in Nat : Holding(t, n, x) /\ got' = [got EXCEPT ![n] = Append(got[n], <<t, x>>)]
        BY <2>3
      <3>2. PICK v : v = <<t, x>>
        OBVIOUS
      <3>3. got'[n] = Append(got[n], v) /\ got[n] \in Seq(Item) /\ \A l \in Node \ {n} : got'[l] = got[l]
        BY <2>1, <3>1, <3>2
      <3>4. \A y \in Nat : Holding(s, n, y) <=> v = <<s, y>>
        BY <3>1, <3>2 DEF Holding
      <3>5. \A y \in Nat : Has(got'[n], s, y) <=> Has(got[n], s, y) \/ v = <<s, y>>
        <4>1. PICK g : g = got[n]
          OBVIOUS
        <4>2. g \in Seq(Item) /\ got'[n] = Append(g, v)
          BY <3>3, <4>1
        <4>3. \A y \in Nat : Has(Append(g, v), s, y) <=> Has(g, s, y) \/ v = <<s, y>>
          BY ONLY <4>2, ItemsOfAppend
        <4> QED BY ONLY <4>1, <4>2, <4>3
      <3>6. \A x1, y \in Nat : v = <<s, x1>> /\ Has(got[n], s, y) => y < x1
        <4> SUFFICES ASSUME NEW x1 \in Nat, NEW y \in Nat, Holding(s, n, x1), Has(got[n], s, y) PROVE y < x1
          BY <3>4
        <4>1. x1 = d[n]
          BY <1>1 DEF ItemsAt
        <4> QED BY <1>1, <4>1 DEF Consumed
      <3>7. Rising(got'[n], s)
        BY ONLY <2>1, <3>3, <3>6, ItemsOfAppend
      <3> QED BY <3>3, <3>4, <3>5, <3>7
    <2> QED BY <2>2, <2>3 DEF Applies
  <1>8. Consumed(s, d)'
    <2> SUFFICES ASSUME NEW l \in Node
                 PROVE  /\ Rising(got'[l], s)
                        /\ \A y \in Nat : Has(got'[l], s, y) => y <= d[l] /\ (Holding(s, l, d[l])' => y < d[l])
      BY DEF Consumed
    <2>1. CASE l = n
      <3>1. \A y \in Nat : Holding(s, n, y) => y <= d[n]
        BY <1>1 DEF ItemsAt
      <3>2. d[n] \in Nat /\ ~ Holding(s, n, d[n])'
        BY <1>1, <1>3
      <3> QED BY <1>1, <1>7, <2>1, <3>1, <3>2 DEF Consumed
    <2>2. CASE l # n
      BY <1>1, <1>2, <1>7, <2>2 DEF Consumed
    <2> QED BY <2>1, <2>2
  <1>9. ASSUME Undistributed(F) PROVE NoGap(s, F, d)'
    <2> SUFFICES ASSUME NEW m, NEW j, NEW l, NEW k, Lane(F, m, j, l, k), at'[l] \notin Stopped,
                        NEW y \in Nat, d[l] < y, y <= d[m]
                 PROVE  \/ <<s, y>> \in Filtered
                        \/ Has(chan[In[l][k]], s, y)
                        \/ y = d[m] /\ (ToSend(s, m, j, y)' \/ at'[m] \in Stopped)
      BY <1>4 DEF NoGap
    <2>1. /\ m \in Node /\ m \in F /\ l \in Node /\ k \in DOMAIN In[l] /\ j \in Nat /\ j \in DOMAIN Out[m]
          /\ NoGap(s, F, d) /\ at[l] \notin Stopped /\ Kind[m] \notin {"dispatch", "accumulate"}
      BY <1>1, <1>2, <1>4, <1>9 DEF Undistributed
    <2>2. \/ <<s, y>> \in Filtered
          \/ Has(chan[In[l][k]], s, y)
          \/ y = d[m] /\ (ToSend(s, m, j, y) \/ at[m] \in Stopped)
      BY <2>1 DEF NoGap
    <2>3. ASSUME m = n, ToSend(s, m, j, y), <<s, y>> \notin Filtered PROVE ToSend(s, m, j, y)'
      <3>1. Holding(s, n, y)
        BY <1>3, <2>1, <2>3 DEF ToSend
      <3> QED BY <2>1, <2>3, <3>1 DEF Applies, ToSend
    <2> QED BY <1>2, <1>4, <2>1, <2>2, <2>3
  <1>10. ASSUME Undistributed(F) PROVE AllConsumed(s, F, d)'
    <2> SUFFICES ASSUME NEW l \in F, Kind[l] \in {"sink", "channel_sink"}, NEW y \in Nat, 0 < y, y <= d[l]
                 PROVE  \/ <<s, y>> \in Filtered
                        \/ Has(got'[l], s, y)
                        \/ y = d[l] /\ (Holding(s, l, y)' \/ at'[l] \in Stopped)
      BY DEF AllConsumed
    <2>1. AllConsumed(s, F, d) /\ l \in Node
      BY <1>1, <1>10
    <2>2. \/ <<s, y>> \in Filtered
          \/ Has(got[l], s, y)
          \/ y = d[l] /\ (Holding(s, l, y) \/ at[l] \in Stopped)
      BY <2>1 DEF AllConsumed
    <2> QED BY <1>2, <1>4, <1>7, <2>1, <2>2
  <1> QED BY <1>1, <1>6, <1>8, <1>9, <1>10 DEF OrderInv

(* n pushes a value: an item of s comes after those in the queue, which    *)
(* came by the same lane.                                                  *)
LEMMA SendsOrder ==
  ASSUME PortInv, UNCHANGED net, NEW s, NEW F, OnWay(s, F), NEW d, OrderInv(s, F, d),
         NEW n \in Node, OthersKeep(n), NEW p \in DOMAIN Out[n], NEW v \in Value, Sends(n, p, v)
  PROVE  OrderInv(s, F, d)'
  <1>0. TypeOK /\ net \in Nets /\ s \in Node
    BY DEF PortInv, TypeOK, OnWay
  <1>1. /\ d \in [Node -> Nat] /\ ItemsAt(s, F, d) /\ Queued(s, F, d) /\ Ahead(s, F, d) /\ Consumed(s, d)
        /\ Undistributed(F) => NoGap(s, F, d) /\ AllConsumed(s, F, d)
    BY DEF OrderInv
  <1> USE <1>0, NetSame, Lanes
  <1>2. PICK c : c = Out[n][p]
    OBVIOUS
  <1>3. /\ c \in Channel /\ chan[c] \in Seq(Value)
        /\ chan'[c] = Append(chan[c], v) /\ \A b \in Channel \ {c} : chan'[b] = chan[b]
        /\ got' = got /\ made' = made /\ (at[n] \in Stopped <=> at'[n] \in Stopped)
        /\ p \in Nat
    <2>1. /\ chan' = [chan EXCEPT ![c] = Append(chan[c], v)]
          /\ got' = got /\ made' = made /\ (at[n] \in Stopped <=> at'[n] \in Stopped)
      BY <1>2 DEF Sends
    <2>2. c \in Channel /\ p \in Nat
      BY <1>2, NetFacts, Ports
    <2>3. chan \in [Channel -> Seq(Value)]
      BY DEF TypeOK, Value
    <2> QED BY <2>1, <2>2, <2>3
  <1>4. \A m \in Node \ {n}, y \in Nat : /\ at'[m] = at[m]
                                         /\ Holding(s, m, y)' <=> Holding(s, m, y)
                                         /\ \A j \in Nat : /\ Sending(s, m, j, y)' <=> Sending(s, m, j, y)
                                                           /\ ToSend(s, m, j, y)' <=> ToSend(s, m, j, y)
    BY DEF OthersKeep, ToSend
  <1>5. \A y \in Nat : /\ ~ Holding(s, n, y) /\ ~ Holding(s, n, y)'
                       /\ v = <<s, y>> => Sending(s, n, p, y) /\ ToSend(s, n, p, y) /\ ~ ToSend(s, n, p, y)'
                       /\ \A j \in Nat : /\ Sending(s, n, j, y)' => Sending(s, n, j, y)
                                         /\ ToSend(s, n, j, y) => ToSend(s, n, j, y)' \/ (j = p /\ v = <<s, y>>)
    <2> SUFFICES ASSUME NEW y \in Nat
                 PROVE  /\ ~ Holding(s, n, y) /\ ~ Holding(s, n, y)'
                        /\ v = <<s, y>> => Sending(s, n, p, y) /\ ToSend(s, n, p, y) /\ ~ ToSend(s, n, p, y)'
                        /\ \A j \in Nat : /\ Sending(s, n, j, y)' => Sending(s, n, j, y)
                                          /\ ToSend(s, n, j, y) => ToSend(s, n, j, y)' \/ (j = p /\ v = <<s, y>>)
      OBVIOUS
    <2>1. /\ ~ Holding(s, n, y) /\ ~ Holding(s, n, y)' /\ (v = <<s, y>> => Sending(s, n, p, y))
          /\ \A k \in Nat : Sending(s, n, k, y)' <=> Sending(s, n, k, y) /\ ~ (k = p /\ v = <<s, y>>)
      BY ONLY <1>0, Sends(n, p, v), y \in Nat DEF Sends
    <2>2. \A j \in Nat : /\ ToSend(s, n, j, y) <=> Sending(s, n, j, y)
                         /\ ToSend(s, n, j, y)' <=> Sending(s, n, j, y)'
      BY <2>1 DEF ToSend
    <2> QED BY ONLY <1>3, <2>1, <2>2
  <1>6. Fewer(s)
    <2> SUFFICES ASSUME NEW m \in Node, NEW y \in Nat
                 PROVE  /\ Holding(s, m, y)' => Holding(s, m, y)
                        /\ \A j \in Nat : Sending(s, m, j, y)' => ToSend(s, m, j, y) /\ Kind[m] # "accumulate"
      BY DEF Fewer
    <2>1. \A j \in Nat : Sending(s, m, j, y)' => Sending(s, m, j, y)
      BY <1>4, <1>5
    <2>2. Holding(s, m, y)' => Holding(s, m, y)
      BY <1>4, <1>5
    <2> QED BY <1>1, <2>1, <2>2 DEF ItemsAt, ToSend
  <1>7. /\ ItemsAt(s, F, d)' /\ Ahead(s, F, d)' /\ Consumed(s, d)'
        /\ \A m \in Node, y \in Nat, j \in Nat : ToSend(s, m, j, y)' => ToSend(s, m, j, y)
    BY <1>3, <1>6, FewerOrder
  <1>8. /\ \A y \in Nat : Has(chan'[c], s, y) <=> Has(chan[c], s, y) \/ v = <<s, y>>
        /\ Rising(chan[c], s) /\ (\A x, y \in Nat : v = <<s, x>> /\ Has(chan[c], s, y) => y < x) => Rising(chan'[c], s)
    <2>1. PICK q : q = chan[c]
      OBVIOUS
    <2>2. q \in Seq(Value) /\ chan'[c] = Append(q, v)
      BY <1>3, <2>1
    <2>3. \A y \in Nat : Has(Append(q, v), s, y) <=> Has(q, s, y) \/ v = <<s, y>>
      BY ONLY <2>2, ItemsOfAppend
    <2>4. Rising(q, s) /\ (\A x, y \in Nat : v = <<s, x>> /\ Has(q, s, y) => y < x) => Rising(Append(q, v), s)
      BY ONLY <2>2, ItemsOfAppend
    <2> QED BY ONLY <2>1, <2>2, <2>3, <2>4
  <1>9. Queued(s, F, d)'
    <2> SUFFICES ASSUME NEW l \in Node, NEW k \in DOMAIN In[l]
                 PROVE  /\ Rising(chan'[In[l][k]], s)
                        /\ \A y \in Nat : Has(chan'[In[l][k]], s, y) =>
                               /\ d[l] < y
                               /\ \E m, j : /\ Lane(F, m, j, l, k)
                                            /\ y <= d[m] /\ (ToSend(s, m, j, d[m])' => y < d[m])
      BY DEF Queued
    <2>1. \A m, j : Lane(F, m, j, l, k) => m \in Node /\ d[m] \in Nat /\ j \in Nat
      BY <1>1
    <2>2. /\ Rising(chan[In[l][k]], s)
          /\ \A y \in Nat : Has(chan[In[l][k]], s, y) =>
                 /\ d[l] < y
                 /\ \E m, j : /\ Lane(F, m, j, l, k)
                              /\ y <= d[m] /\ (ToSend(s, m, j, d[m]) => y < d[m])
      BY <1>1 DEF Queued
    <2>3. ASSUME NEW y \in Nat, Has(chan[In[l][k]], s, y)
          PROVE  /\ d[l] < y
                 /\ \E m, j : /\ Lane(F, m, j, l, k)
                              /\ y <= d[m] /\ (ToSend(s, m, j, d[m])' => y < d[m])
      BY <1>7, <2>1, <2>2, <2>3
    <2>4. CASE In[l][k] = c
      <3>1. ASSUME NEW x \in Nat, v = <<s, x>>
            PROVE  /\ Lane(F, n, p, l, k) /\ x = d[n] /\ d[l] < x /\ ~ ToSend(s, n, p, d[n])'
                   /\ \A y \in Nat : Has(chan[c], s, y) => y < x
        <4>1. n \in F /\ x = d[n] /\ Kind[n] # "accumulate" /\ ToSend(s, n, p, d[n]) /\ ~ ToSend(s, n, p, d[n])'
          BY <1>1, <1>3, <1>5, <3>1 DEF ItemsAt
        <4>2. Lane(F, n, p, l, k)
          BY <1>2, <2>4, <4>1 DEF Lane, PassesOn, Kind, In, Out
        <4>3. d[l] < d[n]
          BY <1>1, <4>1, <4>2 DEF Ahead
        <4>4. ASSUME NEW y \in Nat, Has(chan[c], s, y) PROVE y < x
          <5>1. PICK m, j : /\ Lane(F, m, j, l, k)
                            /\ ToSend(s, m, j, d[m]) => y < d[m]
            BY <2>2, <2>4, <4>4
          <5>2. m = n /\ j = p
            BY <4>2, <5>1
          <5> QED BY <4>1, <5>1, <5>2
        <4> QED BY <4>1, <4>2, <4>3, <4>4
      <3>2. Rising(chan'[c], s)
        BY <1>8, <2>2, <2>4, <3>1
      <3>3. ASSUME NEW y \in Nat, v = <<s, y>>
            PROVE  /\ d[l] < y
                   /\ \E m, j : /\ Lane(F, m, j, l, k)
                                /\ y <= d[m] /\ (ToSend(s, m, j, d[m])' => y < d[m])
        BY <3>1, <3>3
      <3> QED BY <1>8, <2>3, <2>4, <3>2, <3>3
    <2>5. CASE In[l][k] # c
      <3>1. In[l][k] \in Channel
        BY NetFacts
      <3> QED BY <1>3, <2>2, <2>3, <2>5, <3>1
    <2> QED BY <2>4, <2>5
  <1>10. ASSUME Undistributed(F) PROVE NoGap(s, F, d)'
    <2> SUFFICES ASSUME NEW m, NEW j, NEW l, NEW k, Lane(F, m, j, l, k), at'[l] \notin Stopped,
                        NEW y \in Nat, d[l] < y, y <= d[m]
                 PROVE  \/ <<s, y>> \in Filtered
                        \/ Has(chan'[In[l][k]], s, y)
                        \/ y = d[m] /\ (ToSend(s, m, j, y)' \/ at'[m] \in Stopped)
      BY DEF NoGap
    <2>1. /\ m \in Node /\ l \in Node /\ k \in DOMAIN In[l] /\ j \in Nat /\ Out[m][j] = In[l][k]
          /\ NoGap(s, F, d) /\ at[l] \notin Stopped /\ In[l][k] \in Channel
      <3>1. \A b \in Node : at[b] \in Stopped <=> at'[b] \in Stopped
        BY <1>3, <1>4
      <3> QED BY <1>1, <1>10, <3>1
    <2>2. \/ <<s, y>> \in Filtered
          \/ Has(chan[In[l][k]], s, y)
          \/ y = d[m] /\ (ToSend(s, m, j, y) \/ at[m] \in Stopped)
      BY <2>1 DEF NoGap
    <2>3. Has(chan[In[l][k]], s, y) => Has(chan'[In[l][k]], s, y)
      BY <1>3, <1>8, <2>1
    <2>4. ToSend(s, m, j, y) => ToSend(s, m, j, y)' \/ Has(chan'[In[l][k]], s, y)
      <3>1. CASE m = n
        BY <1>2, <1>5, <1>8, <2>1, <3>1
      <3>2. CASE m # n
        BY <1>4, <2>1, <3>2
      <3> QED BY <3>1, <3>2
    <2> QED BY <1>3, <1>4, <2>1, <2>2, <2>3, <2>4
  <1>11. ASSUME Undistributed(F) PROVE AllConsumed(s, F, d)'
    <2> SUFFICES ASSUME NEW l \in F, Kind[l] \in {"sink", "channel_sink"}, NEW y \in Nat, 0 < y, y <= d[l]
                 PROVE  \/ <<s, y>> \in Filtered
                        \/ Has(got[l], s, y)
                        \/ y = d[l] /\ (Holding(s, l, y)' \/ at'[l] \in Stopped)
      BY <1>3 DEF AllConsumed
    <2>1. AllConsumed(s, F, d) /\ l \in Node
      BY <1>1, <1>11
    <2>2. \/ <<s, y>> \in Filtered
          \/ Has(got[l], s, y)
          \/ y = d[l] /\ (Holding(s, l, y) \/ at[l] \in Stopped)
      BY <2>1 DEF AllConsumed
    <2> QED BY <1>3, <1>4, <1>5, <2>1, <2>2
  <1> QED BY <1>1, <1>7, <1>9, <1>10, <1>11 DEF OrderInv

(* The last item of s that the processors have popped, after a step of n.  *)
Moved(s, n, d, e) ==
    \/ \E i \in DOMAIN In[n], x \in Nat : Takes(n, i, <<s, x>>) /\ e = [d EXCEPT ![n] = x]
    \/ /\ \A i \in DOMAIN In[n], x \in Nat : ~ Takes(n, i, <<s, x>>)
       /\ e = [d EXCEPT ![s] = made'[s]]

LEMMA StepOrder ==
  ASSUME PortInv, UNCHANGED net, NEW s, NEW F, OnWay(s, F), NEW d, OrderInv(s, F, d),
         NEW n \in Node, View(n), OthersKeep(n), NEW e, Moved(s, n, d, e)
  PROVE  OrderInv(s, F, e)'
  <1>0. /\ TypeOK /\ net \in Nets /\ s \in Node /\ Kind[s] = "source"
        /\ d \in [Node -> Nat] /\ d[s] = made[s] /\ made[s] \in Nat
    BY DEF PortInv, TypeOK, OnWay, OrderInv, ItemsAt
  <1>1. CASE \E i \in DOMAIN In[n], x \in Nat : Takes(n, i, <<s, x>>) /\ e = [d EXCEPT ![n] = x]
    BY <1>1, TakesOrder
  <1>2. CASE /\ \A i \in DOMAIN In[n], x \in Nat : ~ Takes(n, i, <<s, x>>)
             /\ e = [d EXCEPT ![s] = made'[s]]
    <2>1. CASE Makes(n)
      BY <1>0, <1>2, <2>1, MakesOrder
    <2>2. ASSUME made'[s] = made[s] PROVE e = d
      BY <1>0, <1>2, <2>2
    <2>3. CASE Quiet(n)
      <3>1. e = d
        BY <2>2, <2>3 DEF Quiet
      <3> QED BY <1>0, <2>3, <3>1, QuietOrder
    <2>4. CASE Applies(n)
      <3>1. made'[s] = made[s]
        BY <1>0, <2>4 DEF Applies, OthersKeep
      <3> QED BY <2>2, <2>4, <3>1, AppliesOrder
    <2>5. CASE \E p \in DOMAIN Out[n], v \in Value : Sends(n, p, v)
      <3>1. e = d
        BY <2>2, <2>5 DEF Sends
      <3> QED BY <2>5, <3>1, SendsOrder
    <2>6. CASE \E i \in DOMAIN In[n] : Drops(n, i)
      <3>1. e = d
        BY <2>2, <2>6 DEF Drops
      <3> QED BY <2>6, <3>1, PopsOrder
    <2>7. CASE \E i \in DOMAIN In[n], v \in Value : Takes(n, i, v)
      <3>1. PICK i \in DOMAIN In[n], v \in Value : Takes(n, i, v)
        BY <2>7
      <3>2. \A x \in Nat : v # <<s, x>>
        BY <1>2, <3>1
      <3>3. e = d
        BY <2>2, <3>1 DEF Takes
      <3> QED BY <3>1, <3>2, <3>3, PopsOrder
    <2> QED BY <2>1, <2>3, <2>4, <2>5, <2>6, <2>7 DEF View
  <1> QED BY <1>1, <1>2 DEF Moved

-----------------------------------------------------------------------------

(* The lanes of two sources meet in the Concat c, where those of F come to *)
(* a port before p and those of G to p; elsewhere they are the same lanes. *)
Meeting(F, G, c, p) ==
    /\ c \in Node /\ Kind[c] = "concat" /\ p \in Nat
    /\ \A m, j, i : Lane(F, m, j, c, i) => i < p
    /\ \A m, j, i : Lane(G, m, j, c, i) => i = p
    /\ \A m1, j1, i1, m2, j2, i2 : \A n \in Node \ {c} :
           Lane(F, m1, j1, n, i1) /\ Lane(G, m2, j2, n, i2) => m1 = m2 /\ j1 = j2 /\ i1 = i2

LEMMA MeetingIn ==
  ASSUME net \in Nets, NEW s, NEW F, OnWay(s, F), NEW t, NEW G, OnWay(t, G),
         NEW c \in Node, MeetIn(net, F, G, c)
  PROVE  \E p : Meeting(F, G, c, p)
  <1>1. PICK i0, p \in DOMAIN In[c] :
           /\ i0 < p
           /\ \E m \in F : \E k \in DOMAIN Out[m] : PassesOn(net, m, k, c, i0)
           /\ \E m \in G : \E k \in DOMAIN Out[m] : PassesOn(net, m, k, c, p)
    BY DEF MeetIn, In, Out
  <1>2. \E m, j : Lane(F, m, j, c, i0)
    BY <1>1 DEF Lane
  <1>3. \E m, j : Lane(G, m, j, c, p)
    BY <1>1 DEF Lane
  <1>4. \A m, j, i : Lane(F, m, j, c, i) => i = i0
    BY <1>2, Lanes
  <1>5. \A m, j, i : Lane(G, m, j, c, i) => i = p
    BY <1>3, Lanes
  <1>6. ASSUME NEW n \in Node \ {c}, NEW m1, NEW j1, NEW i1, NEW m2, NEW j2, NEW i2,
               Lane(F, m1, j1, n, i1), Lane(G, m2, j2, n, i2)
        PROVE  m1 = m2 /\ j1 = j2 /\ i1 = i2
    <2>1. /\ m1 \in F /\ j1 \in DOMAIN Out[m1] /\ i1 \in DOMAIN In[n] /\ PassesOn(net, m1, j1, n, i1)
          /\ m2 \in G /\ j2 \in DOMAIN Out[m2] /\ i2 \in DOMAIN In[n] /\ PassesOn(net, m2, j2, n, i2)
      BY <1>6 DEF Lane
    <2>2. Feeds(net, m1, j1, n) /\ Feeds(net, m2, j2, n)
      BY <2>1 DEF Feeds, In
    <2>3. m1 = m2 /\ j1 = j2
      BY <2>1, <2>2 DEF MeetIn, Out
    <2>4. In[n][i1] = In[n][i2]
      BY <2>1, <2>3 DEF PassesOn, In
    <2> QED BY <2>1, <2>3, <2>4, NetFacts
  <1>7. Kind[c] = "concat" /\ p \in Nat
    BY <1>1, Ports DEF MeetIn, Kind
  <1> QED BY <1>1, <1>4, <1>5, <1>6, <1>7 DEF Meeting

(* Who has popped an item of t gets no item of s any more; d is where the  *)
(* items of t are.                                                         *)
Reached(t, G, d) == \A n \in Node : d[n] > 0 => n = t \/ \E m, j, i : Lane(G, m, j, n, i)
Numbered(t) == \A n \in Node, x \in Nat : Holding(t, n, x) \/ Has(got[n], t, x) => 0 < x
HeldBefore(s, d) == \A n \in Node, x \in Nat : /\ Holding(s, n, x) => d[n] = 0
                                               /\ \A j \in Nat : Sending(s, n, j, x) => d[n] = 0
QueuedBefore(s, t, c, d) ==
    \A n \in Node \ {c} : \A i \in DOMAIN In[n] :
        /\ NoneAfter(chan[In[n][i]], s, t)
        /\ \A x \in Nat : Has(chan[In[n][i]], s, x) => d[n] = 0
GotBefore(s, t) == \A n \in Node : NoneAfter(got[n], s, t)
PortReached(c, p, d) == d[c] > 0 /\ at[c] \notin Stopped => p <= index[c]

Turns(s, t, G, c, p, d) ==
    /\ Reached(t, G, d) /\ Numbered(t)
    /\ HeldBefore(s, d) /\ QueuedBefore(s, t, c, d) /\ GotBefore(s, t)
    /\ PortReached(c, p, d)

(* What every step does to the items of s, to the queues and to the sinks. *)
LEMMA FewerStep ==
  ASSUME NEW s, NEW F, OnWay(s, F), NEW d, OrderInv(s, F, d), NEW n \in Node, View(n), OthersKeep(n),
         \A i \in DOMAIN In[n], x \in Nat : ~ Takes(n, i, <<s, x>>), ~ (Makes(n) /\ n = s)
  PROVE  Fewer(s)
  <1>0. s \in Node /\ Kind[s] = "source" /\ ItemsAt(s, F, d)
    BY DEF OnWay, OrderInv
  <1> SUFFICES ASSUME NEW m \in Node, NEW y \in Nat
               PROVE  /\ Holding(s, m, y)' => Holding(s, m, y)
                      /\ \A j \in Nat : Sending(s, m, j, y)' => ToSend(s, m, j, y) /\ Kind[m] # "accumulate"
    BY DEF Fewer
  <1>1. CASE m # n
    <2>1. /\ Holding(s, m, y)' <=> Holding(s, m, y)
          /\ \A j \in Nat : Sending(s, m, j, y)' <=> Sending(s, m, j, y)
      BY <1>0, <1>1 DEF OthersKeep
    <2> QED BY <1>0, <2>1 DEF ItemsAt, ToSend
  <1>2. ASSUME /\ Holding(s, n, y)' => Holding(s, n, y)
               /\ \A j \in Nat : Sending(s, n, j, y)' => Sending(s, n, j, y)
        PROVE  /\ Holding(s, n, y)' => Holding(s, n, y)
               /\ \A j \in Nat : Sending(s, n, j, y)' => ToSend(s, n, j, y) /\ Kind[n] # "accumulate"
    BY <1>0, <1>2 DEF ItemsAt, ToSend
  <1>3. CASE m = n /\ Quiet(n)
    BY <1>0, <1>2, <1>3 DEF Quiet
  <1>4. CASE m = n /\ \E i \in DOMAIN In[n] : Drops(n, i)
    BY <1>0, <1>2, <1>4 DEF Drops, Empty
  <1>5. CASE m = n /\ \E p \in DOMAIN Out[n], v \in Value : Sends(n, p, v)
    <2>1. PICK p \in DOMAIN Out[n], v \in Value : Sends(n, p, v)
      BY <1>5
    <2>2. /\ ~ Holding(s, n, y)'
          /\ \A j \in Nat : Sending(s, n, j, y)' => Sending(s, n, j, y)
      BY <1>0, <2>1 DEF Sends
    <2> QED BY <1>2, <1>5, <2>2
  <1>6. CASE m = n /\ Applies(n)
    BY <1>0, <1>6 DEF Applies, ToSend
  <1>7. CASE m = n /\ Makes(n)
    <2>1. n # s /\ ~ Holding(s, n, y)' /\ \A j \in Nat : ~ Sending(s, n, j, y)'
      BY <1>0, <1>7 DEF Makes, Empty
    <2> QED BY <1>7, <2>1
  <1>8. CASE m = n /\ \E i \in DOMAIN In[n], v \in Value : Takes(n, i, v)
    <2>1. PICK i \in DOMAIN In[n], v \in Value : Takes(n, i, v)
      BY <1>8
    <2>2. v # <<s, y>>
      BY <2>1
    <2>3. ~ Holding(s, n, y)' /\ \A j \in Nat : ~ Sending(s, n, j, y)'
      BY <1>0, <2>1, <2>2 DEF Takes
    <2> QED BY <1>8, <2>3
  <1> QED BY <1>1, <1>3, <1>4, <1>5, <1>6, <1>7, <1>8 DEF View

QueueMoves(n, l, k, q) ==
    \/ chan'[In[l][k]] = q
    \/ q # <<>> /\ chan'[In[l][k]] = Tail(q)
    \/ \E j \in DOMAIN Out[n], v \in Value :
           Sends(n, j, v) /\ Out[n][j] = In[l][k] /\ chan'[In[l][k]] = Append(q, v)

LEMMA QueueStep ==
  ASSUME PortInv, NEW n \in Node, View(n), NEW l \in Node, NEW k \in DOMAIN In[l], NEW q, q = chan[In[l][k]]
  PROVE  q \in Seq(Value) /\ QueueMoves(n, l, k, q)
  <1> USE DEF QueueMoves
  <1>0. TypeOK /\ net \in Nets
    BY DEF PortInv, TypeOK
  <1>a. chan \in [Channel -> Seq(Value)]
    BY <1>0 DEF TypeOK, Value
  <1>b. In[l][k] \in Channel
    BY <1>0, NetFacts
  <1>1. chan \in [Channel -> Seq(Value)] /\ In[l][k] \in Channel
    BY <1>a, <1>b
  <1>2. q \in Seq(Value)
    BY <1>1
  <1>3. CASE Makes(n) \/ Applies(n) \/ Quiet(n)
    BY <1>2, <1>3 DEF Makes, Applies, Quiet
  <1>4. CASE \E i \in DOMAIN In[n] : chan[In[n][i]] # <<>> /\ chan' = [chan EXCEPT ![In[n][i]] = Tail(chan[In[n][i]])]
    BY <1>1, <1>2, <1>4
  <1>5. CASE \E j \in DOMAIN Out[n], v \in Value : Sends(n, j, v)
    <2>1. PICK j \in DOMAIN Out[n], v \in Value : Sends(n, j, v)
      BY <1>5
    <2>2. chan' = [chan EXCEPT ![Out[n][j]] = Append(chan[Out[n][j]], v)]
      BY <2>1 DEF Sends
    <2>3. CASE Out[n][j] = In[l][k]
      BY <1>1, <1>2, <2>1, <2>2, <2>3
    <2>4. CASE Out[n][j] # In[l][k]
      BY <1>1, <1>2, <2>2, <2>4
    <2> QED BY <2>3, <2>4
  <1>6. ASSUME \E i \in DOMAIN In[n] : Drops(n, i) \/ \E v \in Value : Takes(n, i, v)
        PROVE  \E i \in DOMAIN In[n] : chan[In[n][i]] # <<>> /\ chan' = [chan EXCEPT ![In[n][i]] = Tail(chan[In[n][i]])]
    BY <1>6 DEF Takes, Drops
  <1> QED BY <1>3, <1>4, <1>5, <1>6 DEF View

LEMMA SinkStep ==
  ASSUME TypeOK, NEW n \in Node, View(n), OthersKeep(n), NEW m \in Node
  PROVE  \/ got'[m] = got[m]
         \/ m = n /\ \E s \in Node, x \in Nat : Holding(s, n, x) /\ got'[n] = Append(got[n], <<s, x>>)
  BY DEF View, OthersKeep, Takes, Drops, Makes, Applies, Quiet, Sends, TypeOK

LEMMA PortStep ==
  ASSUME TypeOK, NEW n \in Node, View(n), OthersKeep(n), NEW m \in Node, at'[m] \notin Stopped
  PROVE  at[m] \notin Stopped /\ index[m] \in Nat /\ index[m] <= index'[m]
  <1>1. index[m] \in Nat
    BY DEF TypeOK
  <1>2. CASE m # n
    BY <1>1, <1>2 DEF OthersKeep
  <1>3. CASE m = n
    <2>1. CASE Makes(n) \/ Applies(n) \/ Quiet(n)
      BY <1>1, <1>3, <2>1 DEF Makes, Applies, Quiet
    <2>2. CASE \E j \in DOMAIN Out[n], v \in Value : Sends(n, j, v)
      BY <1>1, <1>3, <2>2 DEF Sends
    <2>3. CASE \E i \in DOMAIN In[n], v \in Value : Takes(n, i, v)
      BY <1>1, <1>3, <2>3 DEF Takes
    <2>4. CASE \E i \in DOMAIN In[n] : Drops(n, i)
      BY <1>3, <2>4 DEF Drops
    <2> QED BY <2>1, <2>2, <2>3, <2>4 DEF View
  <1> QED BY <1>2, <1>3

(* Where the last item has changed.                                        *)
LEMMA MovedTo ==
  ASSUME NEW s \in Node, NEW d \in [Node -> Nat], d[s] = made[s], made'[s] \in Nat, NEW n \in Node, View(n), OthersKeep(n),
         Kind[s] = "source", NEW e, Moved(s, n, d, e), NEW m \in Node
  PROVE  \/ e[m] = d[m]
         \/ m = n /\ m = s /\ Makes(n)
         \/ m = n /\ \E i \in DOMAIN In[n], x \in Nat : Takes(n, i, <<s, x>>) /\ e[n] = x
  <1>1. CASE \E i \in DOMAIN In[n], x \in Nat : Takes(n, i, <<s, x>>) /\ e = [d EXCEPT ![n] = x]
    BY <1>1
  <1>2. CASE e = [d EXCEPT ![s] = made'[s]]
    <2>1. CASE m # s
      BY <1>2, <2>1
    <2>2. CASE m = s
      <3>1. CASE made'[s] = made[s]
        BY <1>2, <2>2, <3>1
      <3>2. CASE made'[s] # made[s]
        <4>1. n = s
          BY <3>2 DEF OthersKeep
        <4>2. Makes(n)
          BY <3>2, <4>1 DEF View, Takes, Drops, Applies, Quiet, Sends
        <4> QED BY <2>2, <4>1, <4>2
      <3> QED BY <3>1, <3>2
    <2> QED BY <2>1, <2>2
  <1> QED BY <1>1, <1>2 DEF Moved

LEMMA TakenFrom ==
  ASSUME TypeOK, net \in Nets, NEW n \in Node, NEW i \in DOMAIN In[n], NEW s \in Node, NEW x \in Nat, Takes(n, i, <<s, x>>)
  PROVE  Has(chan[In[n][i]], s, x)
  <1>1. chan \in [Channel -> Seq(Value)]
    BY DEF TypeOK, Value
  <1>2. In[n][i] \in Channel
    BY NetFacts
  <1>3. PICK q : q = chan[In[n][i]]
    OBVIOUS
  <1>4. q \in Seq(Value) /\ q # <<>> /\ Head(q) = <<s, x>>
    BY <1>1, <1>2, <1>3 DEF Takes
  <1>5. Has(q, s, x)
    BY ONLY <1>4, x \in Nat, ItemsOfTail
  <1> QED BY <1>3, <1>5

LEMMA StepTurns ==
  ASSUME PortInv, PortInv', UNCHANGED net, NEW s, NEW F, OnWay(s, F), NEW ds, OrderInv(s, F, ds),
         NEW t, NEW G, OnWay(t, G), NEW d, OrderInv(t, G, d), s # t,
         NEW c, NEW p, Meeting(F, G, c, p), Turns(s, t, G, c, p, d),
         NEW n \in Node, View(n), OthersKeep(n), NEW e, Moved(t, n, d, e)
  PROVE  Turns(s, t, G, c, p, e)'
  <1>0. /\ TypeOK /\ net \in Nets /\ s \in Node /\ t \in Node /\ Kind[s] = "source" /\ Kind[t] = "source"
        /\ made'[t] \in Nat
    BY DEF PortInv, TypeOK, OnWay
  <1>1. /\ ItemsAt(s, F, ds) /\ Queued(s, F, ds)
        /\ d \in [Node -> Nat] /\ ItemsAt(t, G, d) /\ Queued(t, G, d) /\ Ahead(t, G, d) /\ Consumed(t, d)
    BY DEF OrderInv
  <1>2. /\ Reached(t, G, d) /\ Numbered(t)
        /\ HeldBefore(s, d) /\ QueuedBefore(s, t, c, d) /\ GotBefore(s, t)
        /\ PortReached(c, p, d)
    BY DEF Turns
  <1>3. OrderInv(t, G, e)'
    BY StepOrder
  <1>4. e \in [Node -> Nat]
    BY <1>3 DEF OrderInv
  <1>5. \A m \in Node : \/ e[m] = d[m]
                        \/ m = n /\ m = t /\ Makes(n)
                        \/ m = n /\ \E i \in DOMAIN In[n], x \in Nat : Takes(n, i, <<t, x>>) /\ e[n] = x
    BY <1>0, <1>1, MovedTo DEF ItemsAt
  <1>6. DOMAIN In[s] = {} /\ DOMAIN In[t] = {}
    <2>1. Len(In[s]) = 0 /\ DOMAIN In[s] = 1..Len(In[s]) /\ Len(In[t]) = 0 /\ DOMAIN In[t] = 1..Len(In[t])
      BY <1>0, NetFacts, Ports DEF Arity
    <2> QED BY <2>1
  <1>7. /\ In' = In /\ Kind' = Kind
        /\ \A m, j, l, i : Lane(G, m, j, l, i)' <=> Lane(G, m, j, l, i)
    BY NetSame
  <1>8. ASSUME NEW i \in DOMAIN In[n], NEW x \in Nat, Takes(n, i, <<t, x>>)
        PROVE  /\ d[n] < x /\ \E m, j : Lane(G, m, j, n, i)
               /\ \A y \in Nat : ~ Holding(s, n, y)' /\ \A j \in Nat : ~ Sending(s, n, j, y)'
    <2>1. Has(chan[In[n][i]], t, x)
      BY <1>0, <1>8, TakenFrom
    <2>2. \A y \in Nat : ~ Holding(s, n, y)' /\ \A j \in Nat : ~ Sending(s, n, j, y)'
      <3>1. \A y \in Nat : <<t, x>> # <<s, y>>
        OBVIOUS
      <3> QED BY <1>0, <1>8, <3>1 DEF Takes
    <2> QED BY <1>1, <2>1, <2>2 DEF Queued
  <1>9. Reached(t, G, e)'
    <2> SUFFICES ASSUME NEW m \in Node, e[m] > 0, m # t
                 PROVE  \E a, j, i : Lane(G, a, j, m, i)
      BY <1>7 DEF Reached
    <2>1. CASE e[m] = d[m]
      BY <1>2, <2>1 DEF Reached
    <2>2. CASE m = n /\ \E i \in DOMAIN In[n], x \in Nat : Takes(n, i, <<t, x>>)
      BY <1>8, <2>2
    <2> QED BY <1>5, <2>1, <2>2
  <1>10. PortReached(c, p, e)'
    <2> SUFFICES ASSUME e[c] > 0, at'[c] \notin Stopped PROVE p <= index'[c]
      BY DEF PortReached
    <2>1. /\ at[c] \notin Stopped /\ index[c] \in Nat /\ index[c] <= index'[c] /\ c \in Node /\ Kind[c] = "concat"
          /\ p \in Nat /\ index'[c] \in Nat
      BY <1>0, PortStep DEF Meeting, PortInv, TypeOK
    <2>2. CASE e[c] = d[c]
      BY <1>2, <2>1, <2>2 DEF PortReached
    <2>3. CASE c = n /\ \E i \in DOMAIN In[n], x \in Nat : Takes(n, i, <<t, x>>) /\ e[n] = x
      <3>1. PICK i \in DOMAIN In[n], x \in Nat : Takes(n, i, <<t, x>>)
        BY <2>3
      <3>2. i = p /\ i = index[n]
        BY <1>8, <2>3, <3>1 DEF Meeting, Takes
      <3> QED BY <2>1, <2>3, <3>2
    <2> QED BY <1>0, <1>5, <2>1, <2>2, <2>3
  <1>11. Numbered(t)'
    <2> SUFFICES ASSUME NEW m \in Node, NEW x \in Nat, Holding(t, m, x)' \/ Has(got'[m], t, x) PROVE 0 < x
      BY DEF Numbered
    <2>1. CASE Has(got'[m], t, x)
      <3>1. CASE got'[m] = got[m]
        BY <1>2, <2>1, <3>1 DEF Numbered
      <3>2. CASE m = n /\ \E r \in Node, y \in Nat : Holding(r, n, y) /\ got'[n] = Append(got[n], <<r, y>>)
        <4>1. PICK r \in Node, y \in Nat : Holding(r, n, y) /\ got'[n] = Append(got[n], <<r, y>>)
          BY <3>2
        <4>2. PICK v, g : v = <<r, y>> /\ g = got[n]
          OBVIOUS
        <4>3. g \in Seq(Item) /\ Has(Append(g, v), t, x)
          BY <1>0, <2>1, <3>2, <4>1, <4>2 DEF TypeOK
        <4>4. Has(g, t, x) \/ v = <<t, x>>
          BY ONLY <4>3, x \in Nat, ItemsOfAppend
        <4>5. v = <<t, x>> => Holding(t, n, x)
          BY <4>1, <4>2
        <4> QED BY <1>2, <4>2, <4>4, <4>5 DEF Numbered
      <3> QED BY <1>0, <3>1, <3>2, SinkStep
    <2>2. CASE Holding(t, m, x)'
      <3>1. CASE \E i \in DOMAIN In[n], y \in Nat : Takes(n, i, <<t, y>>)
        <4>1. PICK i \in DOMAIN In[n], y \in Nat : Takes(n, i, <<t, y>>)
          BY <3>1
        <4>2. CASE m = n
          <5>1. x = y
            BY <1>0, <2>2, <4>1, <4>2 DEF Takes
          <5> QED BY <1>1, <1>8, <4>1, <5>1
        <4>3. CASE m # n
          BY <1>0, <1>2, <2>2, <4>3 DEF Numbered, OthersKeep
        <4> QED BY <4>2, <4>3
      <3>2. CASE Makes(n) /\ n = t
        <4>1. ~ Holding(t, n, x)'
          BY <1>0, <3>2 DEF Makes, Empty
        <4> QED BY <1>0, <1>2, <2>2, <4>1 DEF Numbered, OthersKeep
      <3>3. CASE /\ \A i \in DOMAIN In[n], y \in Nat : ~ Takes(n, i, <<t, y>>)
                 /\ ~ (Makes(n) /\ n = t)
        <4>1. Fewer(t)
          BY <3>3, FewerStep
        <4> QED BY <1>2, <2>2, <4>1 DEF Numbered, Fewer
      <3> QED BY <3>1, <3>2, <3>3
    <2> QED BY <2>1, <2>2
  <1>12. GotBefore(s, t)'
    <2> SUFFICES ASSUME NEW m \in Node PROVE NoneAfter(got'[m], s, t)
      BY DEF GotBefore
    <2>1. CASE got'[m] = got[m]
      BY <1>2, <2>1 DEF GotBefore
    <2>2. CASE m = n /\ \E r \in Node, y \in Nat : Holding(r, n, y) /\ got'[n] = Append(got[n], <<r, y>>)
      <3>1. PICK r \in Node, y \in Nat : Holding(r, n, y) /\ got'[n] = Append(got[n], <<r, y>>)
        BY <2>2
      <3>2. PICK v, g : v = <<r, y>> /\ g = got[n]
        OBVIOUS
      <3>3. g \in Seq(Item) /\ got'[m] = Append(g, v) /\ NoneAfter(g, s, t)
        BY <1>0, <1>2, <2>2, <3>1, <3>2 DEF TypeOK, GotBefore
      <3>4. ASSUME NEW x \in Nat, NEW z \in Nat, v = <<s, x>>, Has(g, t, z) PROVE FALSE
        <4>1. d[n] = 0
          BY <1>2, <3>1, <3>2, <3>4 DEF HeldBefore
        <4>2. 0 < z /\ z <= d[n]
          BY <1>1, <1>2, <3>2, <3>4 DEF Numbered, Consumed
        <4> QED BY <4>1, <4>2
      <3>5. \A x \in Nat, z \in Nat : v = <<s, x>> => ~ Has(g, t, z)
        BY <3>4
      <3>6. NoneAfter(Append(g, v), s, t)
        BY ONLY <3>3, <3>5, ItemsOfAppend
      <3> QED BY <3>3, <3>6
    <2> QED BY <1>0, <2>1, <2>2, SinkStep
  <1>13. HeldBefore(s, e)'
    <2> SUFFICES ASSUME NEW m \in Node, NEW x \in Nat, NEW j \in Nat, Holding(s, m, x)' \/ Sending(s, m, j, x)'
                 PROVE  e[m] = 0
      BY DEF HeldBefore
    <2>1. CASE m = n /\ \E i \in DOMAIN In[n], y \in Nat : Takes(n, i, <<t, y>>)
      BY <1>8, <2>1
    <2>2. CASE m = n /\ m = t /\ Makes(n)
      BY <1>0, <2>2 DEF Makes, Empty
    <2>3. CASE e[m] = d[m]
      <3>1. CASE m = n /\ \E i \in DOMAIN In[n], y \in Nat : Takes(n, i, <<s, y>>)
        <4>1. PICK i \in DOMAIN In[n], y \in Nat : Takes(n, i, <<s, y>>)
          BY <3>1
        <4>2. Has(chan[In[n][i]], s, y)
          BY <1>0, <4>1, TakenFrom
        <4>3. CASE n # c
          BY <1>2, <2>3, <3>1, <4>2, <4>3 DEF QueuedBefore
        <4>4. CASE n = c
          <5>1. \E k, b : Lane(F, k, b, n, i)
            BY <1>1, <4>2 DEF Queued
          <5>2. i < p /\ i = index[n] /\ at[n] \notin Stopped /\ p \in Nat /\ i \in Nat
            <6>1. i \in Nat
              BY <1>0, Ports
            <6> QED BY <4>1, <4>4, <5>1, <6>1 DEF Meeting, Takes
          <5>3. ~ (d[n] > 0)
            BY <1>2, <4>4, <5>2 DEF PortReached
          <5> QED BY <1>1, <2>3, <3>1, <5>3
        <4> QED BY <4>3, <4>4
      <3>2. CASE m = n /\ m = s /\ Makes(n)
        <4>1. ~ \E k, b, i : Lane(G, k, b, s, i)
          BY <1>6 DEF Lane
        <4> QED BY <1>1, <1>2, <2>3, <3>2, <4>1 DEF Reached
      <3>3. CASE m # n
        BY <1>0, <1>2, <2>3, <3>3 DEF OthersKeep, HeldBefore
      <3>4. CASE /\ \A i \in DOMAIN In[n], y \in Nat : ~ Takes(n, i, <<s, y>>)
                 /\ ~ (Makes(n) /\ n = s)
        <4>1. Fewer(s)
          BY <3>4, FewerStep
        <4> QED BY <1>2, <2>3, <4>1 DEF Fewer, HeldBefore, ToSend
      <3> QED BY <3>1, <3>2, <3>3, <3>4
    <2> QED BY <1>5, <2>1, <2>2, <2>3
  <1>14. QueuedBefore(s, t, c, e)'
    <2> SUFFICES ASSUME NEW l \in Node \ {c}, NEW k \in DOMAIN In[l]
                 PROVE  /\ NoneAfter(chan'[In[l][k]], s, t)
                        /\ \A x \in Nat : Has(chan'[In[l][k]], s, x) => e[l] = 0
      BY <1>7 DEF QueuedBefore
    <2>1. PICK q : q = chan[In[l][k]]
      OBVIOUS
    <2>2. NoneAfter(q, s, t) /\ \A x \in Nat : Has(q, s, x) => d[l] = 0
      BY <1>2, <2>1 DEF QueuedBefore
    <2>3. ASSUME NEW j \in DOMAIN Out[n], NEW v \in Value, Sends(n, j, v), Out[n][j] = In[l][k],
                 NEW x \in Nat, v = <<s, x>>
          PROVE  d[l] = 0 /\ \A y \in Nat : ~ Has(q, t, y)
      <3>1. Sending(s, n, j, x) /\ j \in Nat
        BY <1>0, <2>3, Ports DEF Sends
      <3>2. n \in F /\ Kind[n] # "accumulate" /\ d[n] = 0
        BY <1>1, <1>2, <3>1 DEF ItemsAt, HeldBefore
      <3>3. Lane(F, n, j, l, k)
        BY <2>3, <3>2 DEF Lane, PassesOn, Kind, In, Out
      <3>4. \A m, b, i : Lane(G, m, b, l, i) => m = n
        BY <3>3 DEF Meeting
      <3>5. ASSUME NEW y \in Nat, Has(q, t, y) PROVE FALSE
        <4>1. PICK m, b : Lane(G, m, b, l, k) /\ y <= d[m] /\ d[l] < y
          BY <1>1, <2>1, <3>5 DEF Queued
        <4>2. y <= 0 /\ d[l] \in Nat
          BY <1>1, <3>2, <3>4, <4>1
        <4> QED BY <4>1, <4>2
      <3>6. ~ (d[l] > 0)
        <4> SUFFICES ASSUME d[l] > 0 PROVE FALSE
          OBVIOUS
        <4>1. l # t
          BY <1>6
        <4>2. PICK m, b, i : Lane(G, m, b, l, i)
          BY <1>2, <4>1 DEF Reached
        <4>3. d[l] <= d[n]
          BY <1>1, <3>4, <4>2 DEF Ahead
        <4> QED BY <1>1, <3>2, <4>3
      <3> QED BY <1>1, <3>5, <3>6
    <2>4. NoneAfter(chan'[In[l][k]], s, t) /\ \A x \in Nat : Has(chan'[In[l][k]], s, x) => d[l] = 0
      <3>1. q \in Seq(Value)
        BY <2>1, QueueStep
      <3>2. CASE chan'[In[l][k]] = q
        BY <2>2, <3>2
      <3>3. CASE q # <<>> /\ chan'[In[l][k]] = Tail(q)
        <4>1. NoneAfter(Tail(q), s, t) /\ \A x \in Nat : Has(Tail(q), s, x) => Has(q, s, x)
          BY ONLY <2>2, <3>1, <3>3, ItemsOfTail
        <4> QED BY <2>2, <3>3, <4>1
      <3>4. CASE \E j \in DOMAIN Out[n], v \in Value :
                     Sends(n, j, v) /\ Out[n][j] = In[l][k] /\ chan'[In[l][k]] = Append(q, v)
        <4>1. PICK j \in DOMAIN Out[n], v \in Value :
                     Sends(n, j, v) /\ Out[n][j] = In[l][k] /\ chan'[In[l][k]] = Append(q, v)
          BY <3>4
        <4>2. \A x, y \in Nat : v = <<s, x>> => d[l] = 0 /\ ~ Has(q, t, y)
          BY <2>3, <4>1
        <4>3. /\ NoneAfter(Append(q, v), s, t)
              /\ \A x \in Nat : Has(Append(q, v), s, x) => Has(q, s, x) \/ v = <<s, x>>
          BY ONLY <2>2, <3>1, <4>2, ItemsOfAppend
        <4> QED BY <2>2, <4>1, <4>2, <4>3
      <3>5. QueueMoves(n, l, k, q)
        BY <2>1, QueueStep
      <3> QED BY <3>2, <3>3, <3>4, <3>5 DEF QueueMoves
    <2>5. ASSUME NEW x \in Nat, Has(chan'[In[l][k]], s, x), NEW i \in DOMAIN In[n], NEW y \in Nat,
                 l = n, Takes(n, i, <<t, y>>)
          PROVE  FALSE
      <3>a. chan \in [Channel -> Seq(Value)]
        BY <1>0 DEF TypeOK, Value
      <3>b. k \in DOMAIN In[n]
        BY <2>5
      <3>c. In[n][i] \in Channel /\ In[n][k] \in Channel
        BY <1>0, <3>b, NetFacts
      <3>1. In[n][i] \in Channel /\ In[n][k] \in Channel /\ chan \in [Channel -> Seq(Value)] /\ i \in DOMAIN In[n] /\ k \in DOMAIN In[n]
        BY <3>a, <3>b, <3>c
      <3>2. /\ chan[In[n][i]] # <<>> /\ Head(chan[In[n][i]]) = <<t, y>>
            /\ chan' = [chan EXCEPT ![In[n][i]] = Tail(chan[In[n][i]])]
        BY <2>5 DEF Takes
      <3>3. CASE k = i
        <4>1. q \in Seq(Value) /\ q # <<>> /\ Head(q) = <<t, y>> /\ Has(Tail(q), s, x)
          BY <2>1, <2>5, <3>1, <3>2, <3>3
        <4> QED BY ONLY <2>2, <4>1, x \in Nat, y \in Nat, ItemsOfTail
      <3>4. CASE k # i
        <4>1. In[n][k] # In[n][i]
          BY <1>0, <3>1, <3>4, NetFacts
        <4>2. Has(chan[In[n][k]], s, x)
          BY <2>5, <3>1, <3>2, <4>1
        <4>3. \E m, j : Lane(F, m, j, n, k)
          BY <1>1, <3>1, <4>2 DEF Queued
        <4>4. \E m, j : Lane(G, m, j, n, i)
          BY <1>8, <2>5
        <4> QED BY <2>5, <3>4, <4>3, <4>4 DEF Meeting
      <3> QED BY <3>3, <3>4
    <2>6. ASSUME NEW x \in Nat, Has(chan'[In[l][k]], s, x) PROVE e[l] = 0
      <3>1. l # t
        BY <1>6
      <3>2. e[l] = d[l]
        BY <1>5, <2>5, <2>6, <3>1
      <3> QED BY <2>4, <2>6, <3>2
    <2> QED BY <2>4, <2>6
  <1> QED BY <1>9, <1>10, <1>11, <1>12, <1>13, <1>14 DEF Turns

-----------------------------------------------------------------------------

(* The items of s are in order, wherever their last ones are; and so are   *)
(* those of s and t, when they meet in a Concat.                           *)
SinksOf(s, F) == \A n \in Node, x \in Nat : Has(got[n], s, x) => n \in F
SourceInv(s, F) == SinksOf(s, F) /\ \E d : OrderInv(s, F, d)
PairInv(s, F, t, G, c, p) ==
    \E ds, d : OrderInv(s, F, ds) /\ OrderInv(t, G, d) /\ Turns(s, t, G, c, p, d)
PairOf(s, F, t, G, c, p) == OnWay(s, F) /\ OnWay(t, G) /\ s # t /\ Meeting(F, G, c, p)

SourcesInv == \A s, F : OnWay(s, F) => SourceInv(s, F)
PairsInv == \A s, F, t, G, c, p : PairOf(s, F, t, G, c, p) => PairInv(s, F, t, G, c, p)
InOrderInv == ItemInv /\ SourcesInv /\ PairsInv

LEMMA WaysSame ==
  ASSUME UNCHANGED net
  PROVE  /\ \A s, F : OnWay(s, F)' <=> OnWay(s, F)
         /\ \A s, F, t, G, c, p : PairOf(s, F, t, G, c, p)' <=> PairOf(s, F, t, G, c, p)
  <1>1. \A s, F : OnWay(s, F)' <=> OnWay(s, F)
    BY NetSame DEF OnWay
  <1>2. \A F, G, c, p : Meeting(F, G, c, p)' <=> Meeting(F, G, c, p)
    BY NetSame DEF Meeting
  <1> QED BY <1>1, <1>2 DEF PairOf

LEMMA MovedSomewhere ==
  ASSUME NEW s, NEW n, NEW d
  PROVE  \E e : Moved(s, n, d, e)
  <1>1. CASE \E i \in DOMAIN In[n], x \in Nat : Takes(n, i, <<s, x>>)
    <2>1. PICK i \in DOMAIN In[n], x \in Nat : Takes(n, i, <<s, x>>)
      BY <1>1
    <2>2. PICK e : e = [d EXCEPT ![n] = x]
      OBVIOUS
    <2> QED BY <2>1, <2>2 DEF Moved
  <1>2. CASE \A i \in DOMAIN In[n], x \in Nat : ~ Takes(n, i, <<s, x>>)
    <2>1. PICK e : e = [d EXCEPT ![s] = made'[s]]
      OBVIOUS
    <2> QED BY <1>2, <2>1 DEF Moved
  <1> QED BY <1>1, <1>2

LEMMA SourceStep ==
  ASSUME PortInv, UNCHANGED net, NEW n \in Node, View(n), OthersKeep(n),
         NEW s, NEW F, OnWay(s, F), SourceInv(s, F)
  PROVE  SourceInv(s, F)'
  <1>1. PICK d : OrderInv(s, F, d)
    BY DEF SourceInv
  <1>2. PICK e : Moved(s, n, d, e)
    BY MovedSomewhere
  <1>3. OrderInv(s, F, e)'
    BY <1>1, <1>2, StepOrder
  <1>4. SinksOf(s, F)'
    <2> SUFFICES ASSUME NEW m \in Node, NEW x \in Nat, Has(got'[m], s, x) PROVE m \in F
      BY DEF SinksOf
    <2>0. TypeOK /\ s \in Node
      BY DEF PortInv, OnWay
    <2>1. CASE got'[m] = got[m]
      BY <2>1 DEF SourceInv, SinksOf
    <2>2. CASE m = n /\ \E r \in Node, y \in Nat : Holding(r, n, y) /\ got'[n] = Append(got[n], <<r, y>>)
      <3>1. PICK r \in Node, y \in Nat : Holding(r, n, y) /\ got'[n] = Append(got[n], <<r, y>>)
        BY <2>2
      <3>2. PICK v, g : v = <<r, y>> /\ g = got[n]
        OBVIOUS
      <3>3. g \in Seq(Item) /\ Has(Append(g, v), s, x)
        BY <2>0, <2>2, <3>1, <3>2 DEF TypeOK
      <3>4. Has(g, s, x) \/ v = <<s, x>>
        BY ONLY <3>3, x \in Nat, ItemsOfAppend
      <3>5. v = <<s, x>> => Holding(s, n, x)
        BY <3>1, <3>2
      <3>6. Holding(s, n, x) => n \in F
        BY <1>1 DEF OrderInv, ItemsAt
      <3> QED BY <2>2, <3>2, <3>4, <3>5, <3>6 DEF SourceInv, SinksOf
    <2> QED BY <2>0, <2>1, <2>2, SinkStep
  <1> QED BY <1>3, <1>4 DEF SourceInv

LEMMA PairStep ==
  ASSUME PortInv, PortInv', UNCHANGED net, NEW n \in Node, View(n), OthersKeep(n),
         NEW s, NEW F, NEW t, NEW G, NEW c, NEW p, PairOf(s, F, t, G, c, p), PairInv(s, F, t, G, c, p)
  PROVE  PairInv(s, F, t, G, c, p)'
  <1>1. OnWay(s, F) /\ OnWay(t, G) /\ s # t /\ Meeting(F, G, c, p)
    BY DEF PairOf
  <1>2. PICK ds, d : OrderInv(s, F, ds) /\ OrderInv(t, G, d) /\ Turns(s, t, G, c, p, d)
    BY DEF PairInv
  <1>3. PICK es : Moved(s, n, ds, es)
    BY MovedSomewhere
  <1>4. PICK e : Moved(t, n, d, e)
    BY MovedSomewhere
  <1>5. OrderInv(s, F, es)'
    BY <1>1, <1>2, <1>3, StepOrder
  <1>6. OrderInv(t, G, e)'
    BY <1>1, <1>2, <1>4, StepOrder
  <1>7. Turns(s, t, G, c, p, e)'
    BY <1>1, <1>2, <1>4, StepTurns
  <1> QED BY <1>5, <1>6, <1>7 DEF PairInv

LEMMA InOrderStep ==
  ASSUME PortInv, PortInv', UNCHANGED net, NEW n \in Node, View(n), OthersKeep(n), SourcesInv, PairsInv
  PROVE  SourcesInv' /\ PairsInv'
  <1>1. ASSUME NEW s, NEW F, OnWay(s, F)' PROVE SourceInv(s, F)'
    <2>1. OnWay(s, F)
      BY <1>1, WaysSame
    <2>2. SourceInv(s, F)
      BY <2>1 DEF SourcesInv
    <2> QED BY <2>1, <2>2, SourceStep
  <1>2. ASSUME NEW s, NEW F, NEW t, NEW G, NEW c, NEW p, PairOf(s, F, t, G, c, p)'
        PROVE  PairInv(s, F, t, G, c, p)'
    <2>1. PairOf(s, F, t, G, c, p)
      BY <1>2, WaysSame
    <2>2. PairInv(s, F, t, G, c, p)
      BY <2>1 DEF PairsInv
    <2> QED BY <2>1, <2>2, PairStep
  <1> QED BY <1>1, <1>2 DEF SourcesInv, PairsInv

LEMMA NextInOrderInv == PortInv /\ InOrderInv /\ [Next]_vars => InOrderInv'
  <1> SUFFICES ASSUME PortInv, InOrderInv, [Next]_vars PROVE InOrderInv'
    OBVIOUS
  <1>0. PortInv' /\ ItemInv /\ SourcesInv /\ PairsInv
    BY NextPortInv DEF InOrderInv
  <1>1. CASE UNCHANGED net /\ \E n \in Node : Step(n)
    <2>1. PICK n \in Node : Step(n)
      BY <1>1
    <2>2. View(n) /\ OthersKeep(n) /\ ItemInv'
      BY <1>0, <1>1, <2>1, StepView
    <2>3. SourcesInv' /\ PairsInv'
      BY <1>0, <1>1, <2>2, InOrderStep
    <2> QED BY <2>2, <2>3 DEF InOrderInv
  <1>2. CASE UNCHANGED <<net, chan, at, val, pending, index, made, got>>
    <2>1. \A m \in Node : Unsent(m)' = Unsent(m)
      BY <1>2 DEF Unsent
    <2>2. \A m \in Node : \A s, x : /\ Holding(s, m, x)' <=> Holding(s, m, x)
                                    /\ \A j : Sending(s, m, j, x)' <=> Sending(s, m, j, x)
      BY <1>2, <2>1 DEF Holding, Sending
    <2>3. \A n \in Node : Quiet(n) /\ OthersKeep(n)
      BY <1>2, <2>2 DEF Quiet, OthersKeep
    <2>4. ItemInv'
      BY <1>0, <1>2, <2>1, NetSame DEF ItemInv, OneItem, GotInSink
    <2>5. CASE Node = {}
      BY <2>4, <2>5 DEF InOrderInv, SourcesInv, PairsInv, PairOf, OnWay
    <2>6. CASE Node # {}
      <3>1. PICK n \in Node : TRUE
        BY <2>6
      <3>2. SourcesInv' /\ PairsInv'
        BY <1>0, <1>2, <2>3, InOrderStep DEF View
      <3> QED BY <2>4, <3>2 DEF InOrderInv
    <2> QED BY <2>5, <2>6
  <1>3. ASSUME UNCHANGED vars \/ (UNCHANGED net /\ \E p \in Pipeline : Return(p))
        PROVE  UNCHANGED <<net, chan, at, val, pending, index, made, got>>
    BY <1>3 DEF vars, work, Return
  <1> QED BY <1>1, <1>2, <1>3 DEF Next

LEMMA InitInOrderInv == Init => InOrderInv
  <1> SUFFICES ASSUME Init PROVE InOrderInv
    OBVIOUS
  <1>0. /\ net \in Nets /\ chan = [c \in Channel |-> <<>>] /\ pending = [n \in Node |-> <<>>]
        /\ got = [n \in Node |-> <<>>] /\ made = [n \in Node |-> 0]
        /\ at = [n \in Node |-> Begin(n)]
    BY DEF Init
  <1>1. \A n \in Node : Unsent(n) = {}
    BY <1>0 DEF Unsent
  <1>2. \A n \in Node : \A s, x : ~ Holding(s, n, x) /\ \A j : ~ Sending(s, n, j, x)
    BY <1>0, <1>1 DEF Holding, Sending, Begin
  <1>3. /\ \A n \in Node : got[n] = <<>>
        /\ \A n \in Node : \A i \in DOMAIN In[n] : chan[In[n][i]] = <<>>
    BY <1>0, NetFacts
  <1>4. \A s, t, x : Rising(<<>>, s) /\ NoneAfter(<<>>, s, t) /\ ~ Has(<<>>, s, x)
    BY DEF Rising, NoneAfter, Has
  <1>5. ItemInv
    BY <1>1, <1>3 DEF ItemInv, OneItem, GotInSink
  <1>6. PICK d : d = [n \in Node |-> 0]
    OBVIOUS
  <1>7. ASSUME NEW s, NEW F, OnWay(s, F) PROVE OrderInv(s, F, d)
    <2>1. s \in Node /\ F \subseteq Node /\ d \in [Node -> Nat] /\ \A n \in Node : d[n] = 0
      BY <1>6, <1>7 DEF OnWay
    <2>2. ItemsAt(s, F, d)
      BY <1>0, <1>2, <2>1 DEF ItemsAt
    <2>3. Queued(s, F, d)
      BY <1>3, <1>4 DEF Queued
    <2>4. Ahead(s, F, d)
      BY <1>0, <1>2, <1>7, <2>1, Lanes DEF Ahead, ToSend
    <2>5. Consumed(s, d)
      BY <1>3, <1>4 DEF Consumed
    <2>6. NoGap(s, F, d)
      BY <1>0, <1>7, <2>1, Lanes DEF NoGap
    <2>7. AllConsumed(s, F, d)
      BY <2>1 DEF AllConsumed
    <2> QED BY <2>1, <2>2, <2>3, <2>4, <2>5, <2>6, <2>7 DEF OrderInv
  <1>8. SourcesInv
    BY <1>3, <1>4, <1>7 DEF SourcesInv, SourceInv, SinksOf
  <1>9. ASSUME NEW s, NEW F, NEW t, NEW G, NEW c, NEW p, PairOf(s, F, t, G, c, p)
        PROVE  PairInv(s, F, t, G, c, p)
    <2>1. OrderInv(s, F, d) /\ OrderInv(t, G, d) /\ c \in Node /\ \A n \in Node : d[n] = 0
      BY <1>6, <1>7, <1>9 DEF PairOf, Meeting
    <2>2. Reached(t, G, d) /\ PortReached(c, p, d)
      BY <2>1 DEF Reached, PortReached
    <2>3. Numbered(t) /\ GotBefore(s, t) /\ HeldBefore(s, d)
      BY <1>2, <1>3, <1>4 DEF Numbered, GotBefore, HeldBefore
    <2>4. QueuedBefore(s, t, c, d)
      BY <1>3, <1>4 DEF QueuedBefore
    <2> QED BY <2>1, <2>2, <2>3, <2>4 DEF PairInv, Turns
  <1> QED BY <1>5, <1>8, <1>9 DEF InOrderInv, PairsInv

LEMMA OrderSeen ==
  ASSUME PortInv, InOrderInv
  PROVE  DeliveredInOrder
  <1>0. TypeOK /\ net \in Nets /\ got \in [Node -> Seq(Item)]
    BY DEF PortInv, TypeOK
  <1> SUFFICES ASSUME NEW n \in Node, NEW b \in DOMAIN got[n], NEW s, s = got[n][b][1], NEW x, x = got[n][b][2]
               PROVE  /\ <<net, s>> \in OneWay => \A a \in 1..b - 1 : got[n][a][1] = s => got[n][a][2] < x
                      /\ <<net, s>> \in Undivided => \A y \in 1..x - 1 :
                             <<s, y>> \in Filtered \/ \E a \in 1..b - 1 : got[n][a] = <<s, y>>
                      /\ \A a \in 1..b - 1 : <<net, s, got[n][a][1]>> \notin InTurn
    BY DEF DeliveredInOrder
  <1>1. PICK g : g = got[n]
    OBVIOUS
  <1>2. g \in Seq(Item) /\ b \in DOMAIN g /\ b \in Nat /\ \A a \in 1..b - 1 : a \in DOMAIN g /\ a < b
    BY <1>0, <1>1
  <1>3. \A a \in DOMAIN g : g[a] = <<g[a][1], g[a][2]>> /\ g[a][1] \in Node /\ g[a][2] \in Nat
    <2> SUFFICES ASSUME NEW a \in DOMAIN g
                 PROVE  g[a] = <<g[a][1], g[a][2]>> /\ g[a][1] \in Node /\ g[a][2] \in Nat
      OBVIOUS
    <2>1. g[a] \in Node \X Nat
      BY <1>2 DEF Item
    <2> QED BY <2>1
  <1>4. g[b] = <<s, x>> /\ s \in Node /\ x \in Nat /\ Has(g, s, x)
    BY <1>1, <1>2, <1>3 DEF Has
  <1>5. \A r, F : OnWay(r, F) => Rising(g, r)
    BY <1>1 DEF InOrderInv, SourcesInv, SourceInv, OrderInv, Consumed
  <1>6. ASSUME NEW F, OnWay(s, F), NEW a \in 1..b - 1, g[a][1] = s PROVE g[a][2] < x
    <2>1. a \in DOMAIN g /\ a < b /\ g[a] = <<s, g[a][2]>> /\ g[a][2] \in Nat
      BY <1>2, <1>3, <1>6
    <2> QED BY <1>2, <1>4, <1>5, <1>6, <2>1 DEF Rising
  <1>7. ASSUME NEW F, OnWay(s, F), Undistributed(F), NEW y \in 1..x - 1
        PROVE  <<s, y>> \in Filtered \/ \E a \in 1..b - 1 : g[a] = <<s, y>>
    <2>1. SourceInv(s, F)
      BY <1>7 DEF InOrderInv, SourcesInv
    <2>2. PICK d : OrderInv(s, F, d)
      BY <2>1 DEF SourceInv
    <2>3. n \in F
      BY <1>1, <1>4, <2>1 DEF SourceInv, SinksOf
    <2>4. x <= d[n] /\ d[n] \in Nat /\ AllConsumed(s, F, d)
      BY <1>1, <1>4, <1>7, <2>2 DEF OrderInv, Consumed
    <2>5. Kind[n] \in {"sink", "channel_sink"}
      <3>1. got[n] # <<>>
        OBVIOUS
      <3> QED BY <3>1 DEF InOrderInv, ItemInv, GotInSink
    <2>6. y \in Nat /\ 0 < y /\ y < x /\ y <= d[n] /\ y # d[n]
      BY <1>4, <2>4
    <2>7. <<s, y>> \in Filtered \/ Has(g, s, y)
      BY <1>1, <2>3, <2>4, <2>5, <2>6 DEF AllConsumed
    <2>8. ASSUME Has(g, s, y) PROVE \E a \in 1..b - 1 : g[a] = <<s, y>>
      <3>1. PICK a \in DOMAIN g : g[a] = <<s, y>>
        BY <2>8 DEF Has
      <3>2. a \in Nat /\ a >= 1
        BY <1>2
      <3>3. ~ (b < a)
        BY <1>2, <1>4, <1>5, <1>7, <2>6, <3>1, <3>2 DEF Rising
      <3>4. a # b
        BY <1>4, <2>6, <3>1
      <3> QED BY <1>2, <3>1, <3>2, <3>3, <3>4
    <2> QED BY <2>7, <2>8
  <1>8. ASSUME NEW a \in 1..b - 1, NEW F, NEW G, NEW c, NEW p, PairOf(s, F, g[a][1], G, c, p)
        PROVE  FALSE
    <2>1. PICK t : t = g[a][1]
      OBVIOUS
    <2>2. a \in DOMAIN g /\ a < b /\ g[a] = <<t, g[a][2]>> /\ g[a][2] \in Nat
      BY <1>2, <1>3, <2>1
    <2>3. PairInv(s, F, t, G, c, p)
      BY <1>8, <2>1 DEF InOrderInv, PairsInv
    <2>4. NoneAfter(g, s, t)
      BY <1>1, <2>3 DEF PairInv, Turns, GotBefore
    <2> QED BY <1>2, <1>4, <2>2, <2>4 DEF NoneAfter
  <1>9. ASSUME <<net, s>> \in OneWay PROVE \E F : OnWay(s, F)
    <2>1. PICK N \in Nets : <<net, s>> \in {<<N, r>> : r \in Simple(N)}
      BY <1>9 DEF OneWay
    <2>2. PICK r \in Simple(N) : <<net, s>> = <<N, r>>
      BY <2>1
    <2>3. s \in Simple(net)
      BY <2>2
    <2> QED BY <2>3 DEF Simple, Ways, OnWay, Kind, Endless
  <1>10. ASSUME <<net, s>> \in Undivided PROVE \E F : OnWay(s, F) /\ Undistributed(F)
    <2>1. PICK N \in Nets : <<net, s>> \in {<<N, r>> : r \in Whole(N)}
      BY <1>10 DEF Undivided
    <2>2. PICK r \in Whole(N) : <<net, s>> = <<N, r>>
      BY <2>1
    <2>3. s \in Whole(net)
      BY <2>2
    <2> QED BY <2>3 DEF Whole, Simple, Ways, OnWay, Undistributed, Kind, Endless
  <1>11. ASSUME NEW t, <<net, s, t>> \in InTurn PROVE \E F, G, c, p : PairOf(s, F, t, G, c, p)
    <2>1. PICK N \in Nets : <<net, s, t>> \in {<<N, st[1], st[2]>> : st \in Joined(N)}
      BY <1>11 DEF InTurn
    <2>2. PICK st \in Joined(N) : <<net, s, t>> = <<N, st[1], st[2]>>
      BY <2>1
    <2>3. net = N /\ s = st[1] /\ t = st[2]
      BY <2>2
    <2>4. /\ s \in Simple(net) /\ t \in Simple(net) /\ s # t
          /\ \E F \in Ways(net, s), G \in Ways(net, t), c \in Node : MeetIn(net, F, G, c)
      BY <2>2, <2>3 DEF Joined
    <2>5. PICK F \in Ways(net, s), G \in Ways(net, t), c \in Node : MeetIn(net, F, G, c)
      BY <2>4
    <2>6. OnWay(s, F) /\ OnWay(t, G)
      BY <2>4, <2>5 DEF Simple, Ways, OnWay, Kind, Endless
    <2>7. \E p : Meeting(F, G, c, p)
      BY <1>0, <2>5, <2>6, MeetingIn
    <2> QED BY <2>4, <2>6, <2>7 DEF PairOf
  <1>12. <<net, s>> \in OneWay => \A a \in 1..b - 1 : got[n][a][1] = s => got[n][a][2] < x
    BY <1>1, <1>6, <1>9
  <1>13. <<net, s>> \in Undivided => \A y \in 1..x - 1 :
             <<s, y>> \in Filtered \/ \E a \in 1..b - 1 : got[n][a] = <<s, y>>
    BY <1>1, <1>7, <1>10
  <1>14. \A a \in 1..b - 1 : <<net, s, got[n][a][1]>> \notin InTurn
    BY <1>1, <1>8, <1>11
  <1> QED BY <1>12, <1>13, <1>14

(* A sink consumes the items of a source in the order in which they were   *)
(* generated, without a gap but for what was filtered, and a Concat hands  *)
(* on its inputs one after the other: in every net that is wired as a      *)
(* pipeline is, of any size, whatever the order in which the coroutines    *)
(* run and wherever they throw.                                            *)
THEOREM ItemsInOrder == Spec => []DeliveredInOrder
  <1>1. Spec => [](PortInv /\ InOrderInv)
    BY InitPortInv, NextPortInv, InitInOrderInv, NextInOrderInv, PTL DEF Spec
  <1> QED BY <1>1, OrderSeen, PTL

=============================================================================
