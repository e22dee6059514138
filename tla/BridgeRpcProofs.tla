--------------------------- MODULE BridgeRpcProofs ---------------------------
(***************************************************************************)
(* Proofs about BridgeRpc for any number of calls: what a caller gets is   *)
(* its own answer, _pending holds what it should, and the whole keeps the  *)
(* promise of RpcPromise.                                                  *)
(***************************************************************************)
EXTENDS BridgeRpc, TLAPS

Started(c) == call[c].pc \notin {"idle", "refused"}

(* Every call that was made has a number of its own.                       *)
Numbered ==
    /\ \A c \in Calls : Started(c) => call[c].id \in 1 .. requestId
    /\ \A c, d \in Calls :
           Started(c) /\ Started(d) /\ call[c].id = call[d].id => c = d

(* What travels or is remembered under a number belongs to its call.       *)
EntriesOwn == \A e \in pending : Started(e.call) /\ call[e.call].id = e.id

LinesOwn ==
    /\ \A r \in inbox \cup outbox : Started(r.of) /\ call[r.of].id = r.id
    /\ \A r \in outbox : r.of \in handled

(* A future is set with the answer to its call only.                       *)
FuturesOwn ==
    \A c \in Calls :
        /\ call[c].fut = "answered" => call[c].of = c /\ c \in handled
        /\ call[c].pc = "answered" => call[c].fut = "answered"

(* The entry of a call whose future is done is gone when its caller runs.  *)
DoneGone ==
    \A e \in pending : call[e.call].pc \in Active => call[e.call].fut = "open"

(* stop() begins once, on a bridge that was started.                       *)
StopShape ==
    /\ stoppedAt <= requestId
    /\ stopping # "none" => ~running
    /\ proc = "none" => ~running /\ stopping = "none"

IInv ==
    /\ TypeOK
    /\ Numbered
    /\ EntriesOwn
    /\ LinesOwn
    /\ FuturesOwn
    /\ DoneGone
    /\ StopShape
    /\ WaiterReachable
    /\ NoStrayEntry
    /\ StopReleases

LEMMA InitIInv == Init => IInv
<1>1. SUFFICES ASSUME Init
               PROVE  IInv
  OBVIOUS
<1>2. \A c \in Calls : call[c].pc = "idle" /\ call[c].fut = "none"
  BY <1>1 DEF Init
<1>3. TypeOK
  BY <1>1 DEF Init, TypeOK, CallRecords
<1>. QED  BY <1>1, <1>2, <1>3
          DEF Init, IInv, Numbered, Started, EntriesOwn, LinesOwn, FuturesOwn,
              DoneGone, StopShape, WaiterReachable, NoStrayEntry, StopReleases, Active

(* A step that leaves calls, entries and numbers alone and adds no line.   *)
LEMMA BridgeStep ==
    ASSUME IInv, TypeOK', StopShape',
           UNCHANGED <<requestId, pending, call, stoppedAt>>,
           stopping' # "none" => stopping # "none",
           inbox' \subseteq inbox,
           \A r \in outbox' : r \in inbox \cup outbox /\ r.of \in handled',
           handled \subseteq handled'
    PROVE  IInv'
BY DEF IInv, Numbered, Started, EntriesOwn, LinesOwn, FuturesOwn,
       DoneGone, WaiterReachable, NoStrayEntry, StopReleases

(* A step of one caller whose request is written: it moves on, its future   *)
(* may be cancelled and its entry may go.                                  *)
LEMMA CallerStep ==
    ASSUME IInv, NEW c \in Calls, NEW new \in CallRecords,
           call[c].pc \in Active,
           call' = [call EXCEPT ![c] = new],
           new.pc \notin {"idle", "refused"},
           new.id = call[c].id, new.of = call[c].of,
           \/ new.fut = call[c].fut
           \/ call[c].fut = "open" /\ new.fut = "cancelled",
           new.pc = "answered" => new.fut = "answered",
           pending' = pending \/ pending' = Without(call[c].id),
           new.pc \in Active => pending' = pending /\ new.fut = call[c].fut,
           new.pc = "timeout" => pending' = Without(call[c].id),
           new.pc \in {"answered", "cancelled"} => call[c].fut # "open",
           UNCHANGED <<bridge, requestId, wire, stoppedAt>>
    PROVE  IInv'
<1>1. /\ call'[c] = new
      /\ \A d \in Calls \ {c} : call'[d] = call[d]
      /\ call' \in [Calls -> CallRecords]
  BY DEF IInv, TypeOK
<1>2. /\ pending' \subseteq pending
      /\ \A e \in pending : e.call \in Calls
      /\ \A r \in inbox \cup outbox : r.of \in Calls
  BY DEF Without, IInv, TypeOK, Lines
<1>3. /\ UNCHANGED <<running, proc, reader, stopping, stalled, requestId>>
      /\ UNCHANGED <<inbox, outbox, handled, stoppedAt>>
  BY DEF bridge, wire
<1>4. TypeOK'
  BY <1>1, <1>2, <1>3 DEF IInv, TypeOK
<1>5. \A d \in Calls : Started(d)' <=> Started(d)
  BY <1>1 DEF Started, Active
<1>6. \A d \in Calls : call'[d].id = call[d].id /\ call'[d].of = call[d].of
  BY <1>1
<1>7. Numbered'
  BY <1>3, <1>5, <1>6 DEF IInv, Numbered
<1>8. EntriesOwn' /\ LinesOwn'
  BY <1>2, <1>3, <1>5, <1>6 DEF IInv, EntriesOwn, LinesOwn
<1>9. FuturesOwn'
  BY <1>1, <1>3, <1>6 DEF IInv, FuturesOwn
<1>10. DoneGone'
  BY <1>1, <1>2 DEF IInv, DoneGone
<1>11. StopShape'
  BY <1>3 DEF IInv, StopShape
<1>12. \A e \in pending : e.call # c => e.id # call[c].id
  BY <1>2 DEF IInv, EntriesOwn, Numbered, Started, Active
<1>13. WaiterReachable'
  <2>1. SUFFICES ASSUME NEW d \in Calls, call'[d].pc \in Active, call'[d].fut = "open"
        PROVE  [id |-> call'[d].id, call |-> d] \in pending'
    BY DEF WaiterReachable
  <2>2. CASE d = c
    BY <1>1, <2>1, <2>2 DEF IInv, WaiterReachable
  <2>3. CASE d # c
    <3>1. [id |-> call[d].id, call |-> d] \in pending
      BY <1>1, <2>1, <2>3 DEF IInv, WaiterReachable
    <3>. QED  BY <1>6, <1>12, <2>3, <3>1 DEF Without
  <2>. QED  BY <2>2, <2>3
<1>14. NoStrayEntry'
  <2>1. SUFFICES ASSUME NEW e \in pending'
        PROVE  /\ call'[e.call].id = e.id
               /\ call'[e.call].pc \in Active \cup {"interrupted", "lost"}
    BY DEF NoStrayEntry
  <2>2. e \in pending /\ e.call \in Calls /\ call[e.call].id = e.id
    BY <1>2, <2>1 DEF IInv, NoStrayEntry
  <2>3. CASE e.call = c
    <3>1. new.pc # "timeout"
      BY <2>1, <2>2, <2>3 DEF Without
    <3>2. call[c].fut = "open"
      BY <2>2, <2>3 DEF IInv, DoneGone
    <3>. QED  BY <1>1, <2>2, <2>3, <3>1, <3>2 DEF CallRecords, Settled
  <2>4. CASE e.call # c
    BY <1>1, <2>2, <2>4 DEF IInv, NoStrayEntry
  <2>. QED  BY <2>3, <2>4
<1>15. StopReleases'
  BY <1>1, <1>3, <1>6 DEF IInv, StopReleases
<1>. QED  BY <1>4, <1>7, <1>8, <1>9, <1>10, <1>11, <1>13, <1>14, <1>15 DEF IInv

(* The steps of a caller after its request is written.                     *)
LEMMA MovesOn ==
    ASSUME IInv, NEW c \in Calls,
           DrainReturns(c) \/ DrainFails(c) \/ Resume(c) \/ Timeout(c) \/ Interrupt(c)
    PROVE  IInv'
<1>1. call[c] \in CallRecords
  BY DEF IInv, TypeOK
<1>2. CASE DrainReturns(c)
  <2> DEFINE new == [call[c] EXCEPT !.pc = "waiting"]
  <2>1. new \in CallRecords /\ new.pc = "waiting"
        /\ new.id = call[c].id /\ new.of = call[c].of /\ new.fut = call[c].fut
    BY <1>1 DEF CallRecords, Active
  <2>2. call' = [call EXCEPT ![c] = new] /\ call[c].pc \in Active
    BY <1>2 DEF DrainReturns, Settle, Active, IInv, TypeOK
  <2> HIDE DEF new
  <2>. QED  BY <1>2, <2>1, <2>2, CallerStep DEF DrainReturns
<1>3. CASE DrainFails(c)
  <2> DEFINE new == [call[c] EXCEPT !.pc = "lost"]
  <2>1. new \in CallRecords /\ new.pc = "lost"
        /\ new.id = call[c].id /\ new.of = call[c].of /\ new.fut = call[c].fut
    BY <1>1 DEF CallRecords, Settled
  <2>2. call' = [call EXCEPT ![c] = new] /\ call[c].pc \in Active /\ new.pc \notin Active
    BY <1>3, <2>1 DEF DrainFails, Settle, Active, IInv, TypeOK
  <2> HIDE DEF new
  <2>. QED  BY <1>3, <2>1, <2>2, CallerStep DEF DrainFails
<1>4. CASE Resume(c)
  <2> DEFINE new == [call[c] EXCEPT !.pc = call[c].fut]
  <2>1. new \in CallRecords /\ new.pc = call[c].fut
        /\ new.id = call[c].id /\ new.of = call[c].of /\ new.fut = call[c].fut
    BY <1>1, <1>4 DEF Resume, CallRecords, Settled
  <2>2. call' = [call EXCEPT ![c] = new] /\ call[c].pc \in Active
        /\ new.pc \in {"answered", "cancelled"} /\ new.pc \notin Active
    BY <1>4, <2>1 DEF Resume, Settle, Active, IInv, TypeOK
  <2> HIDE DEF new
  <2>. QED  BY <1>4, <2>1, <2>2, CallerStep DEF Resume
<1>5. CASE Timeout(c)
  <2> DEFINE new == [Cancelled(call[c]) EXCEPT !.pc = "timeout"]
  <2>1. new \in CallRecords /\ new.pc = "timeout"
        /\ new.id = call[c].id /\ new.of = call[c].of
        /\ \/ new.fut = call[c].fut
           \/ call[c].fut = "open" /\ new.fut = "cancelled"
    BY <1>1 DEF CallRecords, Settled, Cancelled
  <2>2. call' = [call EXCEPT ![c] = new] /\ call[c].pc \in Active /\ new.pc \notin Active
    BY <1>5, <2>1 DEF Timeout, Active, IInv, TypeOK
  <2> HIDE DEF new
  <2>3. /\ pending' = Without(call[c].id)
        /\ UNCHANGED <<bridge, requestId, wire, stoppedAt>>
        /\ new.pc \notin {"idle", "refused", "answered", "cancelled"}
    BY <1>5, <2>1 DEF Timeout
  <2>. QED  BY <2>1, <2>2, <2>3, CallerStep
<1>6. CASE Interrupt(c)
  <2> DEFINE r == IF call[c].pc = "waiting" THEN Cancelled(call[c]) ELSE call[c]
             new == [r EXCEPT !.pc = "interrupted"]
  <2>1. new \in CallRecords /\ new.pc = "interrupted"
        /\ new.id = call[c].id /\ new.of = call[c].of
        /\ \/ new.fut = call[c].fut
           \/ call[c].fut = "open" /\ new.fut = "cancelled"
    BY <1>1 DEF CallRecords, Settled, Cancelled
  <2>2. call' = [call EXCEPT ![c] = new] /\ call[c].pc \in Active /\ new.pc \notin Active
    BY <1>6, <2>1 DEF Interrupt, Active, IInv, TypeOK
  <2> HIDE DEF new
  <2>3. /\ pending' = pending
        /\ UNCHANGED <<bridge, requestId, wire, stoppedAt>>
        /\ new.pc \notin {"idle", "refused", "answered", "cancelled", "timeout"}
    BY <1>6, <2>1 DEF Interrupt
  <2>. QED  BY <2>1, <2>2, <2>3, CallerStep
<1>. QED  BY <1>2, <1>3, <1>4, <1>5, <1>6

LEMMA CallRefusedStep ==
    ASSUME IInv, NEW c \in Calls, CallRefused(c)
    PROVE  IInv'
<1> DEFINE new == [call[c] EXCEPT !.pc = "refused"]
<1>1. new \in CallRecords /\ new.pc = "refused" /\ new.fut = call[c].fut
      /\ new.of = call[c].of
  BY DEF CallRecords, Settled, IInv, TypeOK
<1>2. /\ call[c].pc = "idle" /\ call' = [call EXCEPT ![c] = new]
      /\ UNCHANGED <<running, proc, reader, stopping, stalled, requestId, pending>>
      /\ UNCHANGED <<inbox, outbox, handled, stoppedAt>>
  BY DEF CallRefused, Settle, bridge, wire, IInv, TypeOK
<1> HIDE DEF new
<1>3. /\ call'[c] = new
      /\ \A d \in Calls \ {c} : call'[d] = call[d]
      /\ call' \in [Calls -> CallRecords]
  BY <1>1, <1>2 DEF IInv, TypeOK
<1>4. /\ \A e \in pending : e.call \in Calls \ {c}
      /\ \A r \in inbox \cup outbox : r.of \in Calls \ {c}
  BY <1>2 DEF IInv, TypeOK, Lines, EntriesOwn, LinesOwn, Started
<1>5. TypeOK'
  BY <1>2, <1>3 DEF IInv, TypeOK
<1>6. \A d \in Calls : /\ Started(d)' <=> Started(d)
                       /\ Started(d) => call'[d] = call[d]
  BY <1>1, <1>2, <1>3 DEF Started
<1>7. Numbered'
  BY <1>2, <1>6 DEF IInv, Numbered
<1>8. EntriesOwn' /\ LinesOwn' /\ DoneGone' /\ NoStrayEntry'
  BY <1>2, <1>3, <1>4, <1>6
     DEF IInv, EntriesOwn, LinesOwn, DoneGone, NoStrayEntry
<1>9. FuturesOwn'
  BY <1>1, <1>2, <1>3 DEF IInv, FuturesOwn
<1>10. new.pc \notin Active
  BY <1>1 DEF Active
<1>11. StopShape' /\ WaiterReachable' /\ StopReleases'
  BY <1>2, <1>3, <1>10 DEF IInv, StopShape, WaiterReachable, StopReleases
<1>. QED  BY <1>5, <1>7, <1>8, <1>9, <1>11 DEF IInv

(* A new call takes the next number.                                       *)
LEMMA CallWritesStep ==
    ASSUME IInv, NEW c \in Calls, CallWrites(c)
    PROVE  IInv'
<1> DEFINE n == requestId + 1
           new == [pc |-> "draining", id |-> n, fut |-> "open", of |-> None]
           item == [id |-> n, call |-> c]
           line == [id |-> n, of |-> c]
<1>1. /\ call[c].pc = "idle" /\ call' = [call EXCEPT ![c] = new]
      /\ requestId' = n /\ pending' = Without(n) \cup {item}
      /\ inbox' = inbox \/ inbox' = inbox \cup {line}
      /\ UNCHANGED <<running, proc, reader, stopping, stalled>>
      /\ UNCHANGED <<outbox, handled, stoppedAt>>
      /\ proc # "none"
  BY DEF CallWrites, NextId, With, bridge
<1>2. n \in Nat /\ requestId \in Nat
  BY DEF IInv, TypeOK
<1>3. /\ new \in CallRecords /\ new.pc = "draining" /\ new.id = n
      /\ new.fut = "open"
      /\ item \in [id : Nat, call : Calls] /\ item.id = n /\ item.call = c
      /\ line \in Lines /\ line.id = n /\ line.of = c
  BY <1>2 DEF CallRecords, Active, Lines
<1> HIDE DEF n, new, item, line
<1>4. /\ call'[c] = new
      /\ \A d \in Calls \ {c} : call'[d] = call[d]
      /\ call' \in [Calls -> CallRecords]
  BY <1>1, <1>3 DEF IInv, TypeOK
<1>5. /\ \A e \in pending : e.call \in Calls \ {c}
      /\ \A r \in inbox \cup outbox : r.of \in Calls \ {c}
  BY <1>1 DEF IInv, TypeOK, Lines, EntriesOwn, LinesOwn, Started
<1>6. \A d \in Calls \ {c} : Started(d) => call[d].id \in 1 .. requestId /\ call[d].id # n
  BY <1>2 DEF IInv, Numbered, n
<1>7. pending' = pending \cup {item}
  <2>1. \A e \in pending : e.id # n
    BY <1>5, <1>6 DEF IInv, EntriesOwn
  <2>. QED  BY <1>1, <2>1 DEF Without
<1>8. TypeOK'
  BY <1>1, <1>2, <1>3, <1>4, <1>7 DEF IInv, TypeOK
<1>9. \A d \in Calls \ {c} : Started(d)' <=> Started(d)
  BY <1>4 DEF Started
<1>10. Started(c)'
  BY <1>3, <1>4 DEF Started
<1>11. Numbered'
  <2>1. \A d \in Calls \ {c} : Started(d)' => call'[d].id \in 1 .. requestId'
    BY <1>1, <1>2, <1>4, <1>6, <1>9 DEF n
  <2>2. call'[c].id \in 1 .. requestId'
    BY <1>1, <1>2, <1>3, <1>4 DEF n
  <2>3. \A d \in Calls \ {c} : Started(d)' => call'[d].id # call'[c].id
    BY <1>3, <1>4, <1>6, <1>9
  <2>4. \A d, e \in Calls \ {c} :
            Started(d)' /\ Started(e)' /\ call'[d].id = call'[e].id => d = e
    BY <1>4, <1>9 DEF IInv, Numbered
  <2>. QED  BY <2>1, <2>2, <2>3, <2>4 DEF Numbered
<1>12. EntriesOwn' /\ NoStrayEntry' /\ DoneGone'
  <2>1. SUFFICES ASSUME NEW e \in pending'
        PROVE  /\ Started(e.call)' /\ call'[e.call].id = e.id
               /\ call'[e.call].pc \in Active \cup {"interrupted", "lost"}
               /\ call'[e.call].pc \in Active => call'[e.call].fut = "open"
    BY DEF EntriesOwn, NoStrayEntry, DoneGone
  <2>2. CASE e = item
    BY <1>3, <1>4, <1>10, <2>2 DEF Active
  <2>3. CASE e # item
    BY <1>4, <1>5, <1>7, <1>9, <2>1, <2>3 DEF IInv, EntriesOwn, NoStrayEntry, DoneGone
  <2>. QED  BY <2>2, <2>3
<1>13. LinesOwn'
  BY <1>1, <1>3, <1>4, <1>5, <1>9, <1>10 DEF IInv, LinesOwn
<1>14. FuturesOwn'
  BY <1>1, <1>3, <1>4 DEF IInv, FuturesOwn
<1>15. WaiterReachable'
  BY <1>3, <1>4, <1>7 DEF IInv, WaiterReachable, item
<1>16. StopShape'
  BY <1>1, <1>2 DEF IInv, StopShape, TypeOK, n
<1>17. StopReleases'
  <2>1. n > stoppedAt
    BY <1>2 DEF IInv, StopShape, TypeOK, n
  <2>. QED  BY <1>1, <1>3, <1>4, <2>1 DEF IInv, StopReleases
<1>. QED  BY <1>8, <1>11, <1>12, <1>13, <1>14, <1>15, <1>16, <1>17 DEF IInv

-----------------------------------------------------------------------------
(* The process, the handler and the parts of stop() after its beginning.   *)
LEMMA ProcessStep ==
    ASSUME IInv,
           \/ Start \/ Stall \/ ProcessExits \/ ReaderEnds \/ StopCloses \/ StopReturns
           \/ \E r \in inbox : Handle(r)
           \/ \E a \in outbox : SkipAnswer(a)
    PROVE  IInv'
<1>1. CASE Start \/ Stall \/ ProcessExits \/ ReaderEnds \/ StopCloses \/ StopReturns
  <2>1. /\ UNCHANGED <<requestId, pending, call, stoppedAt>>
        /\ UNCHANGED <<outbox, handled>>
        /\ inbox' \subseteq inbox
        /\ stopping' # "none" => stopping # "none"
    BY <1>1 DEF Start, Stall, ProcessExits, ReaderEnds, StopCloses, StopReturns, wire
  <2>2. TypeOK'
    BY <1>1 DEF Start, Stall, ProcessExits, ReaderEnds, StopCloses, StopReturns,
                AfterReader, IInv, TypeOK, wire
  <2>3. StopShape'
    BY <1>1 DEF Start, Stall, ProcessExits, ReaderEnds, StopCloses, StopReturns,
                IInv, StopShape
  <2>4. \A r \in outbox' : r \in inbox \cup outbox /\ r.of \in handled'
    BY <2>1 DEF IInv, LinesOwn
  <2>. QED  BY <2>1, <2>2, <2>3, <2>4, BridgeStep
<1>2. ASSUME NEW r \in inbox, Handle(r)
      PROVE  IInv'
  <2>1. /\ UNCHANGED <<requestId, pending, call, stoppedAt>>
        /\ UNCHANGED <<running, proc, reader, stopping, stalled>>
        /\ inbox' \subseteq inbox /\ outbox' \subseteq outbox \cup {r}
        /\ handled' = handled \cup {r.of}
    BY <1>2 DEF Handle, bridge
  <2>2. TypeOK'
    BY <1>2, <2>1 DEF IInv, TypeOK, Lines
  <2>3. StopShape'
    BY <2>1 DEF IInv, StopShape
  <2>4. \A a \in outbox' : a \in inbox \cup outbox /\ a.of \in handled'
    BY <2>1 DEF IInv, LinesOwn
  <2>. QED  BY <2>1, <2>2, <2>3, <2>4, BridgeStep
<1>3. ASSUME NEW a \in outbox, SkipAnswer(a)
      PROVE  IInv'
  <2>1. /\ UNCHANGED <<requestId, pending, call, stoppedAt>>
        /\ UNCHANGED <<running, proc, reader, stopping, stalled, inbox, handled>>
        /\ outbox' \subseteq outbox
    BY <1>3 DEF SkipAnswer, bridge
  <2>2. TypeOK' /\ StopShape'
    BY <2>1 DEF IInv, TypeOK, StopShape
  <2>3. \A r \in outbox' : r \in inbox \cup outbox /\ r.of \in handled'
    BY <2>1 DEF IInv, LinesOwn
  <2>. QED  BY <2>1, <2>2, <2>3, BridgeStep
<1>. QED  BY <1>1, <1>2, <1>3
(* The response reaches the future of its own call, if it still is there.   *)
LEMMA ReadAnswerStep ==
    ASSUME IInv, NEW a \in outbox, ReadAnswer(a)
    PROVE  IInv'
<1> DEFINE c == a.of
<1>1. /\ c \in Calls /\ Started(c) /\ call[c].id = a.id /\ c \in handled
  BY DEF IInv, TypeOK, Lines, LinesOwn
<1>2. \A e \in pending : e.call \in Calls /\ (e.id = a.id => e.call = c)
  BY <1>1 DEF IInv, TypeOK, EntriesOwn, Numbered
<1>3. /\ UNCHANGED <<running, proc, reader, stopping, stalled, requestId>>
      /\ UNCHANGED <<inbox, handled, stoppedAt>>
      /\ outbox' = outbox \ {a} /\ pending' = pending \ Matches(a)
  BY DEF ReadAnswer, bridge
<1>4. \A d \in Calls :
          \/ call'[d] = call[d]
          \/ /\ d = c /\ call[d].fut = "open"
             /\ call'[d] = [call[d] EXCEPT !.fut = "answered", !.of = c]
  BY <1>2 DEF ReadAnswer, Matches
<1>5. call' \in [Calls -> CallRecords]
  <2>1. \A d \in Calls : call[d] \in CallRecords
    BY DEF IInv, TypeOK
  <2>2. ASSUME NEW d \in Calls, call[d] \in CallRecords
        PROVE  [call[d] EXCEPT !.fut = "answered", !.of = c] \in CallRecords
    BY <1>1, <2>2 DEF CallRecords
  <2>3. \A d \in Calls : call'[d] \in CallRecords
    BY <1>4, <2>1, <2>2
  <2>. QED  BY <2>3 DEF ReadAnswer
<1>6. \A d \in Calls : /\ call'[d].pc = call[d].pc /\ call'[d].id = call[d].id
                       /\ call'[d].fut = "open" => call'[d] = call[d]
                       /\ call'[d].fut = "answered" =>
                              \/ call'[d] = call[d]
                              \/ call'[d].of = d /\ d = c
                       /\ call[d].fut = "answered" => call'[d] = call[d]
  <2>1. \A d \in Calls : call[d] \in CallRecords
    BY DEF IInv, TypeOK
  <2>2. ASSUME NEW d \in Calls, call[d] \in CallRecords,
               call'[d] = [call[d] EXCEPT !.fut = "answered", !.of = c]
        PROVE  /\ call'[d].pc = call[d].pc /\ call'[d].id = call[d].id
               /\ call'[d].fut = "answered" /\ call'[d].of = c
    BY <2>2 DEF CallRecords
  <2>. QED  BY <1>4, <2>1, <2>2
<1> HIDE DEF c
<1>7. TypeOK'
  BY <1>3, <1>5 DEF IInv, TypeOK
<1>8. \A d \in Calls : Started(d)' <=> Started(d)
  BY <1>6 DEF Started
<1>9. Numbered'
  BY <1>3, <1>6, <1>8 DEF IInv, Numbered
<1>10. /\ \A r \in inbox \cup outbox : r.of \in Calls
       /\ pending' \subseteq pending
  BY <1>3 DEF IInv, TypeOK, Lines
<1>11. EntriesOwn' /\ LinesOwn' /\ NoStrayEntry'
  BY <1>2, <1>3, <1>6, <1>8, <1>10 DEF IInv, EntriesOwn, LinesOwn, NoStrayEntry
<1>12. FuturesOwn'
  BY <1>1, <1>3, <1>6 DEF IInv, FuturesOwn
<1>13. DoneGone'
  <2>1. SUFFICES ASSUME NEW e \in pending', call'[e.call].pc \in Active
                 PROVE  call'[e.call].fut = "open"
    BY DEF DoneGone
  <2>2. e \in pending /\ e \notin Matches(a) /\ e.call \in Calls
    BY <1>2, <1>3, <2>1
  <2>3. e.call # c
    BY <1>1, <2>2 DEF Matches, IInv, EntriesOwn, c
  <2>. QED  BY <1>4, <1>6, <2>1, <2>2, <2>3 DEF IInv, DoneGone
<1>14. StopShape'
  BY <1>3 DEF IInv, StopShape
<1>15. WaiterReachable'
  <2>1. SUFFICES ASSUME NEW d \in Calls, call'[d].pc \in Active, call'[d].fut = "open"
                 PROVE  [id |-> call'[d].id, call |-> d] \in pending'
    BY DEF WaiterReachable
  <2>2. call'[d] = call[d] /\ [id |-> call[d].id, call |-> d] \in pending
    BY <1>6, <2>1 DEF IInv, WaiterReachable
  <2>3. [id |-> call[d].id, call |-> d] \notin Matches(a)
    <3>1. SUFFICES ASSUME [id |-> call[d].id, call |-> d] \in Matches(a)
                   PROVE  FALSE
      OBVIOUS
    <3>2. \A f \in Calls : call'[f].fut = "open" =>
              ~(\E e \in Matches(a) : e.call = f)
      <4>1. SUFFICES ASSUME NEW f \in Calls, call'[f].fut = "open",
                            NEW e \in Matches(a), e.call = f
                     PROVE  FALSE
        OBVIOUS
      <4>2. call[f] \in CallRecords /\ call'[f] = call[f]
        BY <1>6, <4>1 DEF IInv, TypeOK
      <4>3. call'[f] = [call[f] EXCEPT !.fut = "answered", !.of = a.of]
        BY <4>1, <4>2 DEF ReadAnswer
      <4>. QED  BY <4>1, <4>2, <4>3 DEF CallRecords
    <3>. QED  BY <2>1, <3>1, <3>2
  <2>. QED  BY <1>3, <2>2, <2>3
<1>16. StopReleases'
  BY <1>3, <1>6 DEF IInv, StopReleases
<1>. QED  BY <1>7, <1>9, <1>11, <1>12, <1>13, <1>14, <1>15, <1>16 DEF IInv

(* stop() finds every open future in _pending.                             *)
LEMMA BeginStopStep ==
    ASSUME IInv, BeginStop
    PROVE  IInv'
<1>1. /\ UNCHANGED <<proc, stalled, requestId>>
      /\ UNCHANGED <<inbox, outbox, handled>>
      /\ running /\ running' = FALSE /\ stoppedAt' = requestId
      /\ pending' = {} /\ reader' = "off"
      /\ stopping' = IF reader = "on" THEN "reader" ELSE AfterReader
  BY DEF BeginStop, wire
<1>2. \A d \in Calls : call[d] \in CallRecords
  BY DEF IInv, TypeOK
<1>3. \A d \in Calls : \/ call'[d] = call[d]
                       \/ call[d].fut = "open" /\ call'[d] = [call[d] EXCEPT !.fut = "cancelled"]
  BY DEF BeginStop, Cancelled
<1>4. ASSUME NEW d \in Calls, call'[d] = [call[d] EXCEPT !.fut = "cancelled"]
      PROVE  /\ call'[d] \in CallRecords /\ call'[d].pc = call[d].pc
             /\ call'[d].id = call[d].id /\ call'[d].fut = "cancelled"
  BY <1>2, <1>4 DEF CallRecords
<1>5. call' \in [Calls -> CallRecords]
  <2>1. \A d \in Calls : call'[d] \in CallRecords
    BY <1>2, <1>3, <1>4
  <2>. QED  BY <2>1 DEF BeginStop
<1>6. \A d \in Calls : /\ call'[d].pc = call[d].pc /\ call'[d].id = call[d].id
                       /\ call'[d].fut \in {"open", "answered"} => call'[d] = call[d]
                       /\ call[d].fut = "answered" => call'[d] = call[d]
  BY <1>3, <1>4
<1>7. TypeOK'
  BY <1>1, <1>5 DEF IInv, TypeOK, AfterReader
<1>8. \A d \in Calls : Started(d)' <=> Started(d)
  BY <1>6 DEF Started
<1>9. Numbered'
  BY <1>1, <1>6, <1>8 DEF IInv, Numbered
<1>10. \A r \in inbox \cup outbox : r.of \in Calls
  BY DEF IInv, TypeOK, Lines
<1>11. LinesOwn'
  BY <1>1, <1>6, <1>8, <1>10 DEF IInv, LinesOwn
<1>12. EntriesOwn' /\ NoStrayEntry' /\ DoneGone'
  BY <1>1 DEF EntriesOwn, NoStrayEntry, DoneGone
<1>13. FuturesOwn'
  BY <1>1, <1>6 DEF IInv, FuturesOwn
<1>14. StopShape'
  BY <1>1 DEF IInv, TypeOK, StopShape
<1>15. \A d \in Calls : call'[d].pc \in Active => call'[d].fut # "open"
  <2>1. SUFFICES ASSUME NEW d \in Calls, call'[d].pc \in Active, call'[d].fut = "open"
                 PROVE  FALSE
    OBVIOUS
  <2>2. call'[d] = call[d]
    BY <1>6, <2>1
  <2>3. \E e \in pending : e.call = d
    <3>1. [id |-> call[d].id, call |-> d] \in pending
      BY <2>1, <2>2 DEF IInv, WaiterReachable
    <3>2. [id |-> call[d].id, call |-> d].call = d
      OBVIOUS
    <3>. QED  BY <3>1, <3>2
  <2>4. call'[d] = [call[d] EXCEPT !.fut = "cancelled"]
    BY <2>1, <2>2, <2>3 DEF BeginStop, Cancelled
  <2>. QED  BY <1>4, <2>1, <2>4
<1>16. WaiterReachable' /\ StopReleases'
  BY <1>15 DEF WaiterReachable, StopReleases
<1>. QED  BY <1>7, <1>9, <1>11, <1>12, <1>13, <1>14, <1>16 DEF IInv

-----------------------------------------------------------------------------
LEMMA NextIInv == IInv /\ [Next]_vars => IInv'
<1>1. SUFFICES ASSUME IInv, [Next]_vars
               PROVE  IInv'
  OBVIOUS
<1>2. CASE Start \/ Stall \/ ProcessExits \/ ReaderEnds \/ StopCloses \/ StopReturns
  BY <1>1, <1>2, ProcessStep
<1>3. CASE BeginStop
  BY <1>1, <1>3, BeginStopStep
<1>4. ASSUME NEW c \in Calls, Caller(c)
      PROVE  IInv'
  BY <1>1, <1>4, CallRefusedStep, CallWritesStep, MovesOn DEF Caller
<1>5. CASE \E r \in inbox : Handle(r)
  BY <1>1, <1>5, ProcessStep
<1>6. ASSUME NEW a \in outbox, ReadAnswer(a) \/ SkipAnswer(a)
      PROVE  IInv'
  BY <1>1, <1>6, ReadAnswerStep, ProcessStep
<1>7. CASE UNCHANGED vars
  <2>1. /\ UNCHANGED <<running, proc, reader, stopping, stalled, requestId>>
        /\ UNCHANGED <<pending, call, inbox, outbox, handled, stoppedAt>>
    BY <1>7 DEF vars
  <2>. QED  BY <1>1, <2>1
            DEF IInv, TypeOK, Numbered, Started, EntriesOwn, LinesOwn, FuturesOwn,
                DoneGone, StopShape, WaiterReachable, NoStrayEntry, StopReleases
<1>. QED  BY <1>1, <1>2, <1>3, <1>4, <1>5, <1>6, <1>7 DEF Next

THEOREM RpcInvariant == Spec => []IInv
<1>1. Init => IInv
  BY InitIInv
<1>2. IInv /\ [Next]_vars => IInv'
  BY NextIInv
<1>. QED  BY <1>1, <1>2, PTL DEF Spec

(* The invariants the run checks, for any number of calls.                 *)
THEOREM RpcTypeOK == Spec => []TypeOK
<1>1. IInv => TypeOK
  BY DEF IInv
<1>. QED  BY <1>1, RpcInvariant, PTL

(* No caller gets the answer to another call.                              *)
THEOREM AnswerMatchesHolds == Spec => []AnswerMatches
<1>1. IInv => AnswerMatches
  BY DEF IInv, FuturesOwn, AnswerMatches
<1>. QED  BY <1>1, RpcInvariant, PTL

(* No caller waits for a future that _pending has lost, and stop() releases *)
(* every call made before it.                                              *)
THEOREM PendingHolds == Spec => [](WaiterReachable /\ StopReleases)
<1>1. IInv => WaiterReachable /\ StopReleases
  BY DEF IInv
<1>. QED  BY <1>1, RpcInvariant, PTL

(* An entry of _pending belongs to the call of its number, which is waited  *)
(* for, was interrupted by its caller or lost its drain().                 *)
THEOREM NoStrayHolds == Spec => []NoStrayEntry
<1>1. IInv => NoStrayEntry
  BY DEF IInv
<1>. QED  BY <1>1, RpcInvariant, PTL

-----------------------------------------------------------------------------
(* The refinement.                                                         *)
LEMMA SameStatus ==
    ASSUME UNCHANGED handled,
           \A c \in Calls : Status(call'[c].pc) = Status(call[c].pc)
    PROVE  UNCHANGED Promise!vars
<1>1. [c \in Calls |-> Status(call'[c].pc)] = [c \in Calls |-> Status(call[c].pc)]
  OBVIOUS
<1>. QED  BY <1>1 DEF Promise!vars, Status

LEMMA BecomesStatus ==
    ASSUME UNCHANGED handled, NEW c \in Calls, NEW from, NEW to,
           Status(call[c].pc) = from, Status(call'[c].pc) = to,
           \A d \in Calls \ {c} : call'[d].pc = call[d].pc
    PROVE  Promise!Become(c, from, to)
<1> DEFINE s == [d \in Calls |-> Status(call[d].pc)]
           t == [d \in Calls |-> Status(call'[d].pc)]
<1>1. s[c] = from
  OBVIOUS
<1>2. t = [s EXCEPT ![c] = to]
  OBVIOUS
<1>. QED  BY <1>1, <1>2 DEF Promise!Become, Status

(* The steps that change what a caller knows.                              *)
LEMMA CallerPromise ==
    ASSUME IInv, NEW c \in Calls, Caller(c)
    PROVE  Promise!Next \/ UNCHANGED Promise!vars
<1>1. call[c] \in CallRecords /\ call \in [Calls -> CallRecords]
  BY DEF IInv, TypeOK
<1>2. CASE CallRefused(c)
  <2>1. /\ UNCHANGED handled /\ call[c].pc = "idle" /\ call'[c].pc = "refused"
        /\ \A d \in Calls \ {c} : call'[d].pc = call[d].pc
    BY <1>1, <1>2 DEF CallRefused, Settle, wire, CallRecords
  <2>2. Promise!Become(c, "idle", "refused")
    BY <2>1, BecomesStatus DEF Status, Active
  <2>. QED  BY <2>2 DEF Promise!Next, Promise!Refuse
<1>3. CASE CallWrites(c)
  <2>1. /\ UNCHANGED handled /\ call[c].pc = "idle" /\ call'[c].pc = "draining"
        /\ \A d \in Calls \ {c} : call'[d].pc = call[d].pc
    BY <1>1, <1>3 DEF CallWrites
  <2>2. Promise!Become(c, "idle", "asked")
    BY <2>1, BecomesStatus DEF Status, Active
  <2>. QED  BY <2>2 DEF Promise!Next, Promise!Ask
<1>4. CASE DrainReturns(c)
  <2>1. /\ UNCHANGED handled /\ call[c].pc = "draining" /\ call'[c].pc = "waiting"
        /\ \A d \in Calls \ {c} : call'[d].pc = call[d].pc
    BY <1>1, <1>4 DEF DrainReturns, Settle, wire, CallRecords
  <2>2. \A d \in Calls : Status(call'[d].pc) = Status(call[d].pc)
    BY <2>1 DEF Status, Active
  <2>. QED  BY <2>1, <2>2, SameStatus
<1>5. CASE DrainFails(c)
  <2>1. /\ UNCHANGED handled /\ call[c].pc = "draining" /\ call'[c].pc = "lost"
        /\ \A d \in Calls \ {c} : call'[d].pc = call[d].pc
    BY <1>1, <1>5 DEF DrainFails, Settle, wire, CallRecords
  <2>2. Promise!Become(c, "asked", "failed")
    BY <2>1, BecomesStatus DEF Status, Active
  <2>. QED  BY <2>2 DEF Promise!Next, Promise!Fail
<1>6. CASE Resume(c)
  <2>1. /\ UNCHANGED handled /\ call[c].pc = "waiting" /\ call'[c].pc = call[c].fut
        /\ call[c].fut \in {"answered", "cancelled"}
        /\ \A d \in Calls \ {c} : call'[d].pc = call[d].pc
    BY <1>1, <1>6 DEF Resume, Settle, wire, CallRecords
  <2>2. CASE call[c].fut = "answered"
    <3>1. c \in handled
      BY <2>2 DEF IInv, FuturesOwn
    <3>2. Promise!Become(c, "asked", "answered")
      BY <2>1, <2>2, BecomesStatus DEF Status, Active
    <3>. QED  BY <3>1, <3>2 DEF Promise!Next, Promise!Answer
  <2>3. CASE call[c].fut = "cancelled"
    <3>1. Promise!Become(c, "asked", "failed")
      BY <2>1, <2>3, BecomesStatus DEF Status, Active
    <3>. QED  BY <3>1 DEF Promise!Next, Promise!Fail
  <2>. QED  BY <2>1, <2>2, <2>3
<1>7. CASE Timeout(c)
  <2>1. /\ UNCHANGED handled /\ call[c].pc = "waiting" /\ call'[c].pc = "timeout"
        /\ \A d \in Calls \ {c} : call'[d].pc = call[d].pc
    BY <1>1, <1>7 DEF Timeout, Cancelled, wire, CallRecords
  <2>2. Promise!Become(c, "asked", "failed")
    BY <2>1, BecomesStatus DEF Status, Active
  <2>. QED  BY <2>2 DEF Promise!Next, Promise!Fail
<1>8. CASE Interrupt(c)
  <2>1. /\ UNCHANGED handled /\ call[c].pc \in Active /\ call'[c].pc = "interrupted"
        /\ \A d \in Calls \ {c} : call'[d].pc = call[d].pc
    BY <1>1, <1>8 DEF Interrupt, Cancelled, wire, CallRecords
  <2>2. Promise!Become(c, "asked", "failed")
    BY <2>1, BecomesStatus DEF Status, Active
  <2>. QED  BY <2>2 DEF Promise!Next, Promise!Fail
<1>. QED  BY <1>2, <1>3, <1>4, <1>5, <1>6, <1>7, <1>8 DEF Caller

(* The bridge performs a call that was asked, or one that was given up.     *)
LEMMA HandlePromise ==
    ASSUME IInv, NEW r \in inbox, Handle(r)
    PROVE  Promise!Next \/ UNCHANGED Promise!vars
<1>1. /\ r.of \in Calls /\ Started(r.of)
      /\ UNCHANGED call /\ handled' = handled \cup {r.of}
  BY DEF Handle, IInv, TypeOK, Lines, LinesOwn
<1>2. CASE r.of \in handled
  <2>1. UNCHANGED handled
    BY <1>1, <1>2
  <2>2. \A d \in Calls : Status(call'[d].pc) = Status(call[d].pc)
    BY <1>1
  <2>. QED  BY <2>1, <2>2, SameStatus
<1>3. CASE r.of \notin handled
  <2>1. call[r.of] \in CallRecords /\ call[r.of].pc # "answered"
    BY <1>1, <1>3 DEF IInv, TypeOK, FuturesOwn
  <2>2. Status(call[r.of].pc) \in {"asked", "failed"}
    BY <1>1, <2>1 DEF CallRecords, Settled, Status, Active, Started
  <2>3. Promise!Handle(r.of)
    BY <1>1, <2>2 DEF Promise!Handle
  <2>. QED  BY <1>1, <2>3 DEF Promise!Next
<1>. QED  BY <1>2, <1>3

(* What the others do is not seen by a caller until it runs again.          *)
LEMMA SilentPromise ==
    ASSUME IInv, UNCHANGED handled,
           \/ UNCHANGED call
           \/ BeginStop
           \/ \E a \in outbox : ReadAnswer(a)
    PROVE  UNCHANGED Promise!vars
<1>1. \A c \in Calls : call'[c].pc = call[c].pc
  <2>1. CASE BeginStop
    BY <2>1 DEF BeginStop, Cancelled, IInv, TypeOK, CallRecords
  <2>2. CASE \E a \in outbox : ReadAnswer(a)
    BY <2>2 DEF ReadAnswer, IInv, TypeOK, CallRecords
  <2>. QED  BY <2>1, <2>2
<1>. QED  BY <1>1, SameStatus

(* Calls through the pipes keep the promise: settled once, answered only    *)
(* with what the bridge did for them.                                      *)
THEOREM PromiseHolds == Spec => PromiseKept
<1>1. Init => Promise!Init
  <2>1. SUFFICES ASSUME Init
                 PROVE  Promise!Init
    OBVIOUS
  <2>2. \A c \in Calls : Status(call[c].pc) = "idle"
    BY <2>1 DEF Init, Status, Active
  <2>3. handled = {}
    BY <2>1 DEF Init
  <2>. QED  BY <2>2, <2>3 DEF Promise!Init
<1>2. IInv /\ [Next]_vars => [Promise!Next]_(Promise!vars)
  <2>1. SUFFICES ASSUME IInv, [Next]_vars
                 PROVE  Promise!Next \/ UNCHANGED Promise!vars
    OBVIOUS
  <2>2. CASE \/ Start \/ Stall \/ ProcessExits \/ ReaderEnds
             \/ StopCloses \/ StopReturns \/ UNCHANGED vars
    <3>1. UNCHANGED call /\ UNCHANGED handled
      BY <2>2 DEF Start, Stall, ProcessExits, ReaderEnds, StopCloses, StopReturns,
                  wire, vars
    <3>. QED  BY <2>1, <3>1, SilentPromise
  <2>3. CASE BeginStop
    <3>1. UNCHANGED handled
      BY <2>3 DEF BeginStop, wire
    <3>. QED  BY <2>1, <2>3, <3>1, SilentPromise
  <2>4. ASSUME NEW c \in Calls, Caller(c)
        PROVE  Promise!Next \/ UNCHANGED Promise!vars
    BY <2>1, <2>4, CallerPromise
  <2>5. ASSUME NEW r \in inbox, Handle(r)
        PROVE  Promise!Next \/ UNCHANGED Promise!vars
    BY <2>1, <2>5, HandlePromise
  <2>6. ASSUME NEW a \in outbox, ReadAnswer(a) \/ SkipAnswer(a)
        PROVE  Promise!Next \/ UNCHANGED Promise!vars
    <3>1. UNCHANGED handled
      BY <2>6 DEF ReadAnswer, SkipAnswer
    <3>2. ReadAnswer(a) \/ UNCHANGED call
      BY <2>6 DEF SkipAnswer
    <3>. QED  BY <2>1, <3>1, <3>2, SilentPromise
  <2>. QED  BY <2>1, <2>2, <2>3, <2>4, <2>5, <2>6 DEF Next
<1>. QED  BY <1>1, <1>2, RpcInvariant, PTL DEF Spec, PromiseKept, Promise!Spec
=============================================================================
