--------------------------- MODULE DeliveryProofs ---------------------------
(***************************************************************************)
(* Delivery, for any number of messages, receipts, jobs and attempts: what *)
(* the webhook was told, how the rows and the contact are counted, when a  *)
(* contact gets a second conversation and a message a second copy.         *)
(***************************************************************************)
EXTENDS Delivery, FiniteSetTheorems, TLAPS

(***************************************************************************)
(* The inductive invariant, by component.                                  *)
(***************************************************************************)
(* Nothing is under way for a message that has not come in.                *)
Untouched ==
    \A m \in Messages : storing[m] = "none" =>
        hook[m].at = "none" /\ at[m] = "idle" /\ ~rows[m].ids

(* How far a webhook task can have come.                                   *)
HookProgress ==
    \A m \in Messages :
        /\ hook[m].at # "done" => told[m] = "none"
        /\ hook[m].at \in {"posting", "waiting"} =>
              /\ hook[m].attempt >= 1
              /\ ~hook[m].success
              /\ seen[m] < hook[m].attempt + (IF hook[m].at = "waiting" THEN 1 ELSE 0)
              /\ seen[m] > 0 => m \in unsure
        /\ hook[m].at = "waiting" => hook[m].attempt < MaxRetries
        /\ hook[m].at = "saving" =>
              /\ seen[m] <= hook[m].attempt
              /\ IF hook[m].success THEN seen[m] > 0 ELSE hook[m].attempt = MaxRetries

(* PostgreSQL gives no id to a row that was there; a message whose media   *)
(* are cached has its file.                                                *)
StoreProgress ==
    /\ backend = "postgres" => hist # "old"
    /\ \A m \in Messages : media[m] = "cached" => m \in files

(* While no lookup has failed, one worker at a time is about to create a   *)
(* conversation, and there is none before it has.                          *)
OneCreator ==
    reopen /\ ~blind =>
        /\ \A v, w \in Workers : at[v] = "new" /\ at[w] = "new" => v = w
        /\ \A w \in Workers : at[w] = "new" => convs = 0

(* A job holds a message from when it has read it until it has marked it.  *)
Holding ==
    \A j \in Jobs :
        /\ now[j] # {} <=> at[j] = "note"
        /\ now[j] \cap left[j] = {}
        /\ \A m \in now[j] : copies[m] >= 1

(* A message that may be copied again is in doubt: one whose copy nobody   *)
(* will mark, one read when it had a copy, and one that two jobs hold.     *)
Doubtful ==
    \A m \in Messages :
        /\ copies[m] >= 1 /\ ~rows[m].synced =>
              m \in doubt \/ \E k \in Jobs : m \in now[k]
        /\ \A j \in Jobs : at[j] # "idle" /\ m \in left[j] /\ copies[m] >= 1 => m \in doubt
        /\ \A j, k \in Jobs :
              /\ j # k /\ at[j] # "idle" /\ at[k] # "idle"
              /\ m \in Held(j) /\ m \in Held(k)
              => m \in doubt

(* A live message whose copy is to be noted has one, or had.               *)
Noting ==
    \A m \in Messages :
        at[m] = "note" => m \notin outgoing /\ (m \in live \/ erased[m] = "done")

HookInv == WebhookTypeOK /\ WebhookTold /\ HookProgress
StoreInv == StoreTypeOK /\ StoredIsNew /\ StoreProgress
ConvInv == OneConversation /\ OneCreator
CopyInv == CopiesAccounted /\ Holding /\ Doubtful /\ Noting

ChatInv == ChatwootTypeOK /\ ConvInv /\ CopyInv

DeliveryInv ==
    /\ uses \subseteq {"history", "media", "webhook", "chatwoot", "import"}
    /\ Untouched /\ HookInv /\ StoreInv /\ ChatInv

-----------------------------------------------------------------------------
(***************************************************************************)
(* The webhook's tasks.                                                    *)
(***************************************************************************)
LEMMA HookInit == WebhookInit => HookInv
BY WebhookAssumption, DeliveryAssumption
   DEF WebhookInit, NoHook, HookInv, WebhookTypeOK, WebhookTold, HookProgress

(* An attempt that was not answered.                                       *)
LEMMA TriesAgainStep ==
    ASSUME WebhookTypeOK, NEW m \in Messages, TriesAgain(m)
    PROVE  /\ hook' \in [Messages -> [at : {"none", "posting", "waiting", "saving", "done"},
                                      attempt : 0 .. MaxRetries, success : BOOLEAN]]
           /\ hook'[m].at = (IF hook[m].attempt < MaxRetries THEN "waiting" ELSE "saving")
           /\ hook'[m].attempt = hook[m].attempt /\ hook'[m].success = hook[m].success
           /\ \A n \in Messages \ {m} : hook'[n] = hook[n]
BY DeliveryAssumption DEF WebhookTypeOK, TriesAgain

LEMMA HookPost ==
    ASSUME HookInv, NEW m \in Messages, Post(m)
    PROVE  HookInv'
<1>. USE WebhookAssumption, DeliveryAssumption DEF HookInv, WebhookTypeOK
<1>1. hook[m].at = "posting" /\ hook[m].attempt \in 1 .. MaxRetries /\ ~hook[m].success
      /\ seen[m] \in 0 .. MaxRetries /\ seen[m] < hook[m].attempt
  BY DEF Post, HookProgress
<1>2. CASE /\ seen' = [seen EXCEPT ![m] = @ + 1]
           /\ hook' = [hook EXCEPT ![m] = [at |-> "saving", attempt |-> hook[m].attempt,
                                           success |-> TRUE]]
           /\ UNCHANGED <<unsure, told>>
  BY <1>1, <1>2 DEF WebhookTold, HookProgress
<1>3. CASE TriesAgain(m) /\ seen' = [seen EXCEPT ![m] = @ + 1] /\ unsure' = unsure \cup {m}
           /\ UNCHANGED told
  <2>1. /\ seen'[m] = seen[m] + 1 /\ m \in unsure' /\ unsure \subseteq unsure'
        /\ unsure' \subseteq Messages
        /\ seen' \in [Messages -> 0 .. MaxRetries]
        /\ \A n \in Messages \ {m} : seen'[n] = seen[n]
    BY <1>1, <1>3
  <2>2. /\ hook' \in [Messages -> [at : {"none", "posting", "waiting", "saving", "done"},
                                   attempt : 0 .. MaxRetries, success : BOOLEAN]]
        /\ hook'[m].at = (IF hook[m].attempt < MaxRetries THEN "waiting" ELSE "saving")
        /\ hook'[m].attempt = hook[m].attempt /\ ~hook'[m].success
        /\ \A n \in Messages \ {m} : hook'[n] = hook[n]
    BY <1>1, <1>3, TriesAgainStep
  <2>3. told' = told
    BY <1>3
  <2>4. WebhookTypeOK'
    BY <2>1, <2>2, <2>3
  <2>5. WebhookTold'
    BY <1>1, <2>1, <2>2, <2>3, <2>4 DEF WebhookTold, HookProgress
  <2>6. HookProgress'
    BY <1>1, <2>1, <2>2, <2>3, <2>4 DEF WebhookTold, HookProgress
  <2>. QED  BY <2>4, <2>5, <2>6
<1>4. CASE TriesAgain(m) /\ UNCHANGED <<seen, unsure, told>>
  BY <1>1, <1>4, TriesAgainStep DEF WebhookTold, HookProgress
<1>. HIDE DEF HookInv, WebhookTypeOK
<1>. QED  BY <1>2, <1>3, <1>4 DEF Post

LEMMA HookBackOff ==
    ASSUME HookInv, NEW m \in Messages, BackOff(m)
    PROVE  HookInv'
<1>. USE WebhookAssumption, DeliveryAssumption DEF HookInv, WebhookTypeOK
<1>1. /\ hook[m].at = "waiting" /\ hook[m].attempt \in 1 .. MaxRetries - 1
      /\ ~hook[m].success /\ seen[m] \in 0 .. hook[m].attempt
      /\ seen[m] > 0 => m \in unsure
  BY DEF BackOff, HookProgress
<1>. QED  BY <1>1 DEF BackOff, WebhookTold, HookProgress

LEMMA HookSaved ==
    ASSUME HookInv, NEW m \in Messages, SaveAttempt(m)
    PROVE  HookInv'
<1>. USE WebhookAssumption, DeliveryAssumption DEF HookInv, WebhookTypeOK
<1>1. /\ hook[m].at = "saving" /\ told[m] = "none"
      /\ IF hook[m].success THEN seen[m] > 0 ELSE hook[m].attempt = MaxRetries
  BY DEF SaveAttempt, HookProgress
<1>2. /\ hook' = [hook EXCEPT ![m].at = "done"]
      /\ \/ told' = [told EXCEPT ![m] = IF hook[m].success THEN "success" ELSE "failure"]
         \/ told' = told
      /\ UNCHANGED <<seen, unsure>>
  BY DEF SaveAttempt
<1>3. WebhookTypeOK'
  BY <1>2
<1>4. /\ hook'[m].at = "done" /\ hook'[m].attempt = hook[m].attempt
      /\ hook'[m].success = hook[m].success
      /\ \A n \in Messages \ {m} : hook'[n] = hook[n] /\ told'[n] = told[n]
      /\ told'[m] \in {"none", IF hook[m].success THEN "success" ELSE "failure"}
  BY <1>1, <1>2
<1>5. WebhookTold'
  BY <1>1, <1>2, <1>3, <1>4 DEF WebhookTold
<1>6. HookProgress'
  BY <1>1, <1>2, <1>3, <1>4 DEF HookProgress
<1>. QED  BY <1>3, <1>5, <1>6

LEMMA HookSends ==
    ASSUME HookInv, NEW m \in Messages, hook[m].at = "none", hook' = Sending(m),
           UNCHANGED <<seen, unsure, told>>
    PROVE  HookInv'
BY WebhookAssumption, DeliveryAssumption
   DEF HookInv, WebhookTypeOK, WebhookTold, HookProgress, Sending

LEMMA HookCrash == HookInv /\ WebhookCrash => HookInv'
<1>. SUFFICES ASSUME HookInv, WebhookCrash PROVE HookInv'
  OBVIOUS
<1>. USE WebhookAssumption, DeliveryAssumption DEF HookInv, WebhookTypeOK
<1>1. /\ hook' \in [Messages -> [at : {"none", "posting", "waiting", "saving", "done"},
                                 attempt : 0 .. MaxRetries, success : BOOLEAN]]
      /\ \A m \in Messages :
            /\ hook'[m].at = (IF hook[m].at = "none" THEN "none" ELSE "done")
            /\ hook'[m].attempt = hook[m].attempt /\ hook'[m].success = hook[m].success
      /\ UNCHANGED <<seen, unsure, told>>
  BY DEF WebhookCrash
<1>. QED  BY <1>1 DEF WebhookTold, HookProgress

LEMMA HookStays == HookInv /\ UNCHANGED hookVars => HookInv'
BY DEF HookInv, WebhookTypeOK, WebhookTold, HookProgress, hookVars

-----------------------------------------------------------------------------
(***************************************************************************)
(* The rows and the contact.                                               *)
(***************************************************************************)
Kept == {m \in Messages : rows[m].kept}
Due == {m \in Messages : storing[m] = "contact"}
HistoryDue == IF hist \in {"new", "old"} THEN 1 ELSE 0
KnownRows == stats.stored + missed + (IF hist = "new" THEN 1 ELSE 0)

(* StoredIsNew, with its counters apart.                                   *)
Counted ==
    /\ added <= KnownRows
    /\ Cardinality(Kept) + named <= counted + lost + Cardinality(Due) + HistoryDue
    /\ backend = "postgres" =>
          /\ added = KnownRows
          /\ Cardinality(Kept) + named = counted + lost + Cardinality(Due) + HistoryDue
Local == \A m \in Messages : rows[m].local => rows[m].kept /\ m \in files

LEMMA StoredIsNewParts ==
    ASSUME StoreTypeOK
    PROVE  /\ Cardinality(Kept) \in Nat /\ Cardinality(Due) \in Nat
           /\ IsFiniteSet(Kept) /\ IsFiniteSet(Due)
           /\ StoredIsNew <=> Counted /\ Local
<1>1. IsFiniteSet(Kept) /\ IsFiniteSet(Due)
  BY StoreAssumption, FS_Subset, Kept \subseteq Messages, Due \subseteq Messages
     DEF Kept, Due
<1>2. Cardinality(Kept) \in Nat /\ Cardinality(Due) \in Nat
  BY <1>1, FS_CardinalityType
<1>3. Between = Cardinality(Due) + HistoryDue
  BY DEF Between, Due, HistoryDue
<1>4. /\ {added, missed, counted, lost} \subseteq Nat /\ named \in Nat
      /\ stats.stored \in Nat
  BY StoreAssumption DEF StoreTypeOK
<1>5. KnownRows \in Nat /\ HistoryDue \in Nat
  BY <1>4 DEF KnownRows, HistoryDue
<1>6. StoredIsNew <=>
        /\ added <= KnownRows
        /\ Cardinality(Kept) + named <= counted + lost + Between
        /\ backend = "postgres" =>
              added = KnownRows /\ Cardinality(Kept) + named = counted + lost + Between
        /\ Local
  BY Zenon DEF StoredIsNew, Kept, KnownRows, Local
<1>7. counted + lost + Between = counted + lost + Cardinality(Due) + HistoryDue
  BY <1>2, <1>3, <1>4, <1>5
<1>. QED  BY <1>1, <1>2, <1>6, <1>7, Zenon DEF Counted

(* What a step has to leave in order.                                      *)
StoreSound == StoreTypeOK /\ Counted /\ Local /\ StoreProgress

LEMMA StoreInvParts == StoreInv <=> StoreSound
BY StoredIsNewParts DEF StoreInv, StoreSound

LEMMA StoreInitSound ==
    ASSUME StoreInit, backend \in {"sqlite", "postgres"}
    PROVE  StoreInv
<1>. USE StoreAssumption DEF StoreInit, NoRow, NoStats
<1>1. StoreTypeOK
  <2>1. rows \in [Messages -> [kept : BOOLEAN, ids : BOOLEAN, synced : BOOLEAN,
                               local : BOOLEAN]]
    OBVIOUS
  <2>2. stats \in [stored : Nat, duplicates : Nat]
    OBVIOUS
  <2>3. storing \in [Messages -> {"none", "due", "contact", "stored", "lost"}]
    OBVIOUS
  <2>4. /\ inserted \in BOOLEAN
        /\ hist \in {"off", "row", "new", "old", "ended"} /\ todo \subseteq Messages
        /\ files \subseteq Messages
    OBVIOUS
  <2>5. {added, missed, counted, lost} \subseteq Nat /\ named \in 0 .. MaxContacts
    OBVIOUS
  <2>6. media \in [Messages -> {"none", "due", "cached", "done"}]
    OBVIOUS
  <2>. HIDE DEF StoreInit
  <2>. QED  BY <2>1, <2>2, <2>3, <2>4, <2>5, <2>6 DEF StoreTypeOK
<1>2. Kept = {} /\ Due = {}
  BY DEF Kept, Due
<1>3. Counted
  BY <1>2, FS_EmptySet DEF Counted, KnownRows, HistoryDue
<1>4. Local /\ StoreProgress
  BY DEF Local, StoreProgress
<1>. QED  BY <1>1, <1>3, <1>4, StoreInvParts DEF StoreSound

(* One row is inserted, or was there.                                      *)
LEMMA InsertStep ==
    ASSUME StoreTypeOK, NEW m \in Messages, Insert(m)
    PROVE  /\ rows' \in [Messages -> [kept : BOOLEAN, ids : BOOLEAN, synced : BOOLEAN,
                                      local : BOOLEAN]]
           /\ \A n \in Messages :
                 /\ rows'[n].kept = (rows[n].kept \/ n = m)
                 /\ rows'[n].local = rows[n].local /\ rows'[n].ids = rows[n].ids
                 /\ rows'[n].synced = rows[n].synced
           /\ inserted' \in BOOLEAN
           /\ Kept' = Kept \cup {m}
           /\ Cardinality(Kept') = Cardinality(Kept) + (IF rows[m].kept THEN 0 ELSE 1)
<1>1. /\ rows' \in [Messages -> [kept : BOOLEAN, ids : BOOLEAN, synced : BOOLEAN,
                                 local : BOOLEAN]]
      /\ \A n \in Messages :
            /\ rows'[n].kept = (rows[n].kept \/ n = m)
            /\ rows'[n].local = rows[n].local /\ rows'[n].ids = rows[n].ids
            /\ rows'[n].synced = rows[n].synced
      /\ inserted' \in BOOLEAN
  BY ZenonT(60) DEF StoreTypeOK, Insert
<1>2. Kept' = Kept \cup {m}
  BY <1>1 DEF Kept
<1>3. Cardinality(Kept \cup {m}) = Cardinality(Kept) + (IF m \in Kept THEN 0 ELSE 1)
  <2>1. IsFiniteSet(Kept) /\ Cardinality(Kept) \in Nat
    BY StoredIsNewParts
  <2>2. CASE m \in Kept
    BY <2>1, <2>2, Kept \cup {m} = Kept
  <2>3. CASE m \notin Kept
    BY <2>1, <2>3, FS_AddElement
  <2>. QED  BY <2>2, <2>3
<1>4. m \in Kept <=> rows[m].kept
  BY DEF Kept
<1>. QED  BY <1>1, <1>2, <1>3, <1>4

(* A contact is to be written, and one has been.                           *)
LEMMA DueGrows ==
    ASSUME StoreTypeOK, NEW m \in Messages, storing[m] # "contact",
           storing' = [storing EXCEPT ![m] = "contact"]
    PROVE  Cardinality(Due') = Cardinality(Due) + 1
<1>1. IsFiniteSet(Due) /\ Cardinality(Due) \in Nat
  BY StoredIsNewParts
<1>2. Due' = Due \cup {m} /\ m \notin Due
  BY DEF Due, StoreTypeOK
<1>. QED  BY <1>1, <1>2, FS_AddElement

LEMMA DueShrinks ==
    ASSUME StoreTypeOK, NEW m \in Messages, storing[m] = "contact",
           storing' = [storing EXCEPT ![m] = "stored"]
    PROVE  Cardinality(Due') = Cardinality(Due) - 1
<1>1. IsFiniteSet(Due) /\ Cardinality(Due) \in Nat
  BY StoredIsNewParts
<1>2. Due' = Due \ {m} /\ m \in Due
  BY DEF Due, StoreTypeOK
<1>. QED  BY <1>1, <1>2, FS_RemoveElement

LEMMA StoreNumbers ==
    ASSUME StoreTypeOK
    PROVE  /\ added \in Nat /\ missed \in Nat /\ counted \in Nat /\ lost \in Nat
           /\ named \in Nat /\ stats.stored \in Nat
           /\ Cardinality(Kept) \in Nat /\ Cardinality(Due) \in Nat
           /\ HistoryDue \in Nat /\ KnownRows \in Nat
<1>1. /\ added \in Nat /\ missed \in Nat /\ counted \in Nat /\ lost \in Nat
      /\ named \in Nat /\ stats.stored \in Nat
  BY StoreAssumption DEF StoreTypeOK
<1>. QED  BY <1>1, StoredIsNewParts DEF HistoryDue, KnownRows

LEMMA StoreRowSound ==
    ASSUME StoreInv, NEW m \in Messages, StoreRow(m)
    PROVE  StoreInv'
<1>. SUFFICES StoreSound'
  BY StoreInvParts, PTL
<1>1. StoreTypeOK /\ Counted /\ Local /\ StoreProgress
  BY StoreInvParts DEF StoreSound
<1>2. /\ counted \in Nat /\ lost \in Nat /\ named \in Nat /\ HistoryDue \in Nat
      /\ Cardinality(Kept) \in Nat /\ Cardinality(Due) \in Nat
  BY <1>1, StoreNumbers
<1>3. /\ storing[m] = "due"
      /\ UNCHANGED <<backend, histVars, counted, lost, named, media, files>>
  BY DEF StoreRow
<1>4. UNCHANGED <<HistoryDue, KnownRows>>
  BY <1>3 DEF HistoryDue, KnownRows, histVars
<1>5. CASE Insert(m) /\ storing' = [storing EXCEPT ![m] = IF GivesId(m) THEN "contact"
                                                                         ELSE "stored"]
  <2>1. StoreTypeOK'
    BY <1>1, <1>3, <1>5, InsertStep DEF StoreTypeOK, histVars
  <2>2. Cardinality(Kept') = Cardinality(Kept) + (IF rows[m].kept THEN 0 ELSE 1)
    BY <1>1, <1>5, InsertStep
  <2>3. IF GivesId(m) THEN Cardinality(Due') = Cardinality(Due) + 1 ELSE Due' = Due
    <3>1. CASE GivesId(m)
      BY <1>1, <1>3, <1>5, <3>1, DueGrows
    <3>2. CASE ~GivesId(m)
      BY <1>1, <1>3, <1>5, <3>2 DEF Due, StoreTypeOK
    <3>. QED  BY <3>1, <3>2
  <2>4. Counted'
    BY <1>1, <1>2, <1>3, <1>4, <2>2, <2>3 DEF Counted, GivesId, histVars
  <2>5. Local' /\ StoreProgress'
    BY <1>1, <1>3, <1>5, InsertStep DEF Local, StoreProgress, histVars
  <2>. QED  BY <2>1, <2>4, <2>5 DEF StoreSound
<1>6. CASE storing' = [storing EXCEPT ![m] = "lost"] /\ UNCHANGED <<rows, inserted>>
  <2>1. StoreTypeOK'
    BY <1>1, <1>3, <1>6 DEF StoreTypeOK, histVars
  <2>2. Due' = Due /\ Kept' = Kept
    BY <1>1, <1>3, <1>6 DEF Due, Kept, StoreTypeOK
  <2>3. Counted' /\ Local' /\ StoreProgress'
    BY <1>1, <1>3, <1>4, <1>6, <2>2 DEF Counted, Local, StoreProgress, histVars
  <2>. QED  BY <2>1, <2>3 DEF StoreSound
<1>. QED  BY <1>5, <1>6 DEF StoreRow

LEMMA StoreContactSound ==
    ASSUME StoreInv, NEW m \in Messages, StoreContact(m)
    PROVE  StoreInv'
<1>. SUFFICES StoreSound'
  BY StoreInvParts, PTL
<1>1. StoreTypeOK /\ Counted /\ Local /\ StoreProgress
  BY StoreInvParts DEF StoreSound
<1>2. /\ counted \in Nat /\ lost \in Nat /\ named \in Nat /\ HistoryDue \in Nat
      /\ Cardinality(Kept) \in Nat /\ Cardinality(Due) \in Nat
  BY <1>1, StoreNumbers
<1>3. /\ storing[m] = "contact" /\ storing' = [storing EXCEPT ![m] = "stored"]
      /\ UNCHANGED <<backend, inserted, rows, histVars, named, media, files>>
  BY DEF StoreContact
<1>4. UNCHANGED <<HistoryDue, KnownRows, Kept>>
  BY <1>3 DEF HistoryDue, KnownRows, Kept, histVars
<1>5. Cardinality(Due') = Cardinality(Due) - 1
  BY <1>1, <1>3, DueShrinks
<1>6. \/ counted' = counted + 1 /\ lost' = lost
      \/ counted' = counted /\ lost' = lost + 1
  BY DEF StoreContact, UpsertContact
<1>7. StoreTypeOK'
  BY <1>1, <1>2, <1>3, <1>6 DEF StoreTypeOK, histVars
<1>8. Counted'
  BY <1>1, <1>2, <1>3, <1>4, <1>5, <1>6 DEF Counted, histVars
<1>9. Local' /\ StoreProgress'
  BY <1>1, <1>3 DEF Local, StoreProgress, histVars
<1>. QED  BY <1>7, <1>8, <1>9 DEF StoreSound

(* The job goes on with the next message, if there is one.                 *)
LEMMA ContinuesStep ==
    ASSUME NEW rest, Continues(rest)
    PROVE  hist' \in {"row", "ended"}
BY DEF Continues

LEMMA StatsSteps ==
    ASSUME StoreTypeOK
    PROVE  /\ Stored => /\ stats' \in [stored : Nat, duplicates : Nat]
                        /\ stats'.stored = stats.stored + 1
           /\ Duplicate => /\ stats' \in [stored : Nat, duplicates : Nat]
                           /\ stats'.stored = stats.stored
BY DEF StoreTypeOK, Stored, Duplicate

LEMMA HistoryRowSound ==
    ASSUME StoreInv, HistoryRow
    PROVE  StoreInv'
<1>. SUFFICES StoreSound'
  BY StoreInvParts, PTL
<1>1. StoreTypeOK /\ Counted /\ Local /\ StoreProgress
  BY StoreInvParts DEF StoreSound
<1>2. /\ counted \in Nat /\ lost \in Nat /\ named \in Nat /\ added \in Nat
      /\ missed \in Nat /\ stats.stored \in Nat
      /\ Cardinality(Kept) \in Nat /\ Cardinality(Due) \in Nat
  BY <1>1, StoreNumbers
<1>3. /\ hist = "row"
      /\ UNCHANGED <<backend, storing, missed, counted, lost, named, media, files>>
  BY DEF HistoryRow
<1>4. Due' = Due /\ HistoryDue = 0 /\ KnownRows = stats.stored + missed
  BY <1>2, <1>3 DEF Due, HistoryDue, KnownRows
<1>5. PICK m \in todo :
        /\ todo' = todo \ {m}
        /\ \/ /\ GivesId(m) /\ Insert(m)
              /\ IF rows[m].kept THEN hist' = "old" /\ UNCHANGED added
                                 ELSE hist' = "new" /\ added' = added + 1
              /\ UNCHANGED stats
           \/ /\ ~GivesId(m) /\ Insert(m)
              /\ Continues(todo \ {m}) /\ Duplicate /\ UNCHANGED added
           \/ /\ Continues(todo \ {m}) /\ Duplicate
              /\ UNCHANGED <<rows, inserted, added>>
  BY DEF HistoryRow
<1>6. m \in Messages /\ todo' \subseteq Messages
  BY <1>1, <1>5 DEF StoreTypeOK
<1>7. CASE /\ GivesId(m) /\ Insert(m) /\ UNCHANGED stats
           /\ IF rows[m].kept THEN hist' = "old" /\ UNCHANGED added
                              ELSE hist' = "new" /\ added' = added + 1
  <2>1. StoreTypeOK'
    BY <1>1, <1>2, <1>3, <1>6, <1>7, InsertStep DEF StoreTypeOK
  <2>2. Cardinality(Kept') = Cardinality(Kept) + (IF rows[m].kept THEN 0 ELSE 1)
    BY <1>1, <1>6, <1>7, InsertStep
  <2>3. HistoryDue' = 1
    BY <1>7 DEF HistoryDue
  <2>4. KnownRows' = KnownRows + (IF rows[m].kept THEN 0 ELSE 1)
    BY <1>2, <1>3, <1>4, <1>7 DEF KnownRows
  <2>5. Counted'
    BY <1>1, <1>2, <1>3, <1>4, <1>7, <2>2, <2>3, <2>4 DEF Counted, GivesId
  <2>6. Local' /\ StoreProgress'
    BY <1>1, <1>3, <1>6, <1>7, InsertStep DEF Local, StoreProgress, GivesId
  <2>. QED  BY <2>1, <2>5, <2>6 DEF StoreSound
<1>8. CASE /\ Continues(todo \ {m}) /\ Duplicate /\ UNCHANGED added
           /\ (~GivesId(m) /\ Insert(m)) \/ UNCHANGED <<rows, inserted>>
  <2>1. hist' \in {"row", "ended"} /\ stats' \in [stored : Nat, duplicates : Nat]
        /\ stats'.stored = stats.stored
    BY <1>1, <1>8, ContinuesStep, StatsSteps
  <2>2. /\ rows' \in [Messages -> [kept : BOOLEAN, ids : BOOLEAN, synced : BOOLEAN,
                                   local : BOOLEAN]]
        /\ inserted' \in BOOLEAN
        /\ \A n \in Messages : rows'[n].kept = rows[n].kept /\ rows'[n].local = rows[n].local
    <3>1. CASE ~GivesId(m) /\ Insert(m)
      <4>1. rows[m].kept
        BY <3>1 DEF GivesId
      <4>2. \A n \in Messages : rows[n].kept \in BOOLEAN
        BY <1>1 DEF StoreTypeOK
      <4>. QED  BY <1>1, <1>6, <3>1, <4>1, <4>2, InsertStep
    <3>2. CASE UNCHANGED <<rows, inserted>>
      BY <1>1, <3>2 DEF StoreTypeOK
    <3>. QED  BY <1>8, <3>1, <3>2
  <2>3. StoreTypeOK'
    BY <1>1, <1>2, <1>3, <1>6, <1>8, <2>1, <2>2 DEF StoreTypeOK
  <2>4. Kept' = Kept /\ HistoryDue' = 0 /\ KnownRows' = KnownRows
    BY <1>2, <1>3, <1>4, <2>1, <2>2 DEF Kept, HistoryDue, KnownRows
  <2>5. Counted'
    BY <1>1, <1>3, <1>4, <1>8, <2>4 DEF Counted
  <2>6. Local' /\ StoreProgress'
    BY <1>1, <1>3, <2>1, <2>2 DEF Local, StoreProgress
  <2>. QED  BY <2>3, <2>5, <2>6 DEF StoreSound
<1>. QED  BY <1>5, <1>7, <1>8

LEMMA HistoryContactSound ==
    ASSUME StoreInv, HistoryContact
    PROVE  StoreInv'
<1>. SUFFICES StoreSound'
  BY StoreInvParts, PTL
<1>1. StoreTypeOK /\ Counted /\ Local /\ StoreProgress
  BY StoreInvParts DEF StoreSound
<1>2. /\ counted \in Nat /\ lost \in Nat /\ named \in Nat /\ added \in Nat
      /\ missed \in Nat /\ stats.stored \in Nat
      /\ Cardinality(Kept) \in Nat /\ Cardinality(Due) \in Nat
  BY <1>1, StoreNumbers
<1>3. /\ hist \in {"new", "old"} /\ Continues(todo)
      /\ UNCHANGED <<backend, inserted, rows, storing, todo, added, named, media, files>>
  BY DEF HistoryContact
<1>4. hist' \in {"row", "ended"}
  BY <1>3, ContinuesStep
<1>5. Due' = Due /\ Kept' = Kept /\ HistoryDue = 1 /\ HistoryDue' = 0
  BY <1>3, <1>4 DEF Due, Kept, HistoryDue
<1>6. \/ counted' = counted + 1 /\ Stored /\ UNCHANGED <<lost, missed>>
      \/ /\ lost' = lost + 1 /\ Duplicate /\ UNCHANGED counted
         /\ missed' = IF hist = "new" THEN missed + 1 ELSE missed
  BY DEF HistoryContact, UpsertContact
<1>7. stats' \in [stored : Nat, duplicates : Nat]
  BY <1>1, <1>6, StatsSteps
<1>8. StoreTypeOK'
  BY <1>1, <1>2, <1>3, <1>4, <1>6, <1>7 DEF StoreTypeOK
<1>9. IF hist = "new" THEN KnownRows' = KnownRows
                      ELSE KnownRows' \in {KnownRows, KnownRows + 1}
  <2>1. \/ stats'.stored = stats.stored + 1 /\ missed' = missed
        \/ stats'.stored = stats.stored
           /\ missed' = IF hist = "new" THEN missed + 1 ELSE missed
    BY <1>1, <1>6, StatsSteps
  <2>. QED  BY <1>2, <1>3, <1>4, <2>1 DEF KnownRows
<1>10. KnownRows \in Nat
  BY <1>1, StoreNumbers
<1>11. Counted'
  BY <1>1, <1>2, <1>3, <1>5, <1>6, <1>9, <1>10 DEF Counted, StoreProgress
<1>12. Local' /\ StoreProgress'
  BY <1>1, <1>3, <1>4 DEF Local, StoreProgress
<1>. QED  BY <1>8, <1>11, <1>12 DEF StoreSound

LEMMA SyncSound ==
    ASSUME StoreInv, BeginHistory \/ ContactsSync
    PROVE  StoreInv'
<1>. SUFFICES StoreSound'
  BY StoreInvParts, PTL
<1>1. StoreTypeOK /\ Counted /\ Local /\ StoreProgress
  BY StoreInvParts DEF StoreSound
<1>2. /\ counted \in Nat /\ lost \in Nat /\ named \in Nat /\ added \in Nat
      /\ missed \in Nat /\ stats.stored \in Nat /\ HistoryDue \in Nat
      /\ Cardinality(Kept) \in Nat /\ Cardinality(Due) \in Nat
  BY <1>1, StoreNumbers
<1>3. CASE BeginHistory
  <2>1. /\ hist = "off" /\ hist' = "row" /\ todo' \subseteq Messages
        /\ UNCHANGED <<backend, inserted, rows, storing, stats, added, missed, counted,
                       lost, named, media, files>>
    BY <1>3 DEF BeginHistory
  <2>2. StoreTypeOK'
    BY <1>1, <2>1 DEF StoreTypeOK
  <2>3. Counted'
    BY <1>1, <2>1 DEF Counted, Kept, Due, HistoryDue, KnownRows
  <2>. QED  BY <1>1, <2>1, <2>2, <2>3 DEF Local, StoreProgress, StoreSound
<1>4. CASE ContactsSync
  <2>1. /\ named < MaxContacts /\ named' = named + 1
        /\ \/ counted' = counted + 1 /\ lost' = lost
           \/ counted' = counted /\ lost' = lost + 1
        /\ UNCHANGED <<backend, inserted, rows, storing, histVars, media, files>>
    BY <1>4 DEF ContactsSync, UpsertContact
  <2>2. StoreTypeOK'
    BY <1>1, <1>2, <2>1, StoreAssumption DEF StoreTypeOK, histVars
  <2>3. UNCHANGED <<Kept, Due, HistoryDue, KnownRows>>
    BY <2>1 DEF Kept, Due, HistoryDue, KnownRows, histVars
  <2>4. Counted'
    BY <1>1, <1>2, <2>1, <2>3 DEF Counted, histVars
  <2>. QED  BY <1>1, <2>1, <2>2, <2>4 DEF Local, StoreProgress, StoreSound, histVars
<1>. QED  BY <1>3, <1>4

(* Steps that neither insert a row nor write a contact.                    *)
LEMMA StoreFrame ==
    ASSUME StoreInv, UNCHANGED <<backend, histVars, counted, lost, named>>,
           inserted' \in BOOLEAN,
           rows' \in [Messages -> [kept : BOOLEAN, ids : BOOLEAN, synced : BOOLEAN,
                                   local : BOOLEAN]],
           \A m \in Messages : rows'[m].kept = rows[m].kept,
           storing' \in [Messages -> {"none", "due", "contact", "stored", "lost"}],
           \A m \in Messages : storing'[m] = "contact" <=> storing[m] = "contact",
           media' \in [Messages -> {"none", "due", "cached", "done"}],
           files' \subseteq Messages, files \subseteq files',
           \A m \in Messages : media'[m] = "cached" => m \in files',
           \A m \in Messages : rows'[m].local => rows[m].kept /\ m \in files'
    PROVE  StoreInv'
<1>. SUFFICES StoreSound'
  BY StoreInvParts, PTL
<1>1. StoreTypeOK /\ Counted /\ Local /\ StoreProgress
  BY StoreInvParts DEF StoreSound
<1>2. StoreTypeOK'
  BY <1>1 DEF StoreTypeOK, histVars
<1>3. UNCHANGED <<Kept, Due, HistoryDue, KnownRows>>
  BY DEF Kept, Due, HistoryDue, KnownRows, histVars
<1>4. Counted'
  BY <1>1, <1>3 DEF Counted, histVars
<1>5. Local' /\ StoreProgress'
  BY <1>1 DEF Local, StoreProgress, histVars
<1>. QED  BY <1>2, <1>4, <1>5 DEF StoreSound

LEMMA MediaSound ==
    ASSUME StoreInv, NEW m \in Messages, CacheMedia(m) \/ SaveMediaUrl(m)
    PROVE  StoreInv'
<1>1. StoreTypeOK /\ Local /\ StoreProgress
  BY StoreInvParts DEF StoreSound
<1>2. CASE CacheMedia(m)
  BY <1>1, <1>2, StoreFrame DEF CacheMedia, StoreTypeOK, Local, StoreProgress
<1>3. CASE SaveMediaUrl(m)
  BY <1>1, <1>3, StoreFrame, SMTT(30) DEF SaveMediaUrl, StoreTypeOK, Local, StoreProgress
<1>. QED  BY <1>2, <1>3

LEMMA OtherInsertSound == StoreInv /\ OtherInsert => StoreInv'
<1>. SUFFICES ASSUME StoreInv, OtherInsert PROVE StoreInv'
  OBVIOUS
<1>1. StoreTypeOK /\ Local /\ StoreProgress
  BY StoreInvParts DEF StoreSound
<1>. QED  BY <1>1, StoreFrame DEF OtherInsert, StoreTypeOK, Local, StoreProgress

LEMMA StoreWorkSound == StoreInv /\ StoreWork => StoreInv'
BY StoreRowSound, StoreContactSound, HistoryRowSound, HistoryContactSound, MediaSound,
   OtherInsertSound
   DEF StoreWork

LEMMA StoreStays == StoreInv /\ UNCHANGED storeVars => StoreInv'
<1>. SUFFICES ASSUME StoreInv, UNCHANGED storeVars PROVE StoreInv'
  OBVIOUS
<1>1. StoreTypeOK /\ Local /\ StoreProgress
  BY StoreInvParts DEF StoreSound
<1>. QED  BY <1>1, StoreFrame DEF storeVars, StoreTypeOK, Local, StoreProgress

LEMMA StoreCrashSound ==
    ASSUME StoreInv, StoreCrash
    PROVE  StoreInv'
<1>. SUFFICES StoreSound'
  BY StoreInvParts, PTL
<1>1. StoreTypeOK /\ Counted /\ Local /\ StoreProgress
  BY StoreInvParts DEF StoreSound
<1>2. /\ counted \in Nat /\ lost \in Nat /\ named \in Nat /\ HistoryDue \in Nat
      /\ Cardinality(Kept) \in Nat /\ Cardinality(Due) \in Nat
  BY <1>1, StoreNumbers
<1>3. /\ inserted' = FALSE
      /\ hist' \in {"off", "ended"} /\ todo' = {} /\ stats' = NoStats
      /\ added' = 0 /\ missed' = 0
      /\ UNCHANGED <<backend, rows, counted, named, files>>
  BY DEF StoreCrash
<1>4. lost' = lost + (Cardinality(Due) + HistoryDue)
  BY DEF StoreCrash, Between, Due, HistoryDue
<1>5. /\ storing' \in [Messages -> {"none", "stored", "lost"}]
      /\ media' \in [Messages -> {"none", "done"}]
  BY DEF StoreCrash
<1>6. StoreTypeOK'
  <2>1. NoStats \in [stored : Nat, duplicates : Nat] /\ lost' \in Nat
    BY <1>2, <1>4 DEF NoStats
  <2>2. storing' \in [Messages -> {"none", "due", "contact", "stored", "lost"}]
    BY <1>5
  <2>3. media' \in [Messages -> {"none", "due", "cached", "done"}]
    BY <1>5
  <2>4. /\ hist' \in {"off", "row", "new", "old", "ended"} /\ todo' \subseteq Messages
        /\ {added, missed, counted, lost}' \subseteq Nat
    BY <1>2, <1>3, <2>1
  <2>. QED  BY <1>1, <1>3, <2>1, <2>2, <2>3, <2>4 DEF StoreTypeOK
<1>7. Due' = {} /\ Kept' = Kept /\ HistoryDue' = 0 /\ KnownRows' = 0
  BY <1>3, <1>5 DEF Due, Kept, HistoryDue, KnownRows, NoStats
<1>8. Counted'
  BY <1>1, <1>2, <1>3, <1>4, <1>7, FS_EmptySet DEF Counted
<1>9. Local' /\ StoreProgress'
  BY <1>1, <1>3, <1>5 DEF Local, StoreProgress
<1>. QED  BY <1>6, <1>8, <1>9 DEF StoreSound

-----------------------------------------------------------------------------
(***************************************************************************)
(* The conversation of the contact.                                        *)
(***************************************************************************)
Stages == {"idle", "find", "create", "look", "new", "open", "post", "note", "done"}

LEMMA GoesStep ==
    ASSUME ChatwootTypeOK, NEW w \in Workers, NEW stage \in Stages, Goes(w, stage)
    PROVE  /\ at' \in [Workers -> Stages] /\ at'[w] = stage
           /\ \A v \in Workers \ {w} : at'[v] = at[v]
BY DEF Goes, ChatwootTypeOK, Stages

LEMMA EndsStep ==
    ASSUME ChatwootTypeOK, NEW w \in Workers, Ends(w)
    PROVE  /\ at' \in [Workers -> Stages]
           /\ at'[w] = IF w \in Jobs THEN "idle" ELSE "done"
           /\ \A v \in Workers \ {w} : at'[v] = at[v]
BY DEF Ends, Goes, ChatwootTypeOK, Stages

(* The steps after which nobody is about to create who was not.            *)
LEMMA ConvFrame ==
    ASSUME ConvInv, ChatwootTypeOK, reopen' = reopen, blind' = blind, convs' = convs,
           \A w \in Workers : at'[w] = "new" => at[w] = "new"
    PROVE  ConvInv'
BY DEF ConvInv, OneConversation, OneCreator

(* The steps that make no copy and read no messages to copy.               *)
LEMMA CopyFrame ==
    ASSUME CopyInv, ChatwootTypeOK, UNCHANGED <<left, now, copies, doubt>>,
           \A j \in Jobs : /\ at'[j] = "note" <=> at[j] = "note"
                           /\ at'[j] # "idle" => at[j] # "idle",
           \A m \in Messages :
              /\ rows'[m].synced = rows[m].synced
              /\ at'[m] = "note" =>
                    m \notin outgoing' /\ (m \in live' \/ erased'[m] = "done")
              /\ rows'[m].ids =>
                    /\ rows'[m].kept /\ m \notin outgoing'
                    /\ m \in live' \/ erased'[m] = "done"
    PROVE  CopyInv'
<1>1. CopiesAccounted'
  BY DEF CopyInv, CopiesAccounted
<1>2. Holding'
  BY DEF CopyInv, Holding
<1>3. Doubtful'
  BY DEF CopyInv, Doubtful, Held
<1>4. Noting'
  BY DEF Noting
<1>. QED  BY <1>1, <1>2, <1>3, <1>4 DEF CopyInv

LEMMA WorkerKinds ==
    /\ Messages \subseteq Workers /\ Receipts \subseteq Workers /\ Jobs \subseteq Workers
    /\ \A m \in Messages : m \notin Jobs /\ m \notin Receipts
    /\ \A r \in Receipts : r \notin Jobs /\ r \notin Messages
BY ChatwootAssumption DEF Workers

(* The way to the conversation, which leads a worker neither to "note" nor *)
(* a job out of "idle", and never changes what has been copied.            *)
LEMMA WayFrame ==
    ASSUME ChatInv, NEW w \in Workers, at[w] \notin {"idle", "note"},
           at' \in [Workers -> Stages], at'[w] # "note",
           \A v \in Workers \ {w} : at'[v] = at[v],
           UNCHANGED <<rows, outgoing, left, now, live, copies, erased, doubt>>
    PROVE  CopyInv'
<1>1. CopiesAccounted /\ Noting
  BY DEF ChatInv, CopyInv
<1>2. \A m \in Messages : at'[m] = "note" => at[m] = "note"
  BY WorkerKinds
<1>3. \A j \in Jobs : /\ at'[j] = "note" <=> at[j] = "note"
                      /\ at'[j] # "idle" => at[j] # "idle"
  BY WorkerKinds
<1>4. \A m \in Messages :
         /\ rows'[m].synced = rows[m].synced
         /\ at'[m] = "note" => m \notin outgoing' /\ (m \in live' \/ erased'[m] = "done")
         /\ rows'[m].ids => /\ rows'[m].kept /\ m \notin outgoing'
                            /\ m \in live' \/ erased'[m] = "done"
  BY <1>1, <1>2 DEF CopiesAccounted, Noting
<1>. QED  BY <1>3, <1>4, CopyFrame DEF ChatInv

LEMMA WayStep ==
    ASSUME ChatInv, UNCHANGED rows, NEW w \in Workers, Find(w) \/ Create(w) \/ Open(w)
    PROVE  ChatInv'
<1>1. /\ at[w] \in {"find", "create", "open"}
      /\ UNCHANGED <<reopen, outgoing, left, now, convs, live, copies, erased, blind,
                     doubt>>
      /\ contact' \in BOOLEAN /\ resolved' \in BOOLEAN
      /\ Ends(w) \/ \E stage \in {"look", "create", "post"} : Goes(w, stage)
  BY DEF ChatInv, ChatwootTypeOK, Find, Create, Open
<1>2. /\ at' \in [Workers -> Stages]
      /\ at'[w] \in {"look", "create", "post", "idle", "done"}
      /\ \A v \in Workers \ {w} : at'[v] = at[v]
  <2>1. CASE Ends(w)
    BY <2>1, EndsStep DEF ChatInv
  <2>2. ASSUME NEW stage \in {"look", "create", "post"}, Goes(w, stage)
        PROVE  /\ at' \in [Workers -> Stages]
               /\ at'[w] \in {"look", "create", "post", "idle", "done"}
               /\ \A v \in Workers \ {w} : at'[v] = at[v]
    <3>1. stage \in Stages
      BY DEF Stages
    <3>. QED  BY <2>2, <3>1, GoesStep DEF ChatInv
  <2>. QED  BY <1>1, <2>1, <2>2
<1>3. ChatwootTypeOK'
  BY <1>1, <1>2 DEF ChatInv, ChatwootTypeOK, Stages
<1>4. ConvInv'
  BY <1>1, <1>2, ConvFrame DEF ChatInv
<1>5. CopyInv'
  BY <1>1, <1>2, WayFrame
<1>. QED  BY <1>3, <1>4, <1>5 DEF ChatInv

LEMMA LookStep ==
    ASSUME ChatInv, UNCHANGED rows, NEW w \in Workers, Look(w)
    PROVE  ChatInv'
<1>1. /\ at[w] = "look"
      /\ UNCHANGED <<reopen, outgoing, left, now, contact, convs, resolved, live,
                     copies, erased, doubt>>
      /\ \/ Goes(w, "open") /\ blind' = blind
         \/ Goes(w, "post") /\ blind' = blind
         \/ Ends(w) /\ blind' = blind
         \/ /\ ~(reopen /\ Found) /\ Goes(w, "new")
            /\ blind' = (blind \/ \E v \in Workers \ {w} : at[v] = "new")
         \/ Goes(w, "new") /\ blind' = TRUE
  BY DEF Look
<1>2. at' \in [Workers -> Stages] /\ \A v \in Workers \ {w} : at'[v] = at[v]
  BY <1>1, GoesStep, EndsStep DEF ChatInv, Stages
<1>3. \/ at'[w] # "new" /\ at'[w] # "note" /\ blind' = blind
      \/ /\ ~(reopen /\ Found) /\ at'[w] = "new"
         /\ blind' = (blind \/ \E v \in Workers \ {w} : at[v] = "new")
      \/ at'[w] = "new" /\ blind' = TRUE
  BY <1>1, GoesStep, EndsStep DEF ChatInv, Stages
<1>4. blind' \in BOOLEAN
  BY <1>1 DEF ChatInv, ChatwootTypeOK
<1>5. ChatwootTypeOK'
  BY <1>1, <1>2, <1>4 DEF ChatInv, ChatwootTypeOK, Stages
<1>6. ConvInv'
  <2>1. CASE at'[w] # "new" /\ blind' = blind
    BY <1>1, <1>2, <2>1, ConvFrame DEF ChatInv
  <2>2. CASE /\ ~(reopen /\ Found) /\ at'[w] = "new"
             /\ blind' = (blind \/ \E v \in Workers \ {w} : at[v] = "new")
    BY <1>1, <1>2, <2>2, ChatwootAssumption
       DEF ChatInv, ChatwootTypeOK, ConvInv, OneConversation, OneCreator, Found
  <2>3. CASE blind' = TRUE
    BY <2>3 DEF ConvInv, OneConversation, OneCreator
  <2>. QED  BY <1>3, <2>1, <2>2, <2>3
<1>7. CopyInv'
  BY <1>1, <1>2, <1>3, WayFrame
<1>. QED  BY <1>5, <1>6, <1>7 DEF ChatInv

LEMMA NewStep ==
    ASSUME ChatInv, UNCHANGED rows, NEW w \in Workers, New(w)
    PROVE  ChatInv'
<1>1. /\ at[w] = "new"
      /\ UNCHANGED <<reopen, outgoing, left, now, contact, live, copies, erased, blind,
                     doubt>>
      /\ Goes(w, "post") \/ Ends(w)
      /\ \/ convs < MaxConvs /\ convs' = convs + 1 /\ resolved' = FALSE
         \/ convs' = convs /\ resolved' = resolved
  BY DEF New
<1>2. /\ at' \in [Workers -> Stages] /\ \A v \in Workers \ {w} : at'[v] = at[v]
      /\ at'[w] \in {"post", "idle", "done"}
  BY <1>1, GoesStep, EndsStep DEF ChatInv, Stages
<1>3. ChatwootTypeOK'
  <2>1. convs' \in 0 .. MaxConvs /\ resolved' \in BOOLEAN
    <3>1. MaxConvs \in Nat /\ convs \in 0 .. MaxConvs /\ resolved \in BOOLEAN
      BY ChatwootAssumption DEF ChatInv, ChatwootTypeOK
    <3>2. convs' \in 0 .. MaxConvs
      BY <1>1, <3>1
    <3>3. resolved' \in BOOLEAN
      BY <1>1, <3>1
    <3>. QED  BY <3>2, <3>3
  <2>. QED  BY <1>1, <1>2, <2>1 DEF ChatInv, ChatwootTypeOK, Stages
<1>4. ConvInv'
  BY <1>1, <1>2, ChatwootAssumption
     DEF ChatInv, ChatwootTypeOK, ConvInv, OneConversation, OneCreator
<1>5. CopyInv'
  BY <1>1, <1>2, WayFrame
<1>. QED  BY <1>3, <1>4, <1>5 DEF ChatInv

(***************************************************************************)
(* The copies.                                                             *)
(***************************************************************************)
LEMMA LiveStep ==
    ASSUME ChatInv, UNCHANGED rows, NEW m \in Messages, PostLive(m)
    PROVE  ChatInv'
<1>. USE WorkerKinds
<1>1. /\ at[m] = "post"
      /\ UNCHANGED <<reopen, outgoing, left, now, contact, convs, resolved, copies,
                     erased, blind, doubt>>
      /\ \/ /\ live' = live \cup {m}
            /\ Goes(m, IF m \in outgoing THEN "done" ELSE "note") \/ Ends(m)
         \/ live' = live /\ Ends(m)
  BY DEF PostLive
<1>2. /\ at' \in [Workers -> Stages] /\ \A v \in Workers \ {m} : at'[v] = at[v]
      /\ at'[m] \in {"done", "note"}
      /\ at'[m] = "note" => m \notin outgoing /\ m \in live'
  BY <1>1, GoesStep, EndsStep DEF ChatInv, Stages
<1>3. ChatwootTypeOK'
  BY <1>1, <1>2 DEF ChatInv, ChatwootTypeOK, Stages
<1>4. ConvInv'
  BY <1>1, <1>2, ConvFrame DEF ChatInv
<1>5. live \subseteq live'
  BY <1>1
<1>6. CopyInv'
  BY <1>1, <1>2, <1>5, CopyFrame DEF ChatInv, CopyInv, CopiesAccounted, Noting
<1>. QED  BY <1>3, <1>4, <1>6 DEF ChatInv

LEMMA NoteStep ==
    ASSUME ChatInv, StoreTypeOK, NEW m \in Messages, NoteIds(m)
    PROVE  /\ ChatInv'
           /\ rows' \in [Messages -> [kept : BOOLEAN, ids : BOOLEAN, synced : BOOLEAN,
                                      local : BOOLEAN]]
           /\ \A n \in Messages : /\ rows'[n].kept = rows[n].kept
                                  /\ rows'[n].local = rows[n].local
                                  /\ n # m => rows'[n].ids = rows[n].ids
<1>. USE WorkerKinds
<1>1. /\ at[m] = "note" /\ Ends(m)
      /\ UNCHANGED <<reopen, outgoing, left, now, contact, convs, resolved, live,
                     copies, erased, blind, doubt>>
      /\ \/ rows' = [rows EXCEPT ![m].ids = rows[m].kept]
         \/ rows' = rows
  BY DEF NoteIds
<1>2. /\ at' \in [Workers -> Stages] /\ \A v \in Workers \ {m} : at'[v] = at[v]
      /\ at'[m] = "done"
  BY <1>1, EndsStep DEF ChatInv
<1>3. /\ rows' \in [Messages -> [kept : BOOLEAN, ids : BOOLEAN, synced : BOOLEAN,
                                 local : BOOLEAN]]
      /\ \A n \in Messages : /\ rows'[n].kept = rows[n].kept
                             /\ rows'[n].local = rows[n].local
                             /\ rows'[n].synced = rows[n].synced
                             /\ n # m => rows'[n].ids = rows[n].ids
      /\ rows'[m].ids \in {rows[m].ids, rows[m].kept}
  BY <1>1 DEF StoreTypeOK
<1>4. ChatwootTypeOK'
  BY <1>1, <1>2 DEF ChatInv, ChatwootTypeOK, Stages
<1>5. ConvInv'
  BY <1>1, <1>2, ConvFrame DEF ChatInv
<1>6. CopyInv'
  BY <1>1, <1>2, <1>3, CopyFrame DEF ChatInv, CopyInv, CopiesAccounted, Noting
<1>. QED  BY <1>3, <1>4, <1>5, <1>6 DEF ChatInv

LEMMA SeenStep ==
    ASSUME ChatInv, UNCHANGED rows, NEW r \in Receipts, SeenUntil(r)
    PROVE  ChatInv'
<1>. USE WorkerKinds
<1>1. /\ at[r] = "post" /\ Ends(r)
      /\ UNCHANGED <<reopen, outgoing, left, now, contact, convs, resolved, live,
                     copies, erased, blind, doubt>>
  BY DEF SeenUntil
<1>2. /\ at' \in [Workers -> Stages] /\ \A v \in Workers \ {r} : at'[v] = at[v]
      /\ at'[r] = "done"
  BY <1>1, EndsStep DEF ChatInv
<1>3. ChatwootTypeOK'
  BY <1>1, <1>2 DEF ChatInv, ChatwootTypeOK, Stages
<1>4. ConvInv'
  BY <1>1, <1>2, ConvFrame DEF ChatInv
<1>5. CopyInv'
  BY <1>1, <1>2, WayFrame
<1>. QED  BY <1>3, <1>4, <1>5 DEF ChatInv

LEMMA EraseStep ==
    ASSUME ChatInv, UNCHANGED rows, NEW m \in Messages, ReadIds(m) \/ DeleteCopy(m)
    PROVE  ChatInv'
<1>1. /\ UNCHANGED <<reopen, outgoing, at, left, now, contact, convs, resolved, copies,
                     blind, doubt>>
      /\ erased[m] \in {"read", "delete"}
      /\ \E stage \in {"delete", "done"} : erased' = [erased EXCEPT ![m] = stage]
      /\ live' = live \/ (live' = live \ {m} /\ erased' = [erased EXCEPT ![m] = "done"])
  BY DEF ReadIds, DeleteCopy
<1>2. /\ erased' \in [Messages -> {"none", "read", "delete", "done"}]
      /\ \A n \in Messages \ {m} : erased'[n] = erased[n]
      /\ \A n \in Messages : n \in live \ live' => erased'[n] = "done"
      /\ live' \subseteq live
  BY <1>1 DEF ChatInv, ChatwootTypeOK
<1>3. ChatwootTypeOK'
  BY <1>1, <1>2 DEF ChatInv, ChatwootTypeOK
<1>4. ConvInv'
  BY <1>1, ConvFrame DEF ChatInv
<1>5. CopyInv'
  BY <1>1, <1>2, CopyFrame DEF ChatInv, CopyInv, CopiesAccounted, Noting
<1>. QED  BY <1>3, <1>4, <1>5 DEF ChatInv

LEMMA ResolveStep ==
    ASSUME ChatInv, UNCHANGED rows, Resolve
    PROVE  ChatInv'
<1>1. /\ UNCHANGED <<reopen, outgoing, at, left, now, contact, convs, live, copies,
                     erased, blind, doubt>>
      /\ resolved' = TRUE
  BY DEF Resolve
<1>2. ChatwootTypeOK'
  BY <1>1 DEF ChatInv, ChatwootTypeOK
<1>3. ConvInv'
  BY <1>1, ConvFrame DEF ChatInv
<1>4. CopyInv'
  BY <1>1, CopyFrame DEF ChatInv, CopyInv, CopiesAccounted, Noting
<1>. QED  BY <1>2, <1>3, <1>4 DEF ChatInv

(* A job reads what is to be copied: what another job holds is in doubt.   *)
LEMMA BeginSyncStep ==
    ASSUME ChatInv, UNCHANGED rows, NEW j \in Jobs, BeginSync(j)
    PROVE  ChatInv'
<1>. USE WorkerKinds
<1>1. /\ at[j] = "idle" /\ Goes(j, "find")
      /\ left' = [left EXCEPT ![j] = Unsynced]
      /\ doubt' = doubt \cup {m \in Unsynced :
                                 \E k \in Jobs \ {j} : at[k] # "idle" /\ m \in Held(k)}
      /\ UNCHANGED <<reopen, outgoing, now, contact, convs, resolved, live, copies,
                     erased, blind>>
  BY DEF BeginSync
<1>2. /\ at' \in [Workers -> Stages] /\ \A v \in Workers \ {j} : at'[v] = at[v]
      /\ at'[j] = "find"
  BY <1>1, GoesStep DEF ChatInv, Stages
<1>3. /\ left' \in [Jobs -> SUBSET Messages] /\ left'[j] = Unsynced
      /\ \A k \in Jobs \ {j} : left'[k] = left[k]
  BY <1>1 DEF ChatInv, ChatwootTypeOK, Unsynced
<1>4. doubt \subseteq doubt' /\ doubt' \subseteq Messages
  BY <1>1 DEF ChatInv, ChatwootTypeOK, Unsynced
<1>5. ChatwootTypeOK'
  BY <1>1, <1>2, <1>3, <1>4 DEF ChatInv, ChatwootTypeOK, Stages
<1>6. ConvInv'
  BY <1>1, <1>2, ConvFrame DEF ChatInv
<1>7. /\ CopiesAccounted /\ Holding /\ Doubtful /\ Noting
  BY DEF ChatInv, CopyInv
<1>8. now[j] = {}
  BY <1>1, <1>7 DEF Holding
<1>9. CopiesAccounted'
  BY <1>1, <1>4, <1>7 DEF CopiesAccounted
<1>10. Holding'
  BY <1>1, <1>2, <1>3, <1>7, <1>8 DEF Holding
<1>11. Noting'
  BY <1>1, <1>2, <1>7 DEF Noting
<1>12. \A m \in Unsynced, k \in Jobs \ {j} :
          at[k] # "idle" /\ m \in Held(k) => m \in doubt'
  BY <1>1
<1>13. Doubtful'
  <2>. SUFFICES ASSUME NEW m \in Messages
                PROVE  /\ copies[m] >= 1 /\ ~rows[m].synced =>
                             m \in doubt' \/ \E k \in Jobs : m \in now[k]
                       /\ \A k \in Jobs :
                             at'[k] # "idle" /\ m \in left'[k] /\ copies[m] >= 1
                             => m \in doubt'
                       /\ \A k, i \in Jobs :
                             /\ k # i /\ at'[k] # "idle" /\ at'[i] # "idle"
                             /\ m \in left'[k] \cup now[k] /\ m \in left'[i] \cup now[i]
                             => m \in doubt'
    BY <1>1 DEF Doubtful, Held
  <2>1. copies[m] >= 1 /\ ~rows[m].synced =>
           m \in doubt' \/ \E k \in Jobs : m \in now[k]
    BY <1>4, <1>7 DEF Doubtful
  <2>2. ASSUME NEW k \in Jobs, at'[k] # "idle", m \in left'[k], copies[m] >= 1
        PROVE  m \in doubt'
    <3>1. CASE k # j
      BY <1>2, <1>3, <1>4, <1>7, <2>2, <3>1 DEF Doubtful
    <3>2. CASE k = j
      <4>1. m \in Unsynced /\ ~rows[m].synced
        BY <1>3, <2>2, <3>2 DEF Unsynced
      <4>2. m \in doubt \/ \E i \in Jobs : m \in now[i]
        BY <1>7, <2>2, <4>1 DEF Doubtful
      <4>3. ASSUME NEW i \in Jobs, m \in now[i] PROVE m \in doubt'
        <5>1. i # j /\ at[i] # "idle"
          BY <1>7, <1>8, <4>3 DEF Holding
        <5>. QED  BY <1>12, <4>1, <4>3, <5>1 DEF Held
      <4>. QED  BY <1>4, <4>2, <4>3
    <3>. QED  BY <3>1, <3>2
  <2>3. ASSUME NEW k \in Jobs, NEW i \in Jobs, k # i, at'[k] # "idle", at'[i] # "idle",
               m \in left'[k] \cup now[k], m \in left'[i] \cup now[i]
        PROVE  m \in doubt'
    <3>1. CASE k # j /\ i # j
      BY <1>2, <1>3, <1>4, <1>7, <2>3, <3>1 DEF Doubtful, Held
    <3>2. CASE k = j
      BY <1>2, <1>3, <1>8, <1>12, <2>3, <3>2 DEF Held
    <3>3. CASE i = j
      BY <1>2, <1>3, <1>8, <1>12, <2>3, <3>3 DEF Held
    <3>. QED  BY <3>1, <3>2, <3>3
  <2>4. \A k \in Jobs : at'[k] # "idle" /\ m \in left'[k] /\ copies[m] >= 1
                       => m \in doubt'
    BY <2>2
  <2>5. \A k, i \in Jobs :
           /\ k # i /\ at'[k] # "idle" /\ at'[i] # "idle"
           /\ m \in left'[k] \cup now[k] /\ m \in left'[i] \cup now[i]
           => m \in doubt'
    BY <2>3
  <2>. QED  BY <2>1, <2>4, <2>5, Zenon
<1>. QED  BY <1>5, <1>6, <1>9, <1>10, <1>11, <1>13 DEF ChatInv, CopyInv

(* A message is copied, with or without an answer, or is not.              *)
LEMMA PostCopyStep ==
    ASSUME ChatInv, UNCHANGED rows, NEW j \in Jobs, PostCopy(j)
    PROVE  ChatInv'
<1>. USE WorkerKinds
<1>1. at[j] = "post"
      /\ UNCHANGED <<reopen, outgoing, contact, convs, resolved, live, erased, blind>>
  BY DEF PostCopy
<1>2. PICK m \in left[j] :
        /\ left' = [left EXCEPT ![j] = left[j] \ {m}]
        /\ \/ /\ copies[m] < MaxCopies
              /\ copies' = [copies EXCEPT ![m] = @ + 1]
              /\ \/ /\ Goes(j, "note")
                    /\ now' = [now EXCEPT ![j] = {m}]
                    /\ UNCHANGED doubt
                 \/ /\ GoesOn(j, left[j] \ {m})
                    /\ doubt' = doubt \cup {m}
                    /\ UNCHANGED now
           \/ GoesOn(j, left[j] \ {m}) /\ UNCHANGED <<copies, now, doubt>>
  BY DEF PostCopy
<1>3. /\ CopiesAccounted /\ Holding /\ Doubtful /\ Noting
  BY DEF ChatInv, CopyInv
<1>4. m \in Messages /\ MaxCopies \in Nat /\ copies[m] \in 0 .. MaxCopies
      /\ left \in [Jobs -> SUBSET Messages] /\ now \in [Jobs -> SUBSET Messages]
      /\ copies \in [Messages -> 0 .. MaxCopies] /\ doubt \subseteq Messages
  BY ChatwootAssumption DEF ChatInv, ChatwootTypeOK
<1>5. now[j] = {}
  BY <1>1, <1>3 DEF Holding
<1>6. /\ left' \in [Jobs -> SUBSET Messages] /\ left'[j] = left[j] \ {m}
      /\ \A k \in Jobs \ {j} : left'[k] = left[k]
  BY <1>2, <1>4
<1>7. GoesOn(j, left[j] \ {m}) => /\ at' \in [Workers -> Stages] /\ at'[j] \in {"idle", "post"}
                                  /\ \A v \in Workers \ {j} : at'[v] = at[v]
  BY GoesStep DEF GoesOn, ChatInv, Stages
<1>8. Goes(j, "note") => /\ at' \in [Workers -> Stages] /\ at'[j] = "note"
                         /\ \A v \in Workers \ {j} : at'[v] = at[v]
  BY GoesStep DEF ChatInv, Stages
<1>9. /\ at' \in [Workers -> Stages] /\ at'[j] \in {"idle", "post", "note"}
      /\ \A v \in Workers \ {j} : at'[v] = at[v]
  BY <1>2, <1>7, <1>8
<1>10. /\ copies' \in [Messages -> 0 .. MaxCopies]
       /\ \A n \in Messages \ {m} : copies'[n] = copies[n]
       /\ copies'[m] \in {copies[m], copies[m] + 1}
       /\ now' \in [Jobs -> SUBSET Messages]
       /\ \A k \in Jobs \ {j} : now'[k] = now[k]
       /\ doubt \subseteq doubt' /\ doubt' \subseteq Messages
  BY <1>2, <1>4
<1>11. \/ /\ copies'[m] = copies[m] + 1 /\ at'[j] = "note" /\ now'[j] = {m}
       \/ /\ copies'[m] = copies[m] + 1 /\ at'[j] # "note" /\ now'[j] = {} /\ m \in doubt'
       \/ /\ copies'[m] = copies[m] /\ at'[j] # "note" /\ now'[j] = {}
  BY <1>2, <1>4, <1>5, <1>7, <1>8
<1>12. ChatwootTypeOK'
  BY <1>1, <1>6, <1>9, <1>10 DEF ChatInv, ChatwootTypeOK, Stages
<1>13. ConvInv'
  BY <1>1, <1>9, ConvFrame DEF ChatInv
<1>14. copies[m] >= 1 => m \in doubt
  BY <1>1, <1>3, <1>4 DEF Doubtful
<1>15. CopiesAccounted'
  BY <1>1, <1>3, <1>4, <1>10, <1>11, <1>14 DEF CopiesAccounted
<1>16. Holding'
  BY <1>3, <1>4, <1>5, <1>6, <1>9, <1>10, <1>11 DEF Holding
<1>17. Noting'
  BY <1>1, <1>3, <1>9 DEF Noting
<1>18. \A k \in Jobs : left'[k] \cup now'[k] \subseteq left[k] \cup now[k]
  BY <1>2, <1>5, <1>6, <1>10, <1>11
<1>19. \A k \in Jobs : at'[k] # "idle" => at[k] # "idle"
  BY <1>1, <1>9
<1>20. Doubtful'
  <2>. SUFFICES ASSUME NEW n \in Messages
                PROVE  /\ copies'[n] >= 1 /\ ~rows[n].synced =>
                             n \in doubt' \/ \E k \in Jobs : n \in now'[k]
                       /\ \A k \in Jobs :
                             at'[k] # "idle" /\ n \in left'[k] /\ copies'[n] >= 1
                             => n \in doubt'
                       /\ \A k, i \in Jobs :
                             /\ k # i /\ at'[k] # "idle" /\ at'[i] # "idle"
                             /\ n \in left'[k] \cup now'[k] /\ n \in left'[i] \cup now'[i]
                             => n \in doubt'
    BY DEF Doubtful, Held
  <2>1. copies'[n] >= 1 /\ ~rows[n].synced =>
           n \in doubt' \/ \E k \in Jobs : n \in now'[k]
    <3>1. CASE n = m
      BY <1>4, <1>10, <1>11, <1>14, <3>1
    <3>2. CASE n # m
      <4>. SUFFICES ASSUME copies[n] >= 1, ~rows[n].synced, n \notin doubt
                    PROVE  \E k \in Jobs : n \in now'[k]
        BY <1>10, <3>2
      <4>1. PICK k \in Jobs : n \in now[k]
        BY <1>3 DEF Doubtful
      <4>. QED  BY <1>5, <1>10, <4>1
    <3>. QED  BY <3>1, <3>2
  <2>2. ASSUME NEW k \in Jobs, at'[k] # "idle", n \in left'[k], copies'[n] >= 1
        PROVE  n \in doubt'
    <3>1. n \in left[k] /\ at[k] # "idle"
      BY <1>6, <1>19, <2>2
    <3>2. CASE n # m
      BY <1>3, <1>10, <2>2, <3>1, <3>2 DEF Doubtful
    <3>3. CASE n = m
      <4>1. k # j
        BY <1>6, <2>2, <3>3
      <4>. QED  BY <1>1, <1>2, <1>3, <1>10, <3>1, <3>3, <4>1 DEF Doubtful, Held
    <3>. QED  BY <3>2, <3>3
  <2>3. ASSUME NEW k \in Jobs, NEW i \in Jobs, k # i, at'[k] # "idle", at'[i] # "idle",
               n \in left'[k] \cup now'[k], n \in left'[i] \cup now'[i]
        PROVE  n \in doubt'
    BY <1>3, <1>10, <1>18, <1>19, <2>3 DEF Doubtful, Held
  <2>4. \A k \in Jobs : at'[k] # "idle" /\ n \in left'[k] /\ copies'[n] >= 1
                       => n \in doubt'
    BY <2>2
  <2>5. \A k, i \in Jobs :
           /\ k # i /\ at'[k] # "idle" /\ at'[i] # "idle"
           /\ n \in left'[k] \cup now'[k] /\ n \in left'[i] \cup now'[i]
           => n \in doubt'
    BY <2>3
  <2>. QED  BY <2>1, <2>4, <2>5, Zenon
<1>. QED  BY <1>12, <1>13, <1>15, <1>16, <1>17, <1>20 DEF ChatInv, CopyInv

(* A copy is marked, or is in doubt.                                       *)
LEMMA MarkCopyStep ==
    ASSUME ChatInv, StoreTypeOK, NEW j \in Jobs, MarkCopy(j)
    PROVE  /\ ChatInv'
           /\ rows' \in [Messages -> [kept : BOOLEAN, ids : BOOLEAN, synced : BOOLEAN,
                                      local : BOOLEAN]]
           /\ \A n \in Messages : /\ rows'[n].kept = rows[n].kept
                                  /\ rows'[n].local = rows[n].local
                                  /\ rows'[n].ids = rows[n].ids
<1>. USE WorkerKinds
<1>1. /\ at[j] = "note" /\ GoesOn(j, left[j])
      /\ now' = [now EXCEPT ![j] = {}]
      /\ UNCHANGED <<reopen, outgoing, left, contact, convs, resolved, live, copies,
                     erased, blind>>
      /\ \/ /\ rows' = [m \in Messages |-> [rows[m] EXCEPT !.synced = @ \/ m \in now[j]]]
            /\ doubt' = doubt
         \/ doubt' = doubt \cup now[j] /\ rows' = rows
  BY DEF MarkCopy
<1>2. /\ CopiesAccounted /\ Holding /\ Doubtful /\ Noting
      /\ now \in [Jobs -> SUBSET Messages] /\ doubt \subseteq Messages
      /\ left \in [Jobs -> SUBSET Messages]
  BY DEF ChatInv, CopyInv, ChatwootTypeOK
<1>3. /\ at' \in [Workers -> Stages] /\ at'[j] \in {"idle", "post"}
      /\ \A v \in Workers \ {j} : at'[v] = at[v]
  BY <1>1, GoesStep DEF GoesOn, ChatInv, Stages
<1>4. /\ now' \in [Jobs -> SUBSET Messages] /\ now'[j] = {}
      /\ \A k \in Jobs \ {j} : now'[k] = now[k]
      /\ doubt' \subseteq Messages /\ doubt \subseteq doubt'
  BY <1>1, <1>2
<1>5. /\ rows' \in [Messages -> [kept : BOOLEAN, ids : BOOLEAN, synced : BOOLEAN,
                                 local : BOOLEAN]]
      /\ \A n \in Messages : /\ rows'[n].kept = rows[n].kept
                             /\ rows'[n].local = rows[n].local
                             /\ rows'[n].ids = rows[n].ids
      /\ \A n \in Messages : rows[n].synced => rows'[n].synced
      /\ \A n \in Messages : rows'[n].synced => rows[n].synced \/ n \in now[j]
      /\ \A n \in now[j] : rows'[n].synced \/ n \in doubt'
  <2>1. CASE rows' = [m \in Messages |-> [rows[m] EXCEPT !.synced = @ \/ m \in now[j]]]
             /\ doubt' = doubt
    <3>1. rows' \in [Messages -> [kept : BOOLEAN, ids : BOOLEAN, synced : BOOLEAN,
                                  local : BOOLEAN]]
      <4>1. \A m \in Messages : rows[m] \in [kept : BOOLEAN, ids : BOOLEAN,
                                            synced : BOOLEAN, local : BOOLEAN]
        BY DEF StoreTypeOK
      <4>2. \A m \in Messages : (rows[m].synced \/ m \in now[j]) \in BOOLEAN
        OBVIOUS
      <4>3. \A m \in Messages : [rows[m] EXCEPT !.synced = @ \/ m \in now[j]]
                \in [kept : BOOLEAN, ids : BOOLEAN, synced : BOOLEAN, local : BOOLEAN]
        BY <4>1, <4>2
      <4>. QED  BY <2>1, <4>3
    <3>2. \A n \in Messages : /\ rows'[n].kept = rows[n].kept
                              /\ rows'[n].local = rows[n].local
                              /\ rows'[n].ids = rows[n].ids
                              /\ rows'[n].synced = (rows[n].synced \/ n \in now[j])
      BY <2>1 DEF StoreTypeOK
    <3>. QED  BY <1>2, <3>1, <3>2
  <2>2. CASE doubt' = doubt \cup now[j] /\ rows' = rows
    BY <2>2 DEF StoreTypeOK
  <2>. QED  BY <1>1, <2>1, <2>2
<1>6. ChatwootTypeOK'
  BY <1>1, <1>3, <1>4 DEF ChatInv, ChatwootTypeOK, Stages
<1>7. ConvInv'
  BY <1>1, <1>3, ConvFrame DEF ChatInv
<1>8. CopiesAccounted'
  BY <1>1, <1>2, <1>4, <1>5 DEF CopiesAccounted, Holding
<1>9. Holding'
  BY <1>1, <1>2, <1>3, <1>4 DEF Holding
<1>10. Noting'
  BY <1>1, <1>2, <1>3 DEF Noting
<1>11. \A k \in Jobs : /\ left'[k] = left[k] /\ now'[k] \subseteq now[k]
                       /\ at'[k] # "idle" => at[k] # "idle"
  BY <1>1, <1>3, <1>4
<1>12. Doubtful'
  <2>. SUFFICES ASSUME NEW n \in Messages
                PROVE  /\ copies[n] >= 1 /\ ~rows'[n].synced =>
                             n \in doubt' \/ \E k \in Jobs : n \in now'[k]
                       /\ \A k \in Jobs :
                             at'[k] # "idle" /\ n \in left'[k] /\ copies[n] >= 1
                             => n \in doubt'
                       /\ \A k, i \in Jobs :
                             /\ k # i /\ at'[k] # "idle" /\ at'[i] # "idle"
                             /\ n \in left'[k] \cup now'[k] /\ n \in left'[i] \cup now'[i]
                             => n \in doubt'
    BY <1>1 DEF Doubtful, Held
  <2>1. ASSUME copies[n] >= 1, ~rows'[n].synced, n \notin doubt'
        PROVE  \E k \in Jobs : n \in now'[k]
    <3>1. ~rows[n].synced /\ n \notin doubt /\ n \notin now[j]
      BY <1>4, <1>5, <2>1
    <3>2. PICK k \in Jobs : n \in now[k]
      BY <1>2, <2>1, <3>1 DEF Doubtful
    <3>. QED  BY <1>4, <3>1, <3>2
  <2>2. ASSUME NEW k \in Jobs, at'[k] # "idle", n \in left'[k], copies[n] >= 1
        PROVE  n \in doubt'
    BY <1>2, <1>4, <1>11, <2>2 DEF Doubtful
  <2>3. ASSUME NEW k \in Jobs, NEW i \in Jobs, k # i, at'[k] # "idle", at'[i] # "idle",
               n \in left'[k] \cup now'[k], n \in left'[i] \cup now'[i]
        PROVE  n \in doubt'
    BY <1>2, <1>4, <1>11, <2>3 DEF Doubtful, Held
  <2>4. \A k \in Jobs : at'[k] # "idle" /\ n \in left'[k] /\ copies[n] >= 1
                       => n \in doubt'
    BY <2>2
  <2>5. \A k, i \in Jobs :
           /\ k # i /\ at'[k] # "idle" /\ at'[i] # "idle"
           /\ n \in left'[k] \cup now'[k] /\ n \in left'[i] \cup now'[i]
           => n \in doubt'
    BY <2>3
  <2>. QED  BY <2>1, <2>4, <2>5, Zenon
<1>. QED  BY <1>5, <1>6, <1>7, <1>8, <1>9, <1>10, <1>12 DEF ChatInv, CopyInv

LEMMA ChatCrash ==
    ASSUME ChatInv, UNCHANGED rows, ChatwootCrash
    PROVE  ChatInv'
<1>. USE WorkerKinds
<1>1. /\ at' = [w \in Workers |-> IF w \in Jobs \/ at[w] = "idle" THEN "idle" ELSE "done"]
      /\ left' = [j \in Jobs |-> {}]
      /\ now' = [j \in Jobs |-> {}]
      /\ doubt' = doubt \cup UNION {now[j] : j \in Jobs}
      /\ erased' = [m \in Messages |-> IF erased[m] = "none" THEN "none" ELSE "done"]
      /\ UNCHANGED <<reopen, outgoing, contact, convs, resolved, live, copies, blind>>
  BY DEF ChatwootCrash
<1>2. /\ CopiesAccounted /\ Holding /\ Doubtful
      /\ now \in [Jobs -> SUBSET Messages] /\ doubt \subseteq Messages
  BY DEF ChatInv, CopyInv, ChatwootTypeOK
<1>3. doubt' \subseteq Messages /\ doubt \subseteq doubt'
      /\ \A k \in Jobs : now[k] \subseteq doubt'
  BY <1>1, <1>2
<1>4. /\ at' \in [Workers -> {"idle", "done"}] /\ \A j \in Jobs : at'[j] = "idle"
      /\ \A m \in Messages : at'[m] # "note"
  BY <1>1
<1>5. ChatwootTypeOK'
  <2>1. at' \in [Workers -> Stages]
    BY <1>4 DEF Stages
  <2>2. /\ left' \in [Jobs -> SUBSET Messages] /\ now' \in [Jobs -> SUBSET Messages]
        /\ erased' \in [Messages -> {"none", "read", "delete", "done"}]
    BY <1>1
  <2>. QED  BY <1>1, <1>3, <2>1, <2>2 DEF ChatInv, ChatwootTypeOK, Stages
<1>6. ConvInv'
  BY <1>1, <1>4, ConvFrame DEF ChatInv
<1>7. CopiesAccounted'
  BY <1>1, <1>2, <1>3 DEF CopiesAccounted
<1>8. Holding'
  BY <1>1, <1>4 DEF Holding
<1>9. Noting'
  BY <1>4 DEF Noting
<1>10. Doubtful'
  BY <1>1, <1>2, <1>3, <1>4 DEF Doubtful
<1>. QED  BY <1>5, <1>6, <1>7, <1>8, <1>9, <1>10 DEF ChatInv, CopyInv

-----------------------------------------------------------------------------
(***************************************************************************)
(* The components together.                                                *)
(***************************************************************************)
(* What the store does to a row: it comes, and stays.                      *)
RowsGrow ==
    \A m \in Messages : /\ rows'[m].synced = rows[m].synced /\ rows'[m].ids = rows[m].ids
                        /\ rows[m].kept => rows'[m].kept
                        /\ storing'[m] = "none" <=> storing[m] = "none"

LEMMA StoreWorkRows == StoreInv /\ StoreWork => RowsGrow
<1>. SUFFICES ASSUME StoreTypeOK, StoreWork PROVE RowsGrow
  BY DEF StoreInv
<1>1. ASSUME NEW m \in Messages, StoreRow(m) PROVE RowsGrow
  <2>1. /\ \A n \in Messages : /\ rows'[n].synced = rows[n].synced
                               /\ rows'[n].ids = rows[n].ids
                               /\ rows[n].kept => rows'[n].kept
    BY <1>1, InsertStep DEF StoreRow
  <2>2. \A n \in Messages : storing'[n] = "none" <=> storing[n] = "none"
    BY <1>1 DEF StoreRow, StoreTypeOK
  <2>. QED  BY <2>1, <2>2 DEF RowsGrow
<1>2. ASSUME NEW m \in Messages, StoreContact(m) PROVE RowsGrow
  BY <1>2 DEF StoreContact, StoreTypeOK, RowsGrow
<1>3. ASSUME NEW m \in Messages, CacheMedia(m) PROVE RowsGrow
  BY <1>3 DEF CacheMedia, RowsGrow
<1>4. ASSUME NEW m \in Messages, SaveMediaUrl(m) PROVE RowsGrow
  BY <1>4 DEF SaveMediaUrl, StoreTypeOK, RowsGrow
<1>5. CASE HistoryRow
  <2>1. /\ storing' = storing
        /\ (\E m \in todo : Insert(m)) \/ rows' = rows
    BY <1>5 DEF HistoryRow
  <2>2. todo \subseteq Messages
    BY DEF StoreTypeOK
  <2>3. ASSUME NEW m \in todo, Insert(m) PROVE RowsGrow
    BY <2>1, <2>2, <2>3, InsertStep DEF RowsGrow
  <2>4. CASE rows' = rows
    BY <2>1, <2>4 DEF RowsGrow
  <2>. QED  BY <2>1, <2>3, <2>4
<1>6. CASE HistoryContact
  BY <1>6 DEF HistoryContact, RowsGrow
<1>7. CASE OtherInsert
  BY <1>7 DEF OtherInsert, RowsGrow
<1>. QED  BY <1>1, <1>2, <1>3, <1>4, <1>5, <1>6, <1>7 DEF StoreWork

(* The copies do not depend on what the store does to the rows.            *)
LEMMA ChatStays ==
    ASSUME ChatInv, UNCHANGED chatVars,
           \A m \in Messages : /\ rows'[m].synced = rows[m].synced
                               /\ rows'[m].ids = rows[m].ids
                               /\ rows[m].kept => rows'[m].kept
    PROVE  ChatInv'
<1>1. UNCHANGED <<reopen, outgoing, at, left, now, contact, convs, resolved, live,
                  copies, erased, blind, doubt>>
  BY DEF chatVars
<1>2. ChatwootTypeOK'
  BY <1>1 DEF ChatInv, ChatwootTypeOK
<1>3. ConvInv'
  BY <1>1, ConvFrame DEF ChatInv
<1>4. CopyInv'
  BY <1>1, CopyFrame DEF ChatInv, CopyInv, CopiesAccounted, Noting
<1>. QED  BY <1>2, <1>3, <1>4 DEF ChatInv

LEMMA InitInv == Init => DeliveryInv
<1>. SUFFICES ASSUME Init PROVE DeliveryInv
  OBVIOUS
<1>1. /\ backend \in {"sqlite", "postgres"} /\ reopen \in BOOLEAN
      /\ uses \subseteq {"history", "media", "webhook", "chatwoot", "import"}
  BY DeliveryAssumption DEF Init
<1>2. HookInv /\ StoreInv
  BY <1>1, HookInit, StoreInitSound DEF Init
<1>3. ChatInv
  <2>. USE WorkerKinds DEF Init, ChatwootInit
  <2>1. at \in [Workers -> Stages]
    BY DEF Stages
  <2>2. /\ copies \in [Messages -> 0 .. MaxCopies] /\ convs \in 0 .. MaxConvs
    BY ChatwootAssumption
  <2>3. /\ left \in [Jobs -> SUBSET Messages] /\ now \in [Jobs -> SUBSET Messages]
        /\ erased \in [Messages -> {"none", "read", "delete", "done"}]
    OBVIOUS
  <2>4. /\ {reopen, contact, resolved, blind} \subseteq BOOLEAN
        /\ {outgoing, live, doubt} \subseteq SUBSET Messages
    BY <1>1
  <2>5. ChatwootTypeOK
    BY <2>1, <2>2, <2>3, <2>4 DEF ChatwootTypeOK, Stages
  <2>6. ConvInv
    BY DEF ConvInv, OneConversation, OneCreator
  <2>7. \A m \in Messages : ~rows[m].ids /\ ~rows[m].synced
    BY DEF StoreInit, NoRow
  <2>8. CopyInv
    BY <2>7 DEF CopyInv, CopiesAccounted, Holding, Doubtful, Noting
  <2>. QED  BY <2>5, <2>6, <2>8 DEF ChatInv
<1>4. Untouched
  BY WorkerKinds, DeliveryAssumption
     DEF Untouched, Init, StoreInit, ChatwootInit, WebhookInit, NoRow, NoHook
<1>. QED  BY <1>1, <1>2, <1>3, <1>4 DEF DeliveryInv

(* A message comes in: its tasks start.                                    *)
LEMMA ArriveInv ==
    ASSUME DeliveryInv, NEW m \in Messages, Arrive(m)
    PROVE  DeliveryInv'
<1>. USE WorkerKinds
<1>1. /\ storing[m] = "none" /\ storing' = [storing EXCEPT ![m] = "due"]
      /\ media' = [media EXCEPT ![m] = If("media", "due", "none")]
      /\ hook' = Sending(m) \/ hook' = hook
      /\ at' = [at EXCEPT ![m] = If("chatwoot", "find", "idle")]
      /\ outgoing' \in {outgoing, outgoing \cup {m}}
      /\ UNCHANGED <<backend, inserted, rows, histVars, counted, lost, named, files,
                     reopen, left, now, contact, convs, resolved, live, copies,
                     erased, blind, doubt, seen, unsure, told, uses>>
  BY DEF Arrive, If
<1>2. /\ HookInv /\ StoreInv /\ ChatInv /\ Untouched /\ StoreTypeOK /\ ChatwootTypeOK
      /\ Local /\ StoreProgress
  BY StoreInvParts DEF DeliveryInv, StoreInv, ChatInv, StoreSound
<1>3. hook[m].at = "none" /\ at[m] = "idle" /\ ~rows[m].ids
  BY <1>1, <1>2 DEF Untouched
<1>4. HookInv'
  BY <1>1, <1>2, <1>3, HookSends, HookStays DEF hookVars
<1>5. /\ storing' \in [Messages -> {"none", "due", "contact", "stored", "lost"}]
      /\ storing'[m] = "due" /\ \A n \in Messages \ {m} : storing'[n] = storing[n]
      /\ media' \in [Messages -> {"none", "due", "cached", "done"}]
      /\ media'[m] # "cached" /\ \A n \in Messages \ {m} : media'[n] = media[n]
  BY <1>1, <1>2 DEF StoreTypeOK, If
<1>6. StoreInv'
  <2>1. inserted' \in BOOLEAN /\ files' \subseteq Messages
        /\ rows' \in [Messages -> [kept : BOOLEAN, ids : BOOLEAN, synced : BOOLEAN,
                                   local : BOOLEAN]]
    BY <1>1, <1>2 DEF StoreTypeOK
  <2>2. \A n \in Messages : media'[n] = "cached" => n \in files'
    BY <1>1, <1>2, <1>5 DEF StoreProgress
  <2>3. \A n \in Messages : rows'[n].local => rows[n].kept /\ n \in files'
    BY <1>1, <1>2 DEF Local
  <2>. QED  BY <1>1, <1>2, <1>5, <2>1, <2>2, <2>3, StoreFrame
<1>7. /\ at' \in [Workers -> Stages] /\ \A v \in Workers \ {m} : at'[v] = at[v]
      /\ at'[m] \in {"find", "idle"}
      /\ outgoing' \subseteq Messages
      /\ \A n \in Messages \ {m} : n \in outgoing' <=> n \in outgoing
  BY <1>1, <1>2 DEF ChatwootTypeOK, Stages, If
<1>8. ChatInv'
  <2>1. ChatwootTypeOK'
    BY <1>1, <1>2, <1>7 DEF ChatwootTypeOK, Stages
  <2>2. ConvInv'
    BY <1>1, <1>2, <1>7, ConvFrame DEF ChatInv
  <2>3. CopyInv'
    BY <1>1, <1>2, <1>3, <1>7, CopyFrame DEF ChatInv, CopyInv, CopiesAccounted, Noting
  <2>. QED  BY <2>1, <2>2, <2>3 DEF ChatInv
<1>9. Untouched'
  <2>1. \A n \in Messages \ {m} : hook'[n] = hook[n]
    BY <1>1, <1>2, DeliveryAssumption DEF Sending, HookInv, WebhookTypeOK
  <2>. QED  BY <1>1, <1>2, <1>5, <1>7, <2>1 DEF Untouched
<1>. QED  BY <1>1, <1>4, <1>6, <1>8, <1>9 DEF DeliveryInv

LEMMA ReadInv ==
    ASSUME DeliveryInv, NEW r \in Receipts, Read(r)
    PROVE  DeliveryInv'
<1>. USE WorkerKinds
<1>1. /\ at[r] = "idle" /\ at' = [at EXCEPT ![r] = "find"]
      /\ UNCHANGED <<storeVars, hookVars, uses, reopen, outgoing, left, now, contact,
                     convs, resolved, live, copies, erased, blind, doubt>>
  BY DEF Read
<1>2. /\ HookInv /\ StoreInv /\ ChatInv /\ Untouched /\ ChatwootTypeOK
  BY DEF DeliveryInv, ChatInv
<1>3. /\ at' \in [Workers -> Stages] /\ \A v \in Workers \ {r} : at'[v] = at[v]
      /\ at'[r] = "find"
  BY <1>1, <1>2 DEF ChatwootTypeOK, Stages
<1>4. HookInv' /\ StoreInv'
  BY <1>1, <1>2, HookStays, StoreStays
<1>5. rows' = rows /\ storing' = storing /\ hook' = hook
  BY <1>1 DEF storeVars, hookVars
<1>6. ChatInv'
  <2>1. ChatwootTypeOK'
    BY <1>1, <1>2, <1>3 DEF ChatwootTypeOK, Stages
  <2>2. ConvInv'
    BY <1>1, <1>2, <1>3, ConvFrame DEF ChatInv
  <2>3. CopyInv'
    BY <1>1, <1>2, <1>3, <1>5, CopyFrame DEF ChatInv, CopyInv, CopiesAccounted, Noting
  <2>. QED  BY <2>1, <2>2, <2>3 DEF ChatInv
<1>7. Untouched'
  BY <1>2, <1>3, <1>5 DEF Untouched
<1>. QED  BY <1>1, <1>2, <1>4, <1>6, <1>7 DEF DeliveryInv

LEMMA DeletedInv ==
    ASSUME DeliveryInv, NEW m \in Messages, Deleted(m)
    PROVE  DeliveryInv'
<1>1. /\ erased[m] = "none" /\ erased' = [erased EXCEPT ![m] = "read"]
      /\ UNCHANGED <<storeVars, hookVars, uses, reopen, outgoing, at, left, now,
                     contact, convs, resolved, live, copies, blind, doubt>>
  BY DEF Deleted
<1>2. /\ HookInv /\ StoreInv /\ ChatInv /\ Untouched /\ ChatwootTypeOK
  BY DEF DeliveryInv, ChatInv
<1>3. /\ erased' \in [Messages -> {"none", "read", "delete", "done"}]
      /\ \A n \in Messages : erased[n] = "done" => erased'[n] = "done"
  BY <1>1, <1>2 DEF ChatwootTypeOK
<1>4. HookInv' /\ StoreInv'
  BY <1>1, <1>2, HookStays, StoreStays
<1>5. rows' = rows /\ storing' = storing /\ hook' = hook
  BY <1>1 DEF storeVars, hookVars
<1>6. ChatInv'
  <2>1. ChatwootTypeOK'
    BY <1>1, <1>2, <1>3 DEF ChatwootTypeOK
  <2>2. ConvInv'
    BY <1>1, <1>2, ConvFrame DEF ChatInv
  <2>3. CopyInv'
    BY <1>1, <1>2, <1>3, <1>5, CopyFrame DEF ChatInv, CopyInv, CopiesAccounted, Noting
  <2>. QED  BY <2>1, <2>2, <2>3 DEF ChatInv
<1>7. Untouched'
  BY <1>1, <1>2, <1>5 DEF Untouched
<1>. QED  BY <1>1, <1>2, <1>4, <1>6, <1>7 DEF DeliveryInv

(* The requests to Chatwoot wake nobody, and change no row.                *)
LEMMA RequestsIdle ==
    ASSUME ChatwootTypeOK, Requests
    PROVE  \A m \in Messages : at[m] = "idle" => at'[m] = "idle"
<1>. USE WorkerKinds
<1>1. ASSUME NEW w \in Workers, at[w] # "idle", NEW stage, Goes(w, stage)
      PROVE  \A m \in Messages : at[m] = "idle" => at'[m] = "idle"
  BY <1>1 DEF Goes, ChatwootTypeOK
<1>2. ASSUME NEW w \in Workers, at[w] # "idle", Ends(w)
      PROVE  \A m \in Messages : at[m] = "idle" => at'[m] = "idle"
  BY <1>1, <1>2 DEF Ends
<1>3. ASSUME NEW j \in Jobs, at[j] # "idle", NEW rest, GoesOn(j, rest)
      PROVE  \A m \in Messages : at[m] = "idle" => at'[m] = "idle"
  BY <1>1, <1>3 DEF GoesOn
<1>4. \/ \E w \in Workers : at[w] # "idle" /\ (Ends(w) \/ \E stage \in Stages : Goes(w, stage))
      \/ \E j \in Jobs, rest \in SUBSET Messages : at[j] # "idle" /\ GoesOn(j, rest)
      \/ at' = at
  <2>1. ASSUME NEW w \in Workers, Find(w) \/ Create(w) \/ Look(w) \/ Open(w) \/ New(w)
        PROVE  at[w] # "idle" /\ (Ends(w) \/ \E stage \in Stages : Goes(w, stage))
    BY <2>1 DEF Find, Create, Look, Open, New, Stages
  <2>2. ASSUME NEW m \in Messages, PostLive(m)
        PROVE  at[m] # "idle" /\ (Ends(m) \/ \E stage \in Stages : Goes(m, stage))
    BY <2>2 DEF PostLive, Stages
  <2>3. ASSUME NEW m \in Messages, ReadIds(m) \/ DeleteCopy(m)
        PROVE  at' = at
    BY <2>3 DEF ReadIds, DeleteCopy
  <2>4. ASSUME NEW r \in Receipts, SeenUntil(r)
        PROVE  at[r] # "idle" /\ Ends(r)
    BY <2>4 DEF SeenUntil
  <2>5. ASSUME NEW j \in Jobs, PostCopy(j)
        PROVE  /\ at[j] # "idle"
               /\ \/ \E stage \in Stages : Goes(j, stage)
                  \/ \E rest \in SUBSET Messages : GoesOn(j, rest)
    <3>1. at[j] # "idle" /\ left[j] \subseteq Messages
      BY <2>5 DEF PostCopy, ChatwootTypeOK
    <3>2. PICK m \in left[j] : Goes(j, "note") \/ GoesOn(j, left[j] \ {m})
      BY <2>5 DEF PostCopy
    <3>3. left[j] \ {m} \in SUBSET Messages /\ "note" \in Stages
      BY <3>1 DEF Stages
    <3>. QED  BY <3>1, <3>2, <3>3
  <2>6. ASSUME Resolve PROVE at' = at
    BY <2>6 DEF Resolve
  <2>. QED  BY <2>1, <2>2, <2>3, <2>4, <2>5, <2>6 DEF Requests
<1>5. CASE at' = at
  BY <1>5
<1>. QED  BY <1>1, <1>2, <1>3, <1>4, <1>5

LEMMA ChatRequests == ChatInv /\ UNCHANGED rows /\ Requests => ChatInv'
BY WayStep, LookStep, NewStep, LiveStep, EraseStep, SeenStep, PostCopyStep, ResolveStep
   DEF Requests

LEMMA SyncInv == DeliveryInv /\ Sync => DeliveryInv'
<1>. SUFFICES ASSUME DeliveryInv, Sync PROVE DeliveryInv'
  OBVIOUS
<1>1. /\ BeginHistory \/ ContactsSync
      /\ UNCHANGED <<chatVars, hookVars, uses>>
  BY DEF Sync
<1>2. rows' = rows /\ storing' = storing /\ hook' = hook /\ at' = at
  BY <1>1 DEF BeginHistory, ContactsSync, hookVars, chatVars
<1>3. StoreInv' /\ HookInv' /\ ChatInv'
  BY <1>1, <1>2, SyncSound, HookStays, ChatStays DEF DeliveryInv
<1>. QED  BY <1>1, <1>2, <1>3 DEF DeliveryInv, Untouched

LEMMA ImportInv == DeliveryInv /\ Import => DeliveryInv'
<1>. SUFFICES ASSUME DeliveryInv, Import PROVE DeliveryInv'
  OBVIOUS
<1>1. PICK j \in Jobs : BeginSync(j)
  BY DEF Import
<1>2. UNCHANGED <<storeVars, hookVars, uses, rows, storing, hook>>
  BY DEF Import, storeVars, hookVars
<1>3. \A m \in Messages : at'[m] = at[m]
  BY <1>1, WorkerKinds DEF BeginSync, Goes, DeliveryInv, ChatInv, ChatwootTypeOK
<1>4. StoreInv' /\ HookInv' /\ ChatInv'
  BY <1>1, <1>2, BeginSyncStep, StoreStays, HookStays DEF DeliveryInv
<1>. QED  BY <1>2, <1>3, <1>4 DEF DeliveryInv, Untouched

LEMMA WorksInv == DeliveryInv /\ Works => DeliveryInv'
<1>. SUFFICES ASSUME DeliveryInv, Works PROVE DeliveryInv'
  OBVIOUS
<1>. USE WorkerKinds
<1>0. /\ HookInv /\ StoreInv /\ ChatInv /\ Untouched /\ ChatwootTypeOK /\ StoreTypeOK
      /\ WebhookTypeOK
  BY DEF DeliveryInv, ChatInv, StoreInv, HookInv
<1>1. CASE StoreWork /\ UNCHANGED <<chatVars, hookVars, uses>>
  <2>1. RowsGrow /\ StoreInv'
    BY <1>0, <1>1, StoreWorkRows, StoreWorkSound
  <2>2. ChatInv' /\ HookInv'
    BY <1>0, <1>1, <2>1, ChatStays, HookStays DEF RowsGrow
  <2>3. Untouched'
    BY <1>0, <1>1, <2>1 DEF RowsGrow, Untouched, chatVars, hookVars
  <2>. QED  BY <1>1, <2>1, <2>2, <2>3 DEF DeliveryInv
<1>2. CASE WebhookWork /\ UNCHANGED <<storeVars, chatVars, uses>>
  <2>1. PICK m \in Events : Post(m) \/ BackOff(m) \/ SaveAttempt(m)
    BY <1>2 DEF WebhookWork
  <2>2. m \in Messages
    BY DeliveryAssumption
  <2>3. HookInv'
    BY <1>0, <2>1, <2>2, HookPost, HookBackOff, HookSaved
  <2>4. rows' = rows /\ storing' = storing /\ at' = at
    BY <1>2 DEF storeVars, chatVars
  <2>5. hook[m].at # "none"
    BY <2>1 DEF Post, BackOff, SaveAttempt
  <2>6. \A n \in Messages \ {m} : hook'[n] = hook[n]
    BY <1>0, <2>1, <2>2, DeliveryAssumption
       DEF Post, BackOff, SaveAttempt, TriesAgain, WebhookTypeOK
  <2>7. Untouched'
    BY <1>0, <2>4, <2>5, <2>6 DEF Untouched
  <2>8. StoreInv' /\ ChatInv'
    BY <1>0, <1>2, <2>4, StoreStays, ChatStays
  <2>. QED  BY <1>2, <2>3, <2>7, <2>8 DEF DeliveryInv
<1>3. CASE Requests /\ UNCHANGED <<storeVars, hookVars, uses>>
  <2>1. rows' = rows /\ storing' = storing /\ hook' = hook
    BY <1>3 DEF storeVars, hookVars
  <2>2. StoreInv' /\ HookInv' /\ ChatInv'
    BY <1>0, <1>3, <2>1, StoreStays, HookStays, ChatRequests
  <2>3. Untouched'
    BY <1>0, <1>3, <2>1, RequestsIdle DEF Untouched
  <2>. QED  BY <1>3, <2>2, <2>3 DEF DeliveryInv
<1>4. CASE /\ Writes
           /\ UNCHANGED <<backend, inserted, storing, histVars, counted, lost, named,
                          media, files, hookVars, uses>>
  <2>1. HookInv' /\ hook' = hook
    BY <1>0, <1>4, HookStays DEF hookVars
  <2>2. /\ ChatInv'
        /\ rows' \in [Messages -> [kept : BOOLEAN, ids : BOOLEAN, synced : BOOLEAN,
                                   local : BOOLEAN]]
        /\ \A n \in Messages : /\ rows'[n].kept = rows[n].kept
                               /\ rows'[n].local = rows[n].local
        /\ \A n \in Messages : storing[n] = "none" =>
                                  at'[n] = "idle" /\ rows'[n].ids = rows[n].ids
    <3>1. ASSUME NEW m \in Messages, NoteIds(m)
          PROVE  \A n \in Messages : storing[n] = "none" => n # m /\ at'[n] = "idle"
      BY <1>0, <3>1 DEF NoteIds, Ends, Goes, ChatwootTypeOK, Untouched
    <3>2. ASSUME NEW j \in Jobs, MarkCopy(j)
          PROVE  \A n \in Messages : storing[n] = "none" => at'[n] = "idle"
      BY <1>0, <3>2 DEF MarkCopy, GoesOn, Goes, ChatwootTypeOK, Untouched
    <3>3. CASE \E m \in Messages : NoteIds(m)
      BY <1>0, <3>1, <3>3, NoteStep
    <3>4. CASE \E j \in Jobs : MarkCopy(j)
      BY <1>0, <3>2, <3>4, MarkCopyStep
    <3>. QED  BY <1>4, <3>3, <3>4 DEF Writes
  <2>3. StoreInv'
    <3>1. Local /\ StoreProgress
      BY <1>0, StoreInvParts DEF StoreSound
    <3>. QED  BY <1>0, <1>4, <2>2, <3>1, StoreFrame DEF Local, StoreProgress, StoreTypeOK
  <2>4. Untouched'
    BY <1>0, <1>4, <2>1, <2>2 DEF Untouched
  <2>. QED  BY <1>4, <2>1, <2>2, <2>3, <2>4 DEF DeliveryInv
<1>. QED  BY <1>1, <1>2, <1>3, <1>4 DEF Works

LEMMA CrashInv == DeliveryInv /\ Crash => DeliveryInv'
<1>. SUFFICES ASSUME DeliveryInv, Crash PROVE DeliveryInv'
  OBVIOUS
<1>. USE WorkerKinds
<1>1. /\ HookInv /\ StoreInv /\ ChatInv /\ Untouched
      /\ StoreCrash /\ ChatwootCrash /\ WebhookCrash /\ UNCHANGED uses
  BY DEF DeliveryInv, Crash
<1>2. rows' = rows
  BY <1>1 DEF StoreCrash
<1>3. StoreInv' /\ ChatInv' /\ HookInv'
  BY <1>1, <1>2, StoreCrashSound, ChatCrash, HookCrash
<1>4. \A m \in Messages : storing'[m] = "none" <=> storing[m] = "none"
  BY <1>1 DEF StoreCrash
<1>5. \A m \in Messages : /\ hook[m].at = "none" => hook'[m].at = "none"
                          /\ at[m] = "idle" => at'[m] = "idle"
  BY <1>1, DeliveryAssumption DEF WebhookCrash, ChatwootCrash
<1>6. Untouched'
  BY <1>1, <1>2, <1>4, <1>5 DEF Untouched
<1>. QED  BY <1>1, <1>3, <1>6 DEF DeliveryInv

LEMMA StutterInv == DeliveryInv /\ UNCHANGED deliveryVars => DeliveryInv'
<1>. SUFFICES ASSUME DeliveryInv, UNCHANGED deliveryVars PROVE DeliveryInv'
  OBVIOUS
<1>1. UNCHANGED <<storeVars, chatVars, hookVars, uses, rows, storing, hook, at>>
  BY DEF deliveryVars, storeVars, chatVars, hookVars
<1>2. StoreInv' /\ ChatInv' /\ HookInv'
  BY <1>1, StoreStays, ChatStays, HookStays DEF DeliveryInv
<1>. QED  BY <1>1, <1>2 DEF DeliveryInv, Untouched

-----------------------------------------------------------------------------
(* The inductive invariant holds.                                          *)
THEOREM DeliveryInvariant == Spec => []DeliveryInv
<1>1. DeliveryInv /\ [Next]_deliveryVars => DeliveryInv'
  BY ArriveInv, DeletedInv, ReadInv, SyncInv, ImportInv, WorksInv, CrashInv, StutterInv
     DEF Next
<1>. QED  BY <1>1, InitInv, PTL DEF Spec

(* Every variable has its type, whatever the settings and however many     *)
(* messages, receipts, jobs and attempts there are.                        *)
THEOREM DeliveryTypes == Spec => []TypeOK
<1>1. DeliveryInv => TypeOK
  BY DEF DeliveryInv, HookInv, StoreInv, ChatInv, TypeOK
<1>. QED  BY <1>1, DeliveryInvariant, PTL

(* WebhookSender: a recorded success was received, a recorded failure was  *)
(* tried max_retries times, and only an answer that was late or no 2xx     *)
(* brings a receiver the same message again.                               *)
THEOREM WebhookToldHolds == Spec => []WebhookTold
<1>1. DeliveryInv => WebhookTold
  BY DEF DeliveryInv, HookInv
<1>. QED  BY <1>1, DeliveryInvariant, PTL

(* save_message and store_chat_messages: what is reported and counted is   *)
(* what the rows say, on PostgreSQL exactly, with crashes at any point.    *)
THEOREM StoredIsNewHolds == Spec => []StoredIsNew
<1>1. DeliveryInv => StoredIsNew
  BY DEF DeliveryInv, StoreInv
<1>. QED  BY <1>1, DeliveryInvariant, PTL

(* get_or_create_conversation: a second conversation of the contact takes  *)
(* a failed lookup, or two workers that both looked before either created. *)
THEOREM OneConversationHolds == Spec => []OneConversation
<1>1. DeliveryInv => OneConversation
  BY DEF DeliveryInv, ChatInv, ConvInv
<1>. QED  BY <1>1, DeliveryInvariant, PTL

(* ChatwootSyncService: a marked row has a copy, and a message is copied   *)
(* again only after a lost answer or mark, a crash, or by two jobs that    *)
(* had both read it.                                                       *)
THEOREM CopiesAccountedHolds == Spec => []CopiesAccounted
<1>1. DeliveryInv => CopiesAccounted
  BY DEF DeliveryInv, ChatInv, CopyInv
<1>. QED  BY <1>1, DeliveryInvariant, PTL
=============================================================================
