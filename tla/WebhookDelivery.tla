-------------------------- MODULE WebhookDelivery --------------------------
(***************************************************************************)
(* WebhookSender: an event is posted to a receiver, again after a pause    *)
(* if there was no answer with status 2xx in time, up to max_retries       *)
(* attempts, and how it ended is recorded in webhook_attempts.  One URL:   *)
(* send() runs the URLs of a tenant side by side, with nothing in common.  *)
(***************************************************************************)
EXTENDS Integers, FiniteSets

CONSTANTS
    Events,     \* events to deliver
    MaxRetries  \* settings.webhook_retries

ASSUME WebhookAssumption == IsFiniteSet(Events) /\ MaxRetries \in Nat \ {0}

VARIABLES
    hook,   \* the task of each message
    seen,   \* how often the receiver has processed it
    unsure, \* events the receiver has processed without a 2xx in time
    told    \* webhook_attempts

hookVars == <<hook, seen, unsure, told>>

NoHook == [at |-> "none", attempt |-> 0, success |-> FALSE]

WebhookTypeOK ==
    /\ hook \in [Events -> [at : {"none", "posting", "waiting", "saving", "done"},
                              attempt : 0 .. MaxRetries, success : BOOLEAN]]
    /\ seen \in [Events -> 0 .. MaxRetries]
    /\ unsure \subseteq Events
    /\ told \in [Events -> {"none", "success", "failure"}]

WebhookInit ==
    /\ hook = [m \in Events |-> NoHook]
    /\ seen = [m \in Events |-> 0]
    /\ unsure = {}
    /\ told = [m \in Events |-> "none"]

(* _send_webhook: the task starts with the first attempt.                  *)
Sending(m) == [hook EXCEPT ![m] = [at |-> "posting", attempt |-> 1, success |-> FALSE]]

(* Mutant: it never gives up.                                              *)
TriesAgainAlways(m) == hook' = [hook EXCEPT ![m].at = "waiting"]

(* Mutant: a failure is recorded one attempt early.                        *)
TriesAgainEarly(m) ==
    hook' = [hook EXCEPT ![m].at = IF hook[m].attempt + 1 < MaxRetries THEN "waiting"
                                                                       ELSE "saving"]

(* No 2xx in time: back off, or give up.                                   *)
TriesAgain(m) ==
    hook' = [hook EXCEPT ![m].at = IF hook[m].attempt < MaxRetries THEN "waiting"
                                                                   ELSE "saving"]

(* client.post: answered 2xx in time; processed, but the answer is late or *)
(* another one; or not processed.                                          *)
Post(m) ==
    /\ hook[m].at = "posting"
    /\ \/ /\ seen' = [seen EXCEPT ![m] = @ + 1]
          /\ hook' = [hook EXCEPT ![m] = [at |-> "saving", attempt |-> hook[m].attempt,
                                          success |-> TRUE]]
          /\ UNCHANGED unsure
       \/ /\ seen' = [seen EXCEPT ![m] = @ + 1]
          /\ unsure' = unsure \cup {m}
          /\ TriesAgain(m)
       \/ /\ TriesAgain(m)
          /\ UNCHANGED <<seen, unsure>>
    /\ UNCHANGED told

(* asyncio.sleep(backoff) is over.                                         *)
BackOff(m) ==
    /\ hook[m].at = "waiting"
    /\ hook' = [hook EXCEPT ![m] = [at |-> "posting", attempt |-> hook[m].attempt + 1,
                                    success |-> hook[m].success]]
    /\ UNCHANGED <<seen, unsure, told>>

(* _save_attempt, whose errors are logged and passed over.                 *)
SaveAttempt(m) ==
    /\ hook[m].at = "saving"
    /\ hook' = [hook EXCEPT ![m].at = "done"]
    /\ \/ told' = [told EXCEPT ![m] = IF hook[m].success THEN "success" ELSE "failure"]
       \/ UNCHANGED told
    /\ UNCHANGED <<seen, unsure>>

WebhookWork == \E m \in Events : Post(m) \/ BackOff(m) \/ SaveAttempt(m)

(* A crash ends the tasks; nobody takes them up again.                     *)
WebhookCrash ==
    /\ hook' = [m \in Events |-> IF hook[m].at \in {"none", "done"} THEN hook[m]
                                   ELSE [hook[m] EXCEPT !.at = "done"]]
    /\ UNCHANGED <<seen, unsure, told>>

(* A recorded success means that the receiver has the message; a recorded  *)
(* failure that it was tried max_retries times and never acknowledged; and *)
(* a receiver gets a message again only after an answer that was late or   *)
(* no 2xx, so that one that answers in time sees each message once.        *)
WebhookTold ==
    \A m \in Events :
        /\ told[m] = "success" => seen[m] >= 1
        /\ told[m] = "failure" => hook[m].attempt = MaxRetries /\ ~hook[m].success
        /\ seen[m] > 1 => m \in unsure
        /\ hook[m].at = "none" => seen[m] = 0
=============================================================================
