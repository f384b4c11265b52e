---------------------------- MODULE AuditedRead ----------------------------
(***************************************************************************)
(* What an exact read promises, without its sessions, labels and bodies.   *)
(* It takes effect at one moment between its request and its answer: the   *)
(* status that the version has then decides whether it is allowed.  The    *)
(* decision is recorded, durably and once, before it is answered, and the  *)
(* answer is the one that the record says.  A read may fail at any time,   *)
(* also after its decision was recorded, but it is never answered twice.   *)
(***************************************************************************)
EXTENDS Governance

CONSTANTS Readers, Releases, ReadTargets, None

VARIABLES
    status,     \* of every version; updates may give it any value
    asked,      \* per read: what it asked for
    verdict,    \* the status it took effect on
    recorded,   \* the decisions on record
    answer

contractVars == <<status, asked, verdict, recorded, answer>>

Failures == {"INTERNAL_ERROR", "LOST"}

Init ==
    /\ status = [v \in Releases |-> "published"]
    /\ asked = [q \in Readers |-> None]
    /\ verdict = [q \in Readers |-> None]
    /\ recorded = {}
    /\ answer = [q \in Readers |-> None]

Decision(q) ==
    [by |-> q, lifecycle_status |-> verdict[q],
     allowed |-> ExactReadAllowed(asked[q].caller, verdict[q])]

ChangeStatus ==
    /\ status' \in [Releases -> Statuses]
    /\ UNCHANGED <<asked, verdict, recorded, answer>>

Ask(q) ==
    /\ asked[q] = None
    /\ \E t \in ReadTargets :
        /\ asked' = [asked EXCEPT ![q] = t]
        /\ IF HasScope(t.caller, "read") THEN UNCHANGED answer
           ELSE answer' = [answer EXCEPT ![q] = "INSUFFICIENT_SCOPE"]
    /\ UNCHANGED <<status, verdict, recorded>>

Miss(q) ==
    /\ asked[q] # None /\ answer[q] = None
    /\ asked[q].release = None
    /\ answer' = [answer EXCEPT ![q] = "SKILL_VERSION_NOT_FOUND"]
    /\ UNCHANGED <<status, asked, verdict, recorded>>

TakeEffect(q) ==
    /\ asked[q] # None /\ answer[q] = None /\ verdict[q] = None
    /\ asked[q].release \in Releases
    /\ verdict' = [verdict EXCEPT ![q] = status[asked[q].release]]
    /\ UNCHANGED <<status, asked, recorded, answer>>

\* The acknowledgement of the record may get lost, and with it the answer.
Record(q) ==
    /\ verdict[q] # None /\ answer[q] = None
    /\ \A d \in recorded : d.by # q
    /\ recorded' = recorded \cup {Decision(q)}
    /\ \/ UNCHANGED answer
       \/ answer' = [answer EXCEPT ![q] = "INTERNAL_ERROR"]
    /\ UNCHANGED <<status, asked, verdict>>

AnswerAsRecorded(q) ==
    /\ answer[q] = None
    /\ \E d \in recorded :
        /\ d.by = q
        /\ answer' = [answer EXCEPT ![q] =
                         IF d.allowed THEN "OK" ELSE "POLICY_EXACT_READ_FORBIDDEN"]
    /\ UNCHANGED <<status, asked, verdict, recorded>>

Abandon(q) ==
    /\ asked[q] # None /\ answer[q] = None
    /\ \E f \in Failures : answer' = [answer EXCEPT ![q] = f]
    /\ UNCHANGED <<status, asked, verdict, recorded>>

Next ==
    \/ ChangeStatus
    \/ \E q \in Readers : Ask(q) \/ Miss(q) \/ TakeEffect(q) \/ Record(q)
                          \/ AnswerAsRecorded(q) \/ Abandon(q)

Spec == Init /\ [][Next]_contractVars
=============================================================================
