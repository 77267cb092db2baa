---------------------------- MODULE SponsorIntake ----------------------------
(***************************************************************************)
(* How a Slack message becomes work: the socket process stores envelopes and  *)
(* acknowledges them (slack_socket.py, slack_ingress.py), and the daemon      *)
(* executes the stored work one item after the other: the ChatGPT advisor     *)
(* with its handoffs and proposals (slack_chatgpt.py, chatgpt_proposals.py),   *)
(* ProjectOS commands (slack_commands.py) and the creation of new projects    *)
(* (project_creation.py, onboarding.py), beside an operator who registers     *)
(* projects on the command line.                                              *)
(*                                                                           *)
(* One action is one transaction, one external call or one file operation, so *)
(* that the daemon can die between any two.  Slack is external: it sends an    *)
(* envelope again until it is acknowledged, and may send a message, but no    *)
(* slash command, in two envelopes (message and app_mention).  The batch limit (10)      *)
(* exceeds the envelopes of an instance.  A failed item is put back to pending *)
(* without counting the attempt, so that "failed" is never reached.           *)
(***************************************************************************)
EXTENDS Integers, FiniteSets

CONSTANTS
    MessageBound,    \* messages the sponsor sends
    Twice,           \* messages that Slack sends in two envelopes
    Plans,           \* what the messages may ask for, each with one of Kinds below
    IdBound,         \* project ids PRJ-001 ... that exist
    FaultBound,      \* crashes and escaping exceptions
    OperatorBound,   \* registrations by the operator
    OperatorIds,     \* the ids the operator registers
    FirstId          \* the project that is registered from the start

Kinds == {"chat", "command", "mention", "project", "slash", "slashProject", "other"}

ASSUME IntakeAssumption ==
    /\ MessageBound \in Nat /\ IdBound \in Nat /\ FaultBound \in Nat /\ OperatorBound \in Nat
    /\ Twice \subseteq 1..MessageBound /\ Plans \subseteq [1..MessageBound -> Kinds]
    /\ FirstId \in 1..IdBound /\ OperatorIds \subseteq 1..IdBound

Messages == 1..MessageBound
Envelopes == {<<m, 1>> : m \in Messages} \cup {<<m, 2>> : m \in Twice}
Ids == 1..IdBound
NoId == 0
NoEnvelope == <<0, 0>>

\* Slash commands carry no dedup keys, and their project requests all have the
\* creation key of the channel, since they have no message_ts.
Slash == {"slash", "slashProject"}
ChannelKey == 0
CreationKeys == Messages \cup {ChannelKey}

VARIABLES
    kind,        \* message -> what it asks for
    row,         \* slack_ingress_work.status; "lapsed": claimed, but expired
    keys,        \* messages whose dedup keys are claimed (slack_event_dedup)
    stored,      \* messages in slack_chatgpt_messages
    proposal,    \* the thread's latest proposal
    project,     \* the thread's project
    reserved,    \* project_id_reservations
    repos,       \* ids whose repository is on disk
    registry,    \* id -> who registered it
    record,      \* slack_project_creations: key -> id
    batch, cur, pc, myId, snapshot,     \* the daemon
    opId, opSnapshot, registrations,    \* the operator
    effects,     \* message -> handoffs, items and projects it has led to
    answers,     \* message -> answers emitted
    uses,        \* id -> times register_project has returned it to the daemon
    shown,       \* proposals whose preview was in an answer
    blind,       \* proposals that were executed and never shown before
    faults

slack == <<kind, row>>
chat == <<stored, proposal, project, shown, blind>>
creation == <<reserved, repos, registry, record, uses>>
daemon == <<batch, cur, pc, myId, snapshot>>
operator == <<opId, opSnapshot, registrations>>
vars == <<slack, keys, chat, creation, daemon, operator, effects, answers, faults>>

Projects == {"p1", "p2"}
\* A proposal is known by the message that made it.
NoProposal == [status |-> "none", project |-> "p1", maker |-> 0, preview |-> "none"]
Owners == {"none", "daemon", "operator"}
Places == {"idle", "next", "keys", "route", "release", "chat", "working", "preview",
           "request", "lookup", "bootstrap", "load", "persist", "readback", "handoff",
           "record", "reply", "show", "mark"}

TypeOK ==
    /\ kind \in Plans
    /\ row \in [Envelopes -> {"absent", "pending", "claimed", "lapsed", "succeeded"}]
    /\ keys \subseteq Messages /\ stored \subseteq Messages
    /\ proposal \in [status : {"none", "pending", "expired", "completed", "failed"},
                     project : Projects, maker : 0..MessageBound,
                     preview : {"none", "saved"}]
    /\ project \in Projects
    /\ reserved \subseteq Ids /\ repos \subseteq Ids
    /\ registry \in [Ids -> Owners] /\ snapshot \in [Ids -> Owners]
    /\ opSnapshot \in [Ids -> Owners]
    /\ record \in [CreationKeys -> Ids \cup {NoId}]
    /\ batch \subseteq Envelopes /\ cur \in Envelopes \cup {NoEnvelope}
    /\ pc \in Places /\ myId \in Ids \cup {NoId} /\ opId \in Ids \cup {NoId}
    /\ registrations \in 0..OperatorBound
    /\ effects \in [Messages -> Nat] /\ answers \in [Messages -> Nat]
    /\ uses \in [Ids -> Nat]
    /\ shown \subseteq 0..MessageBound /\ blind \subseteq 0..MessageBound
    /\ faults \in 0..FaultBound

Empty == [i \in Ids |-> "none"]

Init ==
    /\ kind \in Plans
    /\ row = [e \in Envelopes |-> "absent"]
    /\ keys = {} /\ stored = {} /\ proposal = NoProposal /\ project = "p1"
    /\ reserved = {} /\ repos = {} /\ registry = [Empty EXCEPT ![FirstId] = "operator"]
    /\ record = [k \in CreationKeys |-> NoId]
    /\ batch = {} /\ cur = NoEnvelope /\ pc = "idle" /\ myId = NoId /\ snapshot = Empty
    /\ opId = NoId /\ opSnapshot = Empty /\ registrations = 0
    /\ effects = [m \in Messages |-> 0] /\ answers = [m \in Messages |-> 0]
    /\ uses = [i \in Ids |-> 0] /\ shown = {} /\ blind = {} /\ faults = 0
-----------------------------------------------------------------------------
(* The socket process: process_socket_envelope. *)

\* persist_envelope_ingress_work: nothing for an envelope that was claimed
Enqueued(e) == IF row[e] = "absent" THEN "pending" ELSE row[e]

\* An envelope is received and stored, in whatever order and however often
\* Slack sends them: an acknowledgement can get lost.
Receive(e) ==
    /\ e[2] = 2 => kind[e[1]] \notin Slash
    /\ row' = [row EXCEPT ![e] = Enqueued(e)]
    /\ UNCHANGED <<kind, keys, chat, creation, daemon, operator, effects, answers, faults>>

\* run_socket_mode: an envelope that cannot be stored is not acknowledged, and
\* the connection goes on.
Socket == \E e \in Envelopes : Receive(e)

\* lease_seconds (300) go by
Lapse(e) ==
    /\ row[e] = "claimed" /\ e \notin batch /\ cur # e
    /\ row' = [row EXCEPT ![e] = "lapsed"]
    /\ UNCHANGED <<kind, keys, chat, creation, daemon, operator, effects, answers, faults>>
-----------------------------------------------------------------------------
(* The daemon: process_slack_ingress_batch. *)

\* Mutant of Requeued: an expired claim stays.
RequeuedNever == {}

\* recover_stale_ingress_work
Requeued == {e \in Envelopes : row[e] = "lapsed"}

\* claim_pending_ingress_work, in one transaction with the recovery
ClaimBatch ==
    LET due == {e \in Envelopes : row[e] = "pending"} \cup Requeued IN
    /\ pc = "idle" /\ due # {}
    /\ row' = [e \in Envelopes |-> IF e \in due THEN "claimed" ELSE row[e]]
    /\ batch' = due /\ pc' = "next"
    /\ UNCHANGED <<kind, keys, chat, creation, cur, myId, snapshot, operator,
                   effects, answers, faults>>

M == cur[1]
Go(p) == pc' = p /\ UNCHANGED <<batch, cur, myId, snapshot>>

\* _execute_work_item: slash commands skip the dedup keys
Pick(e) ==
    /\ pc = "next" /\ e \in batch
    /\ cur' = e /\ batch' = batch \ {e}
    /\ pc' = IF kind[e[1]] \in Slash THEN "request" ELSE "keys"
    /\ UNCHANGED <<slack, keys, chat, creation, myId, snapshot, operator, effects, answers, faults>>

\* the pass ends; the daemon goes on to its other duties
EndBatch ==
    /\ pc = "next" /\ batch = {}
    /\ pc' = "idle" /\ cur' = NoEnvelope /\ myId' = NoId /\ snapshot' = Empty
    /\ UNCHANGED <<slack, keys, chat, creation, batch, operator, effects, answers, faults>>

\* Mutant of ClaimKeys: the keys of a message are taken, but their first holder
\* is taken for a duplicate.
ClaimKeysInverted ==
    /\ pc = "keys"
    /\ keys' = keys \cup {M}
    /\ Go(IF M \in keys THEN "route" ELSE "mark")
    /\ UNCHANGED <<slack, chat, creation, operator, effects, answers, faults>>

\* claim_slack_events; a message whose keys are taken is done at once
ClaimKeys ==
    /\ pc = "keys"
    /\ keys' = keys \cup {M}
    /\ Go(IF M \in keys THEN "mark" ELSE "route")
    /\ UNCHANGED <<slack, chat, creation, operator, effects, answers, faults>>

\* What is said in a channel is for nobody, unless ProjectOS is mentioned, which
\* the second envelope tells (should_route_projectos_thread_followup).
Overheard(e) == kind[e[1]] = "other" \/ (kind[e[1]] = "mention" /\ e[2] = 1)

\* handle_events_api_payload reads the thread and decides who answers
Route ==
    /\ pc = "route"
    /\ Go(CASE kind[M] = "chat" -> "chat" [] Overheard(cur) -> "release" [] OTHER -> "request")
    /\ UNCHANGED <<slack, keys, chat, creation, operator, effects, answers, faults>>

\* release_slack_events, for a message that nobody answers
Release ==
    /\ pc = "release"
    /\ keys' = keys \ {M}
    /\ Go("mark")
    /\ UNCHANGED <<slack, chat, creation, operator, effects, answers, faults>>

\* deliver_slack_reply_via_outbox; at "show" the preview is part of the reply
Reply ==
    /\ pc \in {"reply", "show"}
    /\ answers' = [answers EXCEPT ![M] = @ + 1]
    /\ shown' = IF pc = "show" THEN shown \cup {proposal.maker} ELSE shown
    /\ Go("mark")
    /\ UNCHANGED <<slack, keys, stored, proposal, project, blind, creation, operator, effects,
                   faults>>

\* _mark_work, succeeded
Mark ==
    /\ pc = "mark"
    /\ row' = [row EXCEPT ![cur] = "succeeded"]
    /\ pc' = "next" /\ cur' = NoEnvelope /\ myId' = NoId /\ snapshot' = Empty
    /\ UNCHANGED <<kind, keys, chat, creation, batch, operator, effects, answers, faults>>
-----------------------------------------------------------------------------
(* The ChatGPT advisor: handle_chatgpt_slack_message.  Everything up to the   *)
(* first commit of a handoff is one transaction; any exception rolls it back  *)
(* and is answered with an error (a project request in a ChatGPT thread       *)
(* always: the creation waits for the lock its own handler holds).            *)

Unmoved == UNCHANGED <<slack, keys, creation, operator, answers, faults>>

\* _resolve_authoritative_project: the one the message names, the thread's, the
\* sponsor's most recent one or the channel's
Resolvable == Projects

\* upsert_chatgpt_thread
PutThread(p) == project' = p

\* insert_chatgpt_message.  A message that is stored already would be given up;
\* its dedup keys, which are never given back once it is stored, prevent it.
InsertMessage == M \notin stored /\ stored' = stored \cup {M}

\* the message is stored and the thread put on the project
Turn == /\ InsertMessage
        /\ \E p \in Resolvable : PutThread(p)

Undecided == Unmoved /\ UNCHANGED <<proposal, shown, blind, effects>>

\* an explanation, the advice of the model (or that it is not available), or
\* what is known of the latest proposal, its preview if it has one
\* (_answer_proposal_state_question), with _persist_turn
ChatAnswer ==
    /\ pc = "chat"
    /\ Turn
    /\ Go("reply") \/ (proposal.preview = "saved" /\ Go("show"))
    /\ Undecided

\* no project can be made out: the message is stored all the same
ChatUnresolved ==
    /\ pc = "chat"
    /\ InsertMessage
    /\ Go("reply")
    /\ Undecided /\ UNCHANGED project

\* OpenAI is not configured, or an exception is classified and answered
ChatError ==
    /\ pc = "chat"
    /\ Go("reply")
    /\ Undecided /\ UNCHANGED <<stored, project>>

\* accept_sponsor_handoff commits the run, and goes on to work on it
ChatHandoff ==
    /\ pc = "chat"
    /\ Turn
    /\ effects' = [effects EXCEPT ![M] = @ + 1]
    /\ Go("working")
    /\ Unmoved /\ UNCHANGED <<proposal, shown, blind>>

\* the turn is stored, or an exception is answered
ChatDone ==
    /\ pc = "working"
    /\ Go("reply")
    /\ Unmoved /\ UNCHANGED <<chat, effects>>

\* create_proposal: a pending one of the same project is kept
Proposed(p) ==
    IF proposal.status = "pending" /\ proposal.project = p THEN proposal
    ELSE [status |-> "pending", project |-> p, maker |-> M, preview |-> "none"]

\* _orchestrate_work_handoff without authority; a second pending proposal, for
\* another project, is left out (approvals are refused while both are pending)
ChatPropose ==
    /\ pc = "chat"
    /\ Turn
    /\ proposal.status = "pending" => project' = proposal.project
    /\ proposal' = Proposed(project')
    /\ effects' = [effects EXCEPT ![M] = @ + 1]
    /\ Go("preview")
    /\ Unmoved /\ UNCHANGED <<shown, blind>>

\* save_proposal_preview, and the preview becomes part of the reply
ChatPreview ==
    /\ pc = "preview"
    /\ proposal' = [proposal EXCEPT !.preview = "saved"]
    /\ Go("show")
    /\ Unmoved /\ UNCHANGED <<stored, project, shown, blind, effects>>

\* The proposal cannot be previewed: the reply says so, and it stays as it is.
PreviewFails ==
    /\ pc = "preview"
    /\ Go("reply")
    /\ Unmoved /\ UNCHANGED <<chat, effects>>

\* Mutant of Approvable: without a look at the preview.
ApprovableBlind(p) == proposal.status = "pending" /\ proposal.project = p

\* approve_pending_proposal
Approvable(p) ==
    proposal.status = "pending" /\ proposal.project = p /\ proposal.preview = "saved"

\* _dispatch_approved_proposal: approved, dispatched and completed or failed in
\* one transaction
ChatApprove ==
    /\ pc = "chat"
    /\ Turn
    /\ Approvable(project')
    /\ blind' = blind \cup ({proposal.maker} \ shown)
    /\ \E s \in {"completed", "failed"} : proposal' = [proposal EXCEPT !.status = s]
    /\ effects' = [effects EXCEPT ![M] = @ + 1]
    /\ Go("reply")
    /\ Unmoved /\ UNCHANGED shown

\* list_pending_proposals expires what is past its time
Expire ==
    /\ pc = "chat" /\ proposal.status = "pending"
    /\ proposal' = [proposal EXCEPT !.status = "expired"]
    /\ UNCHANGED <<slack, keys, stored, project, shown, blind, creation, daemon, operator,
                   effects, answers, faults>>
-----------------------------------------------------------------------------
(* ProjectOS commands and new projects: handle_projectos_request. *)

Commands == {"command", "mention", "slash"}

\* resolve_slack_project: the channel is not allowed, the project is not known,
\* or the sponsor is asked which one is meant
Resolutions == {"ok", "unauthorized", "unknown", "clarify"}

\* run_command: a command that only reads, puts the session on a project (see
\* Resolvable), is refused, or fails
Command ==
    /\ pc = "request" /\ kind[M] \in Commands
    /\ Go("reply")
    /\ Unmoved /\ UNCHANGED <<chat, effects>>

\* _submit_item: projectctl creates an item; no message_ts is passed on, so
\* that nothing is recorded about it
SubmitItem ==
    /\ pc = "request" /\ kind[M] \in Commands
    /\ effects' = [effects EXCEPT ![M] = @ + 1]
    /\ Go("reply")
    /\ Unmoved /\ UNCHANGED chat

RequestProject ==
    /\ pc = "request" /\ kind[M] \in {"project", "slashProject"}
    /\ Go("lookup")
    /\ Unmoved /\ UNCHANGED <<chat, effects>>

\* handle_projectos_request
Request == \/ RequestProject
           \/ \E resolution \in Resolutions : Command \/ (resolution = "ok" /\ SubmitItem)

KeyOf(m) == IF kind[m] \in Slash THEN ChannelKey ELSE m

\* _lookup_creation_record: a replay, whose reply is taken for delivered
Replayed ==
    /\ pc = "lookup" /\ record[KeyOf(M)] # NoId
    /\ Go("mark")
    /\ Unmoved /\ UNCHANGED <<chat, effects>>

\* Mutant of Known: reservations are not looked at.
KnownRegistered == {i \in Ids : registry[i] # "none"}

\* _known_project_numbers
Known == reserved \cup {i \in Ids : registry[i] # "none"}

\* allocate_project_id: the number after the largest known
Allocate(i) ==
    /\ pc = "lookup" /\ record[KeyOf(M)] = NoId
    /\ \A k \in Known : k < i
    /\ i = 1 \/ i - 1 \in Known
    /\ reserved' = reserved \cup {i}
    /\ myId' = i /\ pc' = "bootstrap"
    /\ UNCHANGED <<slack, keys, chat, repos, registry, record, uses, batch, cur, snapshot,
                   operator, effects, answers, faults>>

\* bootstrap_project_repository
Bootstrap ==
    /\ pc = "bootstrap"
    /\ repos' = repos \cup {myId}
    /\ Go("load")
    /\ UNCHANGED <<slack, keys, chat, reserved, registry, record, uses, operator, effects,
                   answers, faults>>

\* release_project_id and _remove_repository_tree
Withdraw ==
    /\ reserved' = reserved \ {myId}
    /\ repos' = repos \ {myId}
    /\ Go("reply")

\* The virtual environment, projectctl's database or its validation fails
\* (_initialize_projectctl, validate_project_control_state).
BootstrapFails ==
    /\ pc = "bootstrap"
    /\ Withdraw
    /\ UNCHANGED <<slack, keys, chat, registry, record, uses, operator, effects, answers, faults>>

\* The repository cannot be registered, another project has the id, or the
\* registry cannot be read back: then the entry stays.
CreationFails ==
    /\ pc \in {"persist", "readback"} \/ (pc = "load" /\ registry[myId] # "none")
    /\ Withdraw
    /\ UNCHANGED <<slack, keys, chat, registry, record, uses, operator, effects, answers, faults>>

\* register_project reads the registry, validates the repository ...
RegisterLoad ==
    /\ pc = "load" /\ registry[myId] = "none"
    /\ snapshot' = registry
    /\ pc' = "persist"
    /\ UNCHANGED <<slack, keys, chat, creation, batch, cur, myId, operator, effects, answers,
                   faults>>

\* ... replaces the file by what it read with the new entry ...
RegisterPersist ==
    /\ pc = "persist"
    /\ registry' = [snapshot EXCEPT ![myId] = "daemon"]
    /\ effects' = [effects EXCEPT ![M] = @ + 1]
    /\ Go("readback")
    /\ UNCHANGED <<slack, keys, chat, reserved, repos, record, uses, operator, answers, faults>>

\* ... and reads it back: persist_registry ends with load_registry
RegisterReadBack ==
    /\ pc = "readback"
    /\ uses' = [uses EXCEPT ![myId] = @ + 1]
    /\ Go("handoff")
    /\ UNCHANGED <<slack, keys, chat, reserved, repos, registry, record, operator, effects,
                   answers, faults>>

\* Mutant of HandoffFails: it cleans up as for a failed registration.
HandoffFailsClean ==
    /\ pc = "handoff"
    /\ Withdraw
    /\ UNCHANGED <<slack, keys, chat, registry, record, uses, operator, effects, answers, faults>>

\* accept_sponsor_handoff raises: the answer is the error, no record is made
HandoffFails ==
    /\ pc = "handoff"
    /\ Go("reply")
    /\ Unmoved /\ UNCHANGED <<chat, effects>>

\* accept_sponsor_handoff commits the session, the run ...
HandoffAccepted ==
    /\ pc = "handoff"
    /\ Go("record")
    /\ Unmoved /\ UNCHANGED <<chat, effects>>

\* ... and PROJECT_CREATED and _record_creation follow in another transaction
RecordCreation ==
    /\ pc = "record"
    /\ record' = [record EXCEPT ![KeyOf(M)] = myId]
    /\ answers' = [answers EXCEPT ![M] = @ + 1]
    /\ Go("mark")
    /\ UNCHANGED <<slack, keys, chat, reserved, repos, registry, uses, operator, effects, faults>>
-----------------------------------------------------------------------------
(* What goes wrong. *)

\* Mutant of KeysAfterRaise: the keys are given back, so that the retry runs.
KeysAfterRaise_Released == keys \ {M}

\* the dedup keys stay claimed
KeysAfterRaise == keys

\* An exception escapes _execute_work_item (the database is locked, a file
\* cannot be written): the item is pending again, its attempts unchanged.
Raise ==
    /\ pc \notin {"idle", "next", "chat", "working", "preview"} /\ faults < FaultBound
    /\ faults' = faults + 1
    /\ row' = [row EXCEPT ![cur] = "pending"]
    /\ keys' = KeysAfterRaise
    /\ pc' = "next" /\ cur' = NoEnvelope /\ myId' = NoId /\ snapshot' = Empty
    /\ UNCHANGED <<kind, chat, creation, batch, operator, effects, answers>>

\* The daemon dies; what it has claimed stays claimed until the lease ends.
Crash ==
    /\ pc # "idle" /\ faults < FaultBound
    /\ faults' = faults + 1
    /\ batch' = {} /\ pc' = "idle" /\ cur' = NoEnvelope /\ myId' = NoId /\ snapshot' = Empty
    /\ UNCHANGED <<slack, keys, chat, creation, operator, effects, answers>>

\* The preview is saved, and an error takes its place in the reply: from what
\* follows in the handoff (_process_handoff answers it) or from
\* _flush_projectos_outbox after the commit.
PreviewLost ==
    /\ pc = "preview" /\ faults < FaultBound
    /\ faults' = faults + 1
    /\ proposal' = [proposal EXCEPT !.preview = "saved"]
    /\ Go("reply")
    /\ UNCHANGED <<slack, keys, stored, project, shown, blind, creation, operator, effects, answers>>

\* The operator registers a repository that has an id already; the registry is
\* read ...  (Nothing but a project request could tell.)
OperatorLoad(i) ==
    /\ opId = NoId /\ registrations < OperatorBound /\ registry[i] = "none"
    /\ \E m \in Messages : kind[m] \in {"project", "slashProject"}
    /\ opId' = i /\ opSnapshot' = registry /\ registrations' = registrations + 1
    /\ UNCHANGED <<slack, keys, chat, creation, daemon, effects, answers, faults>>

\* ... and replaced after the repository was validated
OperatorPersist ==
    /\ opId # NoId
    /\ registry' = [opSnapshot EXCEPT ![opId] = "operator"]
    /\ opId' = NoId /\ opSnapshot' = Empty
    /\ UNCHANGED <<slack, keys, chat, reserved, repos, record, uses, daemon, registrations,
                   effects, answers, faults>>

Chat == \/ ChatAnswer \/ ChatUnresolved \/ ChatError \/ ChatHandoff \/ ChatDone
        \/ ChatPropose \/ ChatPreview \/ PreviewFails \/ ChatApprove

Create == \/ Replayed \/ (\E i \in Ids : Allocate(i)) \/ Bootstrap
          \/ BootstrapFails \/ CreationFails \/ RegisterLoad \/ RegisterPersist
          \/ RegisterReadBack \/ HandoffFails \/ HandoffAccepted \/ RecordCreation

Daemon == \/ ClaimBatch \/ (\E e \in Envelopes : Pick(e)) \/ EndBatch
          \/ ClaimKeys \/ Route \/ Release \/ Reply \/ Mark
          \/ Chat \/ Request \/ Create

Next ==
    \/ Socket \/ \E e \in Envelopes : Lapse(e)
    \/ Daemon \/ Raise \/ Crash \/ PreviewLost \/ Expire
    \/ (\E i \in OperatorIds : OperatorLoad(i)) \/ OperatorPersist

Spec == Init /\ [][Next]_vars

\* The daemon's loop goes on (it is started again after a crash), and leases
\* end.
Fairness == WF_vars(Daemon) /\ \A e \in Envelopes : WF_vars(Lapse(e))

FairSpec == Spec /\ Fairness
-----------------------------------------------------------------------------
(* Properties. *)

\* A message leads to at most one handoff, item, proposal, approval or project,
\* in however many envelopes it comes and whatever fails: its dedup keys are
\* claimed before the first effect and never given back after one.  A slash
\* command, which has no keys, is executed again only after a crash or an
\* exception.
EffectsPaidFor ==
    \A m \in Messages : effects[m] <= 1 + (IF kind[m] \in Slash THEN faults ELSE 0)

Unanswered == {m \in Messages :
    /\ kind[m] # "slashProject" /\ answers[m] = 0
    /\ \A e \in Envelopes : e[1] = m => row[e] \in {"absent", "succeeded"}
    /\ \E e \in Envelopes : e[1] = m /\ ~Overheard(e) /\ row[e] = "succeeded"}

\* A message that is worked off without an answer was swallowed by a crash or
\* an exception after its keys were claimed, one message for each: duplicates,
\* retries and released keys lose nothing.  (A second project request by slash
\* command is the exception: the channel's creation key is taken.)  That an
\* exception may cost a message is not what release_slack_events promises: see
\* the README on disagreements.
SilenceIsPaid == Cardinality(Unanswered) <= faults

\* The daemon never registers two projects under one id, although the registry
\* is read and written without a lock and an operator's write can undo its
\* entries: a reservation outlives them.
IdsUsedOnce == \A i \in Ids : uses[i] <= 1

\* A project that register_project returned keeps its repository and its id,
\* whatever fails later: only a creation that is answered as failed is cleaned
\* up, and its id is not the one of an earlier project.
CreatedKeepsRepo == \A i \in Ids : uses[i] > 0 => i \in repos /\ i \in reserved

\* A proposal is executed only if the sponsor's preview of it was in an answer,
\* but for one proposal for each fault: the preview is committed, and makes the
\* proposal approvable, before the answer that shows it.
ExecutedWasShown == Cardinality(blind) <= faults

\* Work that was stored is worked off in the end.
EventuallyHandled ==
    \A e \in Envelopes : row[e] = "pending" ~> row[e] = "succeeded"
=============================================================================
