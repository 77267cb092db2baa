----------------------------- MODULE EventOutbox -----------------------------
(***************************************************************************)
(* The event outbox (domain_events.py) and the dispatchers that post its     *)
(* rows to Slack (event_dispatcher.py).  The daemon loop, the Slack ingress  *)
(* and the ChatGPT handler all call dispatch_event_outbox, each in its own   *)
(* thread or process.                                                        *)
(*                                                                           *)
(* Rows are numbered in the order of their insertion.  Slack is external: a  *)
(* post succeeds, is refused ("ok": false, which nobody looks at), raises, or *)
(* succeeds with an answer that never arrives.                               *)
(* Lease time is one bit per claim, "claim_expires_at < now".                *)
(***************************************************************************)
EXTENDS Integers, FiniteSets

CONSTANTS
    RowBound,        \* bound on the rows ever emitted
    StreamOf(_),     \* row -> channel, thread and run it belongs to
    Unroutable,      \* rows without a slack_channel_id
    Detailed,        \* rows whose detail_level exceeds the lower sponsor level
    DispatcherBound,
    BatchLimit,      \* limit of claim_pending_outbox (25)
    MaxTries,        \* attempts after which a row is dead (10)
    CrashBound,      \* bound on dispatcher crashes
    FaultSets        \* the combinations of faults a behaviour may meet: "lost"
                     \* answers, "refused" posts, "slow" batches, changes of the
                     \* sponsor's "level", and a "second" dispatcher at work

ASSUME OutboxAssumption ==
    /\ RowBound \in Nat
    /\ BatchLimit \in Nat \ {0} /\ MaxTries \in Nat \ {0} /\ CrashBound \in Nat
    /\ DispatcherBound \in Nat \ {0}
    /\ FaultSets \subseteq SUBSET {"lost", "refused", "slow", "level", "second"}

Rows == 1..RowBound
NoRow == 0
Dispatchers == 1..DispatcherBound

VARIABLES
    status,      \* event_outbox.status, "absent" before the INSERT
    attempts,    \* event_outbox.attempts
    blockedBy,   \* event_outbox.blocked_by_outbox_id
    lapsed,      \* whether the row's claim has expired
    batch,       \* dispatcher -> claimed rows it has not handled yet
    held,        \* dispatcher -> blocked_streams: the rows that failed
    posted,      \* dispatcher -> row posted but not yet marked
    quiet,       \* dispatcher -> sponsor level it read: TRUE drops Detailed rows
    level,       \* the sponsor's level now
    posts,       \* row -> messages Slack has shown for it
    crashes,
    faults       \* what may go wrong in this behaviour

table == <<status, attempts, blockedBy, lapsed>>
local == <<batch, held, posted, quiet>>
vars == <<table, local, level, posts, crashes, faults>>

RowStatuses == {"absent", "pending", "claimed", "delivered", "unroutable",
                "blocked", "dead"}

TypeOK ==
    /\ status \in [Rows -> RowStatuses]
    /\ attempts \in [Rows -> Nat]
    /\ blockedBy \in [Rows -> Rows \cup {NoRow}]
    /\ lapsed \in [Rows -> BOOLEAN]
    /\ batch \in [Dispatchers -> SUBSET Rows]
    /\ held \in [Dispatchers -> SUBSET Rows]
    /\ posted \in [Dispatchers -> Rows \cup {NoRow}]
    /\ quiet \in [Dispatchers -> BOOLEAN]
    /\ level \in BOOLEAN
    /\ posts \in [Rows -> Nat]
    /\ crashes \in Nat
    /\ faults \in FaultSets

Init ==
    /\ status = [r \in Rows |-> "absent"]
    /\ attempts = [r \in Rows |-> 0]
    /\ blockedBy = [r \in Rows |-> NoRow]
    /\ lapsed = [r \in Rows |-> FALSE]
    /\ batch = [d \in Dispatchers |-> {}]
    /\ held = [d \in Dispatchers |-> {}]
    /\ posted = [d \in Dispatchers |-> NoRow]
    /\ quiet = [d \in Dispatchers |-> FALSE]
    /\ level = FALSE
    /\ posts = [r \in Rows |-> 0]
    /\ crashes = 0
    /\ faults \in FaultSets
-----------------------------------------------------------------------------
\* emit_projectos_event
Emit(r) ==
    /\ status[r] = "absent"
    /\ \A q \in Rows : q < r => status[q] # "absent"
    /\ status' = [status EXCEPT ![r] = "pending"]
    /\ UNCHANGED <<attempts, blockedBy, lapsed, local, level, posts, crashes, faults>>

\* Mutants of Lapsed: a claim is given back before it expires, or never.
LapsedAtOnce == {r \in Rows : status[r] = "claimed"}
LapsedNever == {}

Lapsed == {r \in Rows : status[r] = "claimed" /\ lapsed[r]}

\* list_pending_subscriber_outbox, after the lapsed claims were given back:
\* the oldest BatchLimit rows.
Pending == {r \in Rows : (status[r] = "pending" \/ r \in Lapsed) /\ attempts[r] < MaxTries}
Oldest(S) == {r \in S : Cardinality({q \in S : q < r}) < BatchLimit}

\* claim_pending_outbox; its first statement is an UPDATE, so that it is one
\* transaction.
Claim(d) ==
    /\ batch[d] = {} /\ (d > 1 => "second" \in faults)
    /\ Lapsed \cup Pending # {}
    /\ status' = [r \in Rows |-> IF r \in Oldest(Pending) THEN "claimed"
                                 ELSE IF r \in Lapsed THEN "pending" ELSE status[r]]
    /\ lapsed' = [r \in Rows |-> lapsed[r] /\ r \notin Oldest(Pending) \cup Lapsed]
    /\ blockedBy' = [r \in Rows |-> IF r \in Lapsed THEN NoRow ELSE blockedBy[r]]
    /\ batch' = [batch EXCEPT ![d] = Oldest(Pending)]
    /\ held' = [held EXCEPT ![d] = {}]
    /\ quiet' = [quiet EXCEPT ![d] = level]
    /\ UNCHANGED <<attempts, posted, level, posts, crashes, faults>>
-----------------------------------------------------------------------------
(* One row of the batch, in order.  None of the mark_subscriber_* statements  *)
(* looks at the status or the claim it replaces.                              *)

Current(d, r) ==
    r \in batch[d] /\ posted[d] = NoRow /\ \A q \in batch[d] : r <= q
HeldUp(d, r) == {q \in held[d] : StreamOf(q) = StreamOf(r)}

\* blocked_streams keeps the latest failure of a stream; a stream fails once
\* per batch, since its later rows are held.
MarkBlocked(d, r) ==
    \E q \in HeldUp(d, r) :
        /\ status' = [status EXCEPT ![r] = "blocked"]
        /\ blockedBy' = [blockedBy EXCEPT ![r] = q]

Handled(d, r) ==
    /\ batch' = [batch EXCEPT ![d] = @ \ {r}]
    /\ lapsed' = [lapsed EXCEPT ![r] = FALSE]
    /\ UNCHANGED <<quiet, level, crashes, faults>>

Hold(d, r) ==
    /\ Current(d, r) /\ HeldUp(d, r) # {}
    /\ MarkBlocked(d, r)
    /\ Handled(d, r)
    /\ UNCHANGED <<attempts, held, posted, posts>>

\* Mutant of Dropped: >= for > in the comparison of the levels.
DroppedAtLevel(d, r) == quiet[d]

Dropped(d, r) == quiet[d] /\ r \in Detailed

\* _should_project says no: delivered without a post, and without releasing
\* the rows that wait for this one.
Drop(d, r) ==
    /\ Current(d, r) /\ HeldUp(d, r) = {} /\ Dropped(d, r)
    /\ status' = [status EXCEPT ![r] = "delivered"]
    /\ blockedBy' = [blockedBy EXCEPT ![r] = NoRow]
    /\ Handled(d, r)
    /\ UNCHANGED <<attempts, held, posted, posts>>

MarkUnroutable(d, r) ==
    /\ Current(d, r) /\ HeldUp(d, r) = {} /\ ~Dropped(d, r) /\ r \in Unroutable
    /\ status' = [status EXCEPT ![r] = "unroutable"]
    /\ Handled(d, r)
    /\ UNCHANGED <<attempts, blockedBy, held, posted, posts>>

Postable(d, r) ==
    Current(d, r) /\ HeldUp(d, r) = {} /\ ~Dropped(d, r) /\ r \notin Unroutable

\* post_message returns, with whatever Slack answered.
Post(d, r) ==
    /\ Postable(d, r)
    /\ \/ posts' = [posts EXCEPT ![r] = @ + 1]
       \/ "refused" \in faults /\ UNCHANGED posts
    /\ posted' = [posted EXCEPT ![d] = r]
    /\ UNCHANGED <<table, batch, held, quiet, level, crashes, faults>>

\* Mutant of MarkDelivered: without release_blocked_outbox.
MarkDeliveredOnly(d, r) ==
    /\ posted[d] = r
    /\ status' = [status EXCEPT ![r] = "delivered"]
    /\ blockedBy' = [blockedBy EXCEPT ![r] = NoRow]
    /\ posted' = [posted EXCEPT ![d] = NoRow]
    /\ Handled(d, r)
    /\ UNCHANGED <<attempts, held, posts>>

\* mark_subscriber_delivered and release_blocked_outbox, one transaction.
MarkDelivered(d, r) ==
    /\ posted[d] = r
    /\ status' = [q \in Rows |-> IF q = r THEN "delivered"
                                 ELSE IF status[q] = "blocked" /\ blockedBy[q] = r
                                 THEN "pending" ELSE status[q]]
    /\ blockedBy' = [q \in Rows |-> IF q = r \/ (status[q] = "blocked" /\ blockedBy[q] = r)
                                    THEN NoRow ELSE blockedBy[q]]
    /\ posted' = [posted EXCEPT ![d] = NoRow]
    /\ Handled(d, r)
    /\ UNCHANGED <<attempts, held, posts>>

\* post_message raises, before Slack got the message or after.
MarkFailed(d, r) ==
    /\ Postable(d, r)
    /\ \/ UNCHANGED posts
       \/ "lost" \in faults /\ posts' = [posts EXCEPT ![r] = @ + 1]
    /\ attempts' = [attempts EXCEPT ![r] = @ + 1]
    /\ status' = [status EXCEPT ![r] = IF attempts[r] + 1 >= MaxTries THEN "dead"
                                       ELSE "pending"]
    /\ held' = [held EXCEPT ![d] = @ \cup {r}]
    /\ Handled(d, r)
    /\ UNCHANGED <<blockedBy, posted>>
-----------------------------------------------------------------------------
\* The process dies; what it had claimed stays claimed.
Crash(d) ==
    /\ batch[d] # {} /\ crashes < CrashBound
    /\ batch' = [batch EXCEPT ![d] = {}]
    /\ posted' = [posted EXCEPT ![d] = NoRow]
    /\ crashes' = crashes + 1
    /\ UNCHANGED <<table, held, quiet, level, posts, faults>>

\* lease_seconds (300) go by.  A batch of 25 posts of 20 s each may take longer.
ClaimLapses(r) ==
    /\ status[r] = "claimed" /\ ~lapsed[r]
    /\ "slow" \in faults \/ \A d \in Dispatchers : r \notin batch[d]
    /\ lapsed' = [lapsed EXCEPT ![r] = TRUE]
    /\ UNCHANGED <<status, attempts, blockedBy, local, level, posts, crashes, faults>>

\* The sponsor changes activity_detail_level.
SetLevel ==
    /\ "level" \in faults
    /\ level' = ~level
    /\ UNCHANGED <<table, local, posts, crashes, faults>>

Handle(d) ==
    \E r \in Rows : \/ Hold(d, r) \/ Drop(d, r) \/ MarkUnroutable(d, r)
                    \/ Post(d, r) \/ MarkDelivered(d, r) \/ MarkFailed(d, r)

Next ==
    \/ \E r \in Rows : Emit(r) \/ ClaimLapses(r)
    \/ \E d \in Dispatchers : Claim(d) \/ Handle(d) \/ Crash(d)
    \/ SetLevel

Spec == Init /\ [][Next]_vars

\* The daemon loop calls the dispatcher over and over, a dispatcher goes on
\* with its batch until it dies, and time passes.
Fairness ==
    /\ \A d \in Dispatchers : WF_vars(Claim(d)) /\ WF_vars(Handle(d))
    /\ \A r \in Rows : WF_vars(ClaimLapses(r))

FairSpec == Spec /\ Fairness
-----------------------------------------------------------------------------
(* Properties. *)

\* No two dispatchers have claimed the same row, as long as no batch outlives
\* its claims: the conditional UPDATE of claim_pending_outbox gives a row away
\* once, and a lapsed claim is given back only when its dispatcher is gone.
ClaimExclusive ==
    "slow" \notin faults =>
        \A c, d \in Dispatchers : batch[c] \cap batch[d] # {} => c = d

\* An event is shown once, and once more at most for each failed attempt (its
\* answer was lost) and each crash of a dispatcher (before it marked the row),
\* as long as no batch outlives its claims.
DuplicatesArePaid ==
    "slow" \notin faults => \A r \in Rows : posts[r] <= 1 + attempts[r] + crashes

\* Unless Slack refuses a post, a row that is marked delivered was shown, or
\* was dropped for its level, whatever crashes and answers get lost: the
\* unguarded mark_subscriber_delivered follows a post of the same dispatcher.
AtLeastOnce ==
    "refused" \notin faults =>
        \A r \in Rows \ Detailed : status[r] = "delivered" => posts[r] > 0

\* With one dispatcher at the same sponsor level a row is held only behind an
\* older row that is still to be delivered, that is held itself, or that is
\* dead.  (A row is held behind a held one when the claim of a dead dispatcher
\* on an older row of the stream lapses late.)
HeldBehindUnsettled ==
    {"second", "level"} \cap faults = {}
        => \A r \in Rows : status[r] = "blocked"
              => /\ blockedBy[r] < r
                 /\ status[blockedBy[r]] \in {"pending", "claimed", "blocked", "dead"}

Settled == {"delivered", "unroutable", "dead"}

\* With one dispatcher at the same sponsor level, which may die and whose
\* answers may get lost, every event emitted is delivered, unroutable or dead in
\* the end, or held for ever because an older one of its stream is dead.
EventuallySettled ==
    \A r \in Rows : (status[r] = "pending" /\ {"second", "level"} \cap faults = {})
        ~> \/ status[r] \in Settled
           \/ /\ status[r] = "blocked"
              /\ \E q \in Rows : q < r /\ StreamOf(q) = StreamOf(r) /\ status[q] = "dead"
=============================================================================
