------------------------- MODULE EventOutboxProofs -------------------------
(***************************************************************************)
(* The safety properties of the event outbox for any number of rows, streams, *)
(* dispatchers, tries and crashes.                                            *)
(***************************************************************************)
EXTENDS EventOutbox, TLAPS

\* A row that was posted and is not marked yet is still in the batch.
PostedInv == \A d \in Dispatchers : posted[d] # NoRow => posted[d] \in batch[d]

\* While no batch outlives its claims, what a dispatcher has in its batch is
\* claimed by it alone.
ClaimInv ==
    "slow" \notin faults =>
        /\ \A d \in Dispatchers : \A r \in batch[d] : status[r] = "claimed" /\ ~lapsed[r]
        /\ \A c, d \in Dispatchers : \A r \in Rows : r \in batch[c] /\ r \in batch[d] => c = d

\* The posts of a row are paid by failed attempts and crashes, but for the one
\* that delivers it.
PaidInv ==
    "slow" \notin faults =>
        \A r \in Rows :
            /\ posts[r] <= attempts[r] + crashes + 1
            /\ status[r] # "delivered" /\ (\A d \in Dispatchers : posted[d] # r)
                   => posts[r] <= attempts[r] + crashes

\* A row is marked delivered after its post.
ShownInv ==
    "refused" \notin faults =>
        /\ \A d \in Dispatchers : posted[d] # NoRow => posts[posted[d]] > 0
        /\ \A r \in Rows \ Detailed : status[r] = "delivered" => posts[r] > 0

Alone == {"second", "level"} \cap faults = {}

\* At one level nothing is dropped.
QuietInv == "level" \notin faults => ~level /\ \A d \in Dispatchers : ~quiet[d]

\* The batch of a single dispatcher is claimed.
SoleInv ==
    "second" \notin faults =>
        /\ \A d \in Dispatchers \ {1} : batch[d] = {} /\ held[d] = {}
        /\ \A r \in batch[1] : status[r] = "claimed"

\* The rows it holds others behind come before the rest of its batch, and are
\* pending or dead.
HoldingInv ==
    Alone =>
        \A d \in Dispatchers : \A q \in held[d] :
            /\ q \notin Unroutable /\ status[q] \in {"pending", "dead"}
            /\ \A r \in batch[d] : q < r

\* A held row waits for an older one that can be posted and is not settled.
BlockedInv ==
    Alone =>
        \A r \in Rows : status[r] = "blocked" =>
            /\ blockedBy[r] \in Rows /\ blockedBy[r] < r /\ blockedBy[r] \notin Unroutable
            /\ status[blockedBy[r]] \in {"pending", "claimed", "blocked", "dead"}
-----------------------------------------------------------------------------
\* Rows and dispatchers are numbers, and 0 is neither.
LEMMA Constants == Rows \subseteq Nat /\ NoRow \notin Rows /\ NoRow \in Nat
                   /\ Dispatchers \subseteq Nat \ {0} /\ 1 \in Dispatchers
BY OutboxAssumption DEF Rows, NoRow, Dispatchers

\* What a batch is made of.
LEMMA OldestPending == Oldest(Pending) \subseteq Pending /\ Pending \subseteq Rows
    /\ Lapsed \subseteq Rows
BY DEF Oldest, Pending, Lapsed

\* What claim_pending_outbox does to the rows and to the batches.
LEMMA ClaimEffect ==
    ASSUME TypeOK, NEW d \in Dispatchers, Claim(d)
    PROVE  /\ batch[d] = {} /\ batch'[d] = Oldest(Pending) /\ held'[d] = {}
           /\ \A c \in Dispatchers \ {d} : batch'[c] = batch[c] /\ held'[c] = held[c]
           /\ \A r \in Oldest(Pending) : status'[r] = "claimed" /\ ~lapsed'[r]
           /\ \A r \in Rows : r \notin Oldest(Pending) \cup Lapsed =>
                 status'[r] = status[r] /\ (lapsed'[r] => lapsed[r])
           /\ \A r \in Lapsed \ Oldest(Pending) : status'[r] = "pending"
           /\ \A r \in Rows \ Lapsed : blockedBy'[r] = blockedBy[r]
           /\ \A r \in Oldest(Pending) : status[r] \in {"pending", "claimed"}
           /\ UNCHANGED <<posted, posts, attempts, crashes, faults>>
<1> USE Constants, OldestPending DEF TypeOK
<1>1. \A r \in Rows : lapsed'[r] = (lapsed[r] /\ r \notin Oldest(Pending) \cup Lapsed)
  BY Zenon DEF Claim
<1>2. /\ \A r \in Oldest(Pending) : ~lapsed'[r]
      /\ \A r \in Rows : r \notin Oldest(Pending) \cup Lapsed => (lapsed'[r] => lapsed[r])
  BY <1>1, Zenon
<1>3. \A r \in Oldest(Pending) : status[r] \in {"pending", "claimed"}
  BY DEF Pending, Lapsed
<1>4. \A r \in Rows : status'[r] = IF r \in Oldest(Pending) THEN "claimed"
                                   ELSE IF r \in Lapsed THEN "pending" ELSE status[r]
  BY Zenon DEF Claim
<1>5. /\ batch[d] = {} /\ batch'[d] = Oldest(Pending) /\ held'[d] = {}
      /\ \A c \in Dispatchers \ {d} : batch'[c] = batch[c] /\ held'[c] = held[c]
      /\ UNCHANGED <<posted, posts, attempts, crashes, faults>>
  BY DEF Claim
<1>6. \A r \in Rows \ Lapsed : blockedBy'[r] = blockedBy[r]
  BY Zenon DEF Claim
<1> QED BY <1>2, <1>3, <1>4, <1>5, <1>6

\* Every step keeps the types.
LEMMA TypeStep ==
    ASSUME TypeOK, Next
    PROVE  TypeOK'
<1> USE Constants DEF table, local
<1> USE DEF TypeOK, RowStatuses
<1>1. ASSUME NEW r \in Rows, Emit(r) PROVE TypeOK'
  BY <1>1 DEF Emit
<1>2. ASSUME NEW r \in Rows, ClaimLapses(r) PROVE TypeOK'
  BY <1>2 DEF ClaimLapses
<1>3. ASSUME NEW d \in Dispatchers, Claim(d) PROVE TypeOK'
  BY <1>3, OldestPending DEF Claim
<1>4. ASSUME NEW d \in Dispatchers, Crash(d) PROVE TypeOK'
  BY <1>4 DEF Crash
<1>5. ASSUME NEW d \in Dispatchers, NEW r \in Rows, Hold(d, r) PROVE TypeOK'
  BY <1>5 DEF Hold, MarkBlocked, HeldUp, Current, Handled
<1>6. ASSUME NEW d \in Dispatchers, NEW r \in Rows, Drop(d, r) PROVE TypeOK'
  BY <1>6 DEF Drop, Current, Dropped, Handled
<1>7. ASSUME NEW d \in Dispatchers, NEW r \in Rows, MarkUnroutable(d, r) PROVE TypeOK'
  BY <1>7 DEF MarkUnroutable, Current, Handled
<1>8. ASSUME NEW d \in Dispatchers, NEW r \in Rows, Post(d, r) PROVE TypeOK'
  BY <1>8 DEF Post, Postable, Current
<1>9. ASSUME NEW d \in Dispatchers, NEW r \in Rows, MarkDelivered(d, r) PROVE TypeOK'
  BY <1>9 DEF MarkDelivered, Handled
<1>10. ASSUME NEW d \in Dispatchers, NEW r \in Rows, MarkFailed(d, r) PROVE TypeOK'
  BY <1>10 DEF MarkFailed, Postable, Current, Handled
<1>11. CASE SetLevel
  BY <1>11 DEF SetLevel
<1> QED BY <1>1, <1>2, <1>3, <1>4, <1>5, <1>6, <1>7, <1>8, <1>9, <1>10, <1>11
    DEF Next, Handle

\* Every step keeps PostedInv.
LEMMA PostedStep ==
    ASSUME TypeOK, PostedInv, Next
    PROVE  PostedInv'
<1> USE Constants DEF table, local, PostedInv
<1>0. /\ status \in [Rows -> RowStatuses] /\ attempts \in [Rows -> Nat]
      /\ blockedBy \in [Rows -> Rows \cup {NoRow}] /\ lapsed \in [Rows -> BOOLEAN]
      /\ batch \in [Dispatchers -> SUBSET Rows] /\ held \in [Dispatchers -> SUBSET Rows]
      /\ posted \in [Dispatchers -> Rows \cup {NoRow}] /\ quiet \in [Dispatchers -> BOOLEAN]
      /\ posts \in [Rows -> Nat] /\ crashes \in Nat
  BY DEF TypeOK
<1> USE <1>0
<1>1. ASSUME NEW r \in Rows, Emit(r) PROVE PostedInv'
  BY <1>1 DEF Emit
<1>2. ASSUME NEW r \in Rows, ClaimLapses(r) PROVE PostedInv'
  BY <1>2 DEF ClaimLapses
<1>3. ASSUME NEW d \in Dispatchers, Claim(d) PROVE PostedInv'
  BY <1>3 DEF Claim
<1>4. ASSUME NEW d \in Dispatchers, Crash(d) PROVE PostedInv'
  BY <1>4 DEF Crash
<1>5. ASSUME NEW d \in Dispatchers, NEW r \in Rows, Hold(d, r) PROVE PostedInv'
  BY <1>5 DEF Hold, MarkBlocked, HeldUp, Current, Handled
<1>6. ASSUME NEW d \in Dispatchers, NEW r \in Rows, Drop(d, r) PROVE PostedInv'
  BY <1>6 DEF Drop, Current, Dropped, Handled
<1>7. ASSUME NEW d \in Dispatchers, NEW r \in Rows, MarkUnroutable(d, r) PROVE PostedInv'
  BY <1>7 DEF MarkUnroutable, Current, Handled
<1>8. ASSUME NEW d \in Dispatchers, NEW r \in Rows, Post(d, r) PROVE PostedInv'
  BY <1>8 DEF Post, Postable, Current
<1>9. ASSUME NEW d \in Dispatchers, NEW r \in Rows, MarkDelivered(d, r) PROVE PostedInv'
  BY <1>9 DEF MarkDelivered, Handled
<1>10. ASSUME NEW d \in Dispatchers, NEW r \in Rows, MarkFailed(d, r) PROVE PostedInv'
  BY <1>10 DEF MarkFailed, Postable, Current, Handled
<1>11. CASE SetLevel
  BY <1>11 DEF SetLevel
<1> QED BY <1>1, <1>2, <1>3, <1>4, <1>5, <1>6, <1>7, <1>8, <1>9, <1>10, <1>11
    DEF Next, Handle

\* Every step keeps ClaimInv.
LEMMA ClaimStep ==
    ASSUME TypeOK, PostedInv, ClaimInv, Next
    PROVE  ClaimInv'
<1> USE Constants DEF table, local, PostedInv, ClaimInv
<1>0. /\ status \in [Rows -> RowStatuses] /\ attempts \in [Rows -> Nat]
      /\ blockedBy \in [Rows -> Rows \cup {NoRow}] /\ lapsed \in [Rows -> BOOLEAN]
      /\ batch \in [Dispatchers -> SUBSET Rows] /\ held \in [Dispatchers -> SUBSET Rows]
      /\ posted \in [Dispatchers -> Rows \cup {NoRow}] /\ quiet \in [Dispatchers -> BOOLEAN]
      /\ posts \in [Rows -> Nat] /\ crashes \in Nat
  BY DEF TypeOK
<1> USE <1>0
<1>1. ASSUME NEW r \in Rows, Emit(r) PROVE ClaimInv'
  BY <1>1 DEF Emit
<1>2. ASSUME NEW r \in Rows, ClaimLapses(r) PROVE ClaimInv'
  BY <1>2 DEF ClaimLapses
<1>3. ASSUME NEW d \in Dispatchers, Claim(d) PROVE ClaimInv'
  <2>1. "slow" \notin faults => \A c \in Dispatchers : \A r \in batch[c] :
            r \notin Oldest(Pending) \cup Lapsed
    BY OldestPending DEF Pending, Lapsed
  <2> SUFFICES ASSUME "slow" \notin faults'
               PROVE  /\ \A c \in Dispatchers : \A r \in batch'[c] : status'[r] = "claimed"
                             /\ ~lapsed'[r]
                      /\ \A c, e \in Dispatchers : \A r \in Rows : r \in batch'[c]
                             /\ r \in batch'[e] => c = e
    OBVIOUS
  <2>2. "slow" \notin faults
    BY <1>3, ClaimEffect
  <2>3. ASSUME NEW c \in Dispatchers, NEW r \in batch'[c]
        PROVE status'[r] = "claimed" /\ ~lapsed'[r]
    <3>1. CASE c = d
      BY <1>3, <2>3, <3>1, ClaimEffect
    <3>2. CASE c # d
      <4>1. r \in batch[c] /\ r \in Rows
        BY <1>3, <2>3, <3>2, ClaimEffect
      <4>2. status'[r] = status[r] /\ (lapsed'[r] => lapsed[r])
        BY <1>3, <2>1, <2>2, <4>1, ClaimEffect
      <4> QED BY <2>2, <4>1, <4>2
    <3> QED BY <3>1, <3>2
  <2>4. ASSUME NEW c \in Dispatchers, NEW e \in Dispatchers, NEW r \in Rows,
               r \in batch'[c], r \in batch'[e]
        PROVE  c = e
    <3>1. CASE c # d /\ e # d
      BY <1>3, <2>2, <2>4, <3>1, ClaimEffect
    <3>2. ASSUME c # e, c = d PROVE FALSE
      BY <1>3, <2>1, <2>2, <2>4, <3>2, ClaimEffect
    <3>3. ASSUME c # e, e = d PROVE FALSE
      BY <1>3, <2>1, <2>2, <2>4, <3>3, ClaimEffect
    <3> QED BY <3>1, <3>2, <3>3
  <2> QED BY <2>3, <2>4
<1>4. ASSUME NEW d \in Dispatchers, Crash(d) PROVE ClaimInv'
  BY <1>4 DEF Crash
<1>5. ASSUME NEW d \in Dispatchers, NEW r \in Rows, Hold(d, r) PROVE ClaimInv'
  BY <1>5 DEF Hold, MarkBlocked, HeldUp, Current, Handled
<1>6. ASSUME NEW d \in Dispatchers, NEW r \in Rows, Drop(d, r) PROVE ClaimInv'
  BY <1>6 DEF Drop, Current, Dropped, Handled
<1>7. ASSUME NEW d \in Dispatchers, NEW r \in Rows, MarkUnroutable(d, r) PROVE ClaimInv'
  BY <1>7 DEF MarkUnroutable, Current, Handled
<1>8. ASSUME NEW d \in Dispatchers, NEW r \in Rows, Post(d, r) PROVE ClaimInv'
  BY <1>8 DEF Post, Postable, Current
<1>9. ASSUME NEW d \in Dispatchers, NEW r \in Rows, MarkDelivered(d, r) PROVE ClaimInv'
  BY <1>9 DEF MarkDelivered, Handled
<1>10. ASSUME NEW d \in Dispatchers, NEW r \in Rows, MarkFailed(d, r) PROVE ClaimInv'
  BY <1>10 DEF MarkFailed, Postable, Current, Handled
<1>11. CASE SetLevel
  BY <1>11 DEF SetLevel
<1> QED BY <1>1, <1>2, <1>3, <1>4, <1>5, <1>6, <1>7, <1>8, <1>9, <1>10, <1>11
    DEF Next, Handle

\* Every step keeps PaidInv.
LEMMA PaidStep ==
    ASSUME TypeOK, PostedInv, ClaimInv, PaidInv, Next
    PROVE  PaidInv'
<1> USE Constants DEF table, local, PostedInv, ClaimInv, PaidInv
<1>0. /\ status \in [Rows -> RowStatuses] /\ attempts \in [Rows -> Nat]
      /\ blockedBy \in [Rows -> Rows \cup {NoRow}] /\ lapsed \in [Rows -> BOOLEAN]
      /\ batch \in [Dispatchers -> SUBSET Rows] /\ held \in [Dispatchers -> SUBSET Rows]
      /\ posted \in [Dispatchers -> Rows \cup {NoRow}] /\ quiet \in [Dispatchers -> BOOLEAN]
      /\ posts \in [Rows -> Nat] /\ crashes \in Nat
  BY DEF TypeOK
<1> USE <1>0
<1>1. ASSUME NEW r \in Rows, Emit(r) PROVE PaidInv'
  BY <1>1 DEF Emit
<1>2. ASSUME NEW r \in Rows, ClaimLapses(r) PROVE PaidInv'
  BY <1>2 DEF ClaimLapses
<1>3. ASSUME NEW d \in Dispatchers, Claim(d) PROVE PaidInv'
  BY <1>3, OldestPending DEF Claim, Pending, Lapsed
<1>4. ASSUME NEW d \in Dispatchers, Crash(d) PROVE PaidInv'
  BY <1>4 DEF Crash
<1>5. ASSUME NEW d \in Dispatchers, NEW r \in Rows, Hold(d, r) PROVE PaidInv'
  BY <1>5 DEF Hold, MarkBlocked, HeldUp, Current, Handled
<1>6. ASSUME NEW d \in Dispatchers, NEW r \in Rows, Drop(d, r) PROVE PaidInv'
  BY <1>6 DEF Drop, Current, Dropped, Handled
<1>7. ASSUME NEW d \in Dispatchers, NEW r \in Rows, MarkUnroutable(d, r) PROVE PaidInv'
  BY <1>7 DEF MarkUnroutable, Current, Handled
<1>8. ASSUME NEW d \in Dispatchers, NEW r \in Rows, Post(d, r) PROVE PaidInv'
  BY <1>8 DEF Post, Postable, Current
<1>9. ASSUME NEW d \in Dispatchers, NEW r \in Rows, MarkDelivered(d, r) PROVE PaidInv'
  BY <1>9 DEF MarkDelivered, Handled
<1>10. ASSUME NEW d \in Dispatchers, NEW r \in Rows, MarkFailed(d, r) PROVE PaidInv'
  BY <1>10 DEF MarkFailed, Postable, Current, Handled
<1>11. CASE SetLevel
  BY <1>11 DEF SetLevel
<1> QED BY <1>1, <1>2, <1>3, <1>4, <1>5, <1>6, <1>7, <1>8, <1>9, <1>10, <1>11
    DEF Next, Handle

\* Every step keeps ShownInv.
LEMMA ShownStep ==
    ASSUME TypeOK, PostedInv, ShownInv, Next
    PROVE  ShownInv'
<1> USE Constants DEF table, local, PostedInv, ShownInv
<1>0. /\ status \in [Rows -> RowStatuses] /\ attempts \in [Rows -> Nat]
      /\ blockedBy \in [Rows -> Rows \cup {NoRow}] /\ lapsed \in [Rows -> BOOLEAN]
      /\ batch \in [Dispatchers -> SUBSET Rows] /\ held \in [Dispatchers -> SUBSET Rows]
      /\ posted \in [Dispatchers -> Rows \cup {NoRow}] /\ quiet \in [Dispatchers -> BOOLEAN]
      /\ posts \in [Rows -> Nat] /\ crashes \in Nat
  BY DEF TypeOK
<1> USE <1>0
<1>1. ASSUME NEW r \in Rows, Emit(r) PROVE ShownInv'
  BY <1>1 DEF Emit
<1>2. ASSUME NEW r \in Rows, ClaimLapses(r) PROVE ShownInv'
  BY <1>2 DEF ClaimLapses
<1>3. ASSUME NEW d \in Dispatchers, Claim(d) PROVE ShownInv'
  BY <1>3, OldestPending DEF Claim, Pending, Lapsed
<1>4. ASSUME NEW d \in Dispatchers, Crash(d) PROVE ShownInv'
  BY <1>4 DEF Crash
<1>5. ASSUME NEW d \in Dispatchers, NEW r \in Rows, Hold(d, r) PROVE ShownInv'
  BY <1>5 DEF Hold, MarkBlocked, HeldUp, Current, Handled
<1>6. ASSUME NEW d \in Dispatchers, NEW r \in Rows, Drop(d, r) PROVE ShownInv'
  BY <1>6 DEF Drop, Current, Dropped, Handled
<1>7. ASSUME NEW d \in Dispatchers, NEW r \in Rows, MarkUnroutable(d, r) PROVE ShownInv'
  BY <1>7 DEF MarkUnroutable, Current, Handled
<1>8. ASSUME NEW d \in Dispatchers, NEW r \in Rows, Post(d, r) PROVE ShownInv'
  <2>1. /\ faults' = faults /\ \A q \in Rows : posts'[q] \in Nat /\ posts'[q] >= posts[q]
        /\ posted' = [posted EXCEPT ![d] = r] /\ ("refused" \notin faults => posts'[r] > 0)
        /\ \A q \in Rows : status'[q] = "delivered" => status[q] = "delivered"
    BY <1>8 DEF Post, Postable, Current, Handled
  <2>2. ASSUME "refused" \notin faults, NEW e \in Dispatchers, posted'[e] # NoRow
        PROVE posts'[posted'[e]] > 0
    <3>1. CASE posted'[e] = posted[e]
      <4>1. posted[e] \in Rows /\ posts[posted[e]] > 0
        BY <2>2, <3>1
      <4>2. posts'[posted[e]] \in Nat /\ posts'[posted[e]] >= posts[posted[e]]
                /\ posts[posted[e]] \in Nat
        BY <2>1, <4>1
      <4>3. posts'[posted[e]] > 0
        BY <4>1, <4>2
      <4> QED BY <3>1, <4>3, Zenon
    <3> QED BY <2>1, <2>2, <3>1
  <2>3. ASSUME "refused" \notin faults, NEW q \in Rows \ Detailed, status'[q] = "delivered"
        PROVE posts'[q] > 0
    BY <2>1, <2>3
  <2> QED BY <2>1, <2>2, <2>3
<1>9. ASSUME NEW d \in Dispatchers, NEW r \in Rows, MarkDelivered(d, r) PROVE ShownInv'
  BY <1>9 DEF MarkDelivered, Handled
<1>10. ASSUME NEW d \in Dispatchers, NEW r \in Rows, MarkFailed(d, r) PROVE ShownInv'
  <2>1. /\ faults' = faults /\ \A q \in Rows : posts'[q] \in Nat /\ posts'[q] >= posts[q]
        /\ posted' = posted
        /\ \A q \in Rows : status'[q] = "delivered" => status[q] = "delivered"
    BY <1>10 DEF MarkFailed, Postable, Current, Handled
  <2>2. ASSUME "refused" \notin faults, NEW e \in Dispatchers, posted'[e] # NoRow
        PROVE posts'[posted'[e]] > 0
    <3>1. CASE posted'[e] = posted[e]
      <4>1. posted[e] \in Rows /\ posts[posted[e]] > 0
        BY <2>2, <3>1
      <4>2. posts'[posted[e]] \in Nat /\ posts'[posted[e]] >= posts[posted[e]]
                /\ posts[posted[e]] \in Nat
        BY <2>1, <4>1
      <4>3. posts'[posted[e]] > 0
        BY <4>1, <4>2
      <4> QED BY <3>1, <4>3, Zenon
    <3> QED BY <2>1, <2>2, <3>1
  <2>3. ASSUME "refused" \notin faults, NEW q \in Rows \ Detailed, status'[q] = "delivered"
        PROVE posts'[q] > 0
    BY <2>1, <2>3
  <2> QED BY <2>1, <2>2, <2>3
<1>11. CASE SetLevel
  BY <1>11 DEF SetLevel
<1> QED BY <1>1, <1>2, <1>3, <1>4, <1>5, <1>6, <1>7, <1>8, <1>9, <1>10, <1>11
    DEF Next, Handle

\* Every step keeps QuietInv.
LEMMA QuietStep ==
    ASSUME TypeOK, QuietInv, Next
    PROVE  QuietInv'
<1> USE Constants DEF table, local, QuietInv
<1>0. /\ status \in [Rows -> RowStatuses] /\ attempts \in [Rows -> Nat]
      /\ blockedBy \in [Rows -> Rows \cup {NoRow}] /\ lapsed \in [Rows -> BOOLEAN]
      /\ batch \in [Dispatchers -> SUBSET Rows] /\ held \in [Dispatchers -> SUBSET Rows]
      /\ posted \in [Dispatchers -> Rows \cup {NoRow}] /\ quiet \in [Dispatchers -> BOOLEAN]
      /\ posts \in [Rows -> Nat] /\ crashes \in Nat
  BY DEF TypeOK
<1> USE <1>0
<1>1. ASSUME NEW r \in Rows, Emit(r) PROVE QuietInv'
  BY <1>1 DEF Emit
<1>2. ASSUME NEW r \in Rows, ClaimLapses(r) PROVE QuietInv'
  BY <1>2 DEF ClaimLapses
<1>3. ASSUME NEW d \in Dispatchers, Claim(d) PROVE QuietInv'
  <2>1. quiet' = [quiet EXCEPT ![d] = level] /\ level' = level /\ faults' = faults
    BY <1>3, Zenon DEF Claim
  <2> QED BY <2>1
<1>4. ASSUME NEW d \in Dispatchers, Crash(d) PROVE QuietInv'
  BY <1>4 DEF Crash
<1>5. ASSUME NEW d \in Dispatchers, NEW r \in Rows, Hold(d, r) PROVE QuietInv'
  BY <1>5 DEF Hold, Handled
<1>6. ASSUME NEW d \in Dispatchers, NEW r \in Rows, Drop(d, r) PROVE QuietInv'
  BY <1>6 DEF Drop, Handled
<1>7. ASSUME NEW d \in Dispatchers, NEW r \in Rows, MarkUnroutable(d, r) PROVE QuietInv'
  BY <1>7 DEF MarkUnroutable, Handled
<1>8. ASSUME NEW d \in Dispatchers, NEW r \in Rows, Post(d, r) PROVE QuietInv'
  BY <1>8 DEF Post
<1>9. ASSUME NEW d \in Dispatchers, NEW r \in Rows, MarkDelivered(d, r) PROVE QuietInv'
  BY <1>9 DEF MarkDelivered, Handled
<1>10. ASSUME NEW d \in Dispatchers, NEW r \in Rows, MarkFailed(d, r) PROVE QuietInv'
  BY <1>10 DEF MarkFailed, Handled
<1>11. CASE SetLevel
  BY <1>11 DEF SetLevel
<1> QED BY <1>1, <1>2, <1>3, <1>4, <1>5, <1>6, <1>7, <1>8, <1>9, <1>10, <1>11
    DEF Next, Handle

\* Every step keeps SoleInv.
LEMMA SoleStep ==
    ASSUME TypeOK, PostedInv, SoleInv, Next
    PROVE  SoleInv'
<1> USE Constants DEF table, local, PostedInv, SoleInv
<1>0. /\ status \in [Rows -> RowStatuses] /\ attempts \in [Rows -> Nat]
      /\ blockedBy \in [Rows -> Rows \cup {NoRow}] /\ lapsed \in [Rows -> BOOLEAN]
      /\ batch \in [Dispatchers -> SUBSET Rows] /\ held \in [Dispatchers -> SUBSET Rows]
      /\ posted \in [Dispatchers -> Rows \cup {NoRow}] /\ quiet \in [Dispatchers -> BOOLEAN]
      /\ posts \in [Rows -> Nat] /\ crashes \in Nat
  BY DEF TypeOK
<1> USE <1>0
<1>1. ASSUME NEW r \in Rows, Emit(r) PROVE SoleInv'
  BY <1>1 DEF Emit
<1>2. ASSUME NEW r \in Rows, ClaimLapses(r) PROVE SoleInv'
  BY <1>2 DEF ClaimLapses
<1>3. ASSUME NEW d \in Dispatchers, Claim(d) PROVE SoleInv'
  BY <1>3, ClaimEffect, OldestPending DEF Claim
<1>4. ASSUME NEW d \in Dispatchers, Crash(d) PROVE SoleInv'
  BY <1>4 DEF Crash
<1>5. ASSUME NEW d \in Dispatchers, NEW r \in Rows, Hold(d, r) PROVE SoleInv'
  BY <1>5 DEF Hold, MarkBlocked, HeldUp, Current, Handled
<1>6. ASSUME NEW d \in Dispatchers, NEW r \in Rows, Drop(d, r) PROVE SoleInv'
  BY <1>6 DEF Drop, Current, Dropped, Handled
<1>7. ASSUME NEW d \in Dispatchers, NEW r \in Rows, MarkUnroutable(d, r) PROVE SoleInv'
  BY <1>7 DEF MarkUnroutable, Current, Handled
<1>8. ASSUME NEW d \in Dispatchers, NEW r \in Rows, Post(d, r) PROVE SoleInv'
  BY <1>8 DEF Post, Postable, Current
<1>9. ASSUME NEW d \in Dispatchers, NEW r \in Rows, MarkDelivered(d, r) PROVE SoleInv'
  BY <1>9 DEF MarkDelivered, Handled
<1>10. ASSUME NEW d \in Dispatchers, NEW r \in Rows, MarkFailed(d, r) PROVE SoleInv'
  BY <1>10 DEF MarkFailed, Postable, Current, Handled
<1>11. CASE SetLevel
  BY <1>11 DEF SetLevel
<1> QED BY <1>1, <1>2, <1>3, <1>4, <1>5, <1>6, <1>7, <1>8, <1>9, <1>10, <1>11
    DEF Next, Handle

\* Every step keeps HoldingInv.
LEMMA HoldingStep ==
    ASSUME TypeOK, PostedInv, SoleInv, HoldingInv, Next
    PROVE  HoldingInv'
<1> USE Constants DEF table, local, Alone, PostedInv, SoleInv, HoldingInv
<1>0. /\ status \in [Rows -> RowStatuses] /\ attempts \in [Rows -> Nat]
      /\ blockedBy \in [Rows -> Rows \cup {NoRow}] /\ lapsed \in [Rows -> BOOLEAN]
      /\ batch \in [Dispatchers -> SUBSET Rows] /\ held \in [Dispatchers -> SUBSET Rows]
      /\ posted \in [Dispatchers -> Rows \cup {NoRow}] /\ quiet \in [Dispatchers -> BOOLEAN]
      /\ posts \in [Rows -> Nat] /\ crashes \in Nat
  BY DEF TypeOK
<1> USE <1>0
<1>1. ASSUME NEW r \in Rows, Emit(r) PROVE HoldingInv'
  BY <1>1 DEF Emit
<1>2. ASSUME NEW r \in Rows, ClaimLapses(r) PROVE HoldingInv'
  BY <1>2 DEF ClaimLapses
<1>3. ASSUME NEW d \in Dispatchers, Claim(d) PROVE HoldingInv'
  BY <1>3, ClaimEffect, OldestPending DEF Claim
<1>4. ASSUME NEW d \in Dispatchers, Crash(d) PROVE HoldingInv'
  BY <1>4 DEF Crash
<1>5. ASSUME NEW d \in Dispatchers, NEW r \in Rows, Hold(d, r) PROVE HoldingInv'
  <2>1. /\ status' = [status EXCEPT ![r] = "blocked"] /\ held' = held /\ faults' = faults
        /\ batch' = [batch EXCEPT ![d] = batch[d] \ {r}] /\ r \in batch[d]
    BY <1>5 DEF Hold, MarkBlocked, Current, Handled
  <2>2. Alone => d = 1
    BY <2>1
  <2> QED BY <2>1, <2>2
<1>6. ASSUME NEW d \in Dispatchers, NEW r \in Rows, Drop(d, r) PROVE HoldingInv'
  BY <1>6 DEF Drop, Current, Dropped, Handled
<1>7. ASSUME NEW d \in Dispatchers, NEW r \in Rows, MarkUnroutable(d, r) PROVE HoldingInv'
  BY <1>7 DEF MarkUnroutable, Current, Handled
<1>8. ASSUME NEW d \in Dispatchers, NEW r \in Rows, Post(d, r) PROVE HoldingInv'
  BY <1>8 DEF Post, Postable, Current
<1>9. ASSUME NEW d \in Dispatchers, NEW r \in Rows, MarkDelivered(d, r) PROVE HoldingInv'
  BY <1>9 DEF MarkDelivered, Handled
<1>10. ASSUME NEW d \in Dispatchers, NEW r \in Rows, MarkFailed(d, r) PROVE HoldingInv'
  BY <1>10 DEF MarkFailed, Postable, Current, Handled
<1>11. CASE SetLevel
  BY <1>11 DEF SetLevel
<1> QED BY <1>1, <1>2, <1>3, <1>4, <1>5, <1>6, <1>7, <1>8, <1>9, <1>10, <1>11
    DEF Next, Handle

\* Every step keeps BlockedInv.
LEMMA BlockedStep ==
    ASSUME TypeOK, PostedInv, QuietInv, SoleInv, HoldingInv, BlockedInv, Next
    PROVE  BlockedInv'
<1> USE Constants DEF table, local, Alone, PostedInv, QuietInv, SoleInv, HoldingInv, BlockedInv
<1>0. /\ status \in [Rows -> RowStatuses] /\ attempts \in [Rows -> Nat]
      /\ blockedBy \in [Rows -> Rows \cup {NoRow}] /\ lapsed \in [Rows -> BOOLEAN]
      /\ batch \in [Dispatchers -> SUBSET Rows] /\ held \in [Dispatchers -> SUBSET Rows]
      /\ posted \in [Dispatchers -> Rows \cup {NoRow}] /\ quiet \in [Dispatchers -> BOOLEAN]
      /\ posts \in [Rows -> Nat] /\ crashes \in Nat
  BY DEF TypeOK
<1> USE <1>0
<1>1. ASSUME NEW r \in Rows, Emit(r) PROVE BlockedInv'
  BY <1>1 DEF Emit
<1>2. ASSUME NEW r \in Rows, ClaimLapses(r) PROVE BlockedInv'
  BY <1>2 DEF ClaimLapses
<1>3. ASSUME NEW d \in Dispatchers, Claim(d) PROVE BlockedInv'
  <2> SUFFICES ASSUME Alone', NEW r \in Rows, status'[r] = "blocked"
               PROVE  /\ blockedBy'[r] \in Rows /\ blockedBy'[r] < r
                             /\ blockedBy'[r] \notin Unroutable
                      /\ status'[blockedBy'[r]] \in {"pending", "claimed", "blocked", "dead"}
    OBVIOUS
  <2>1. Alone
    BY <1>3, ClaimEffect
  <2>2. r \notin Oldest(Pending) \cup Lapsed /\ status[r] = "blocked"
            /\ blockedBy'[r] = blockedBy[r]
    BY <1>3, ClaimEffect, OldestPending
  <2>3. \A q \in Rows : status'[q] \in {status[q], "claimed", "pending"}
    BY <1>3, ClaimEffect, OldestPending
  <2> QED BY <2>1, <2>2, <2>3
<1>4. ASSUME NEW d \in Dispatchers, Crash(d) PROVE BlockedInv'
  BY <1>4 DEF Crash
<1>5. ASSUME NEW d \in Dispatchers, NEW r \in Rows, Hold(d, r) PROVE BlockedInv'
  BY <1>5 DEF Hold, MarkBlocked, HeldUp, Current, Handled
<1>6. ASSUME NEW d \in Dispatchers, NEW r \in Rows, Drop(d, r) PROVE BlockedInv'
  BY <1>6 DEF Drop, Current, Dropped, Handled
<1>7. ASSUME NEW d \in Dispatchers, NEW r \in Rows, MarkUnroutable(d, r) PROVE BlockedInv'
  BY <1>7 DEF MarkUnroutable, Current, Handled
<1>8. ASSUME NEW d \in Dispatchers, NEW r \in Rows, Post(d, r) PROVE BlockedInv'
  BY <1>8 DEF Post, Postable, Current
<1>9. ASSUME NEW d \in Dispatchers, NEW r \in Rows, MarkDelivered(d, r) PROVE BlockedInv'
  BY <1>9 DEF MarkDelivered, Handled
<1>10. ASSUME NEW d \in Dispatchers, NEW r \in Rows, MarkFailed(d, r) PROVE BlockedInv'
  BY <1>10 DEF MarkFailed, Postable, Current, Handled
<1>11. CASE SetLevel
  BY <1>11 DEF SetLevel
<1> QED BY <1>1, <1>2, <1>3, <1>4, <1>5, <1>6, <1>7, <1>8, <1>9, <1>10, <1>11
    DEF Next, Handle
-----------------------------------------------------------------------------
IInv == /\ TypeOK /\ PostedInv /\ ClaimInv /\ PaidInv /\ ShownInv
        /\ QuietInv /\ SoleInv /\ HoldingInv /\ BlockedInv

\* The invariant holds at first.
LEMMA InitIInv ==
    ASSUME Init
    PROVE  IInv
<1> USE Constants
<1>1. TypeOK
  BY DEF Init, TypeOK, RowStatuses
<1>2. PostedInv /\ ClaimInv /\ PaidInv /\ ShownInv
  BY DEF Init, PostedInv, ClaimInv, PaidInv, ShownInv
<1>3. QuietInv /\ SoleInv /\ HoldingInv /\ BlockedInv
  BY DEF Init, QuietInv, SoleInv, HoldingInv, BlockedInv
<1> QED BY <1>1, <1>2, <1>3 DEF IInv

\* Every step keeps the invariant.
LEMMA StepIInv ==
    ASSUME IInv, [Next]_vars
    PROVE  IInv'
<1>1. CASE Next
  BY <1>1, TypeStep, PostedStep, ClaimStep, PaidStep, ShownStep, QuietStep, SoleStep,
     HoldingStep, BlockedStep DEF IInv
<1>2. CASE UNCHANGED vars
  <2> USE <1>2 DEF vars, table, local, IInv
  <2>1. TypeOK'
    BY DEF TypeOK
  <2>2. PostedInv' /\ ClaimInv' /\ PaidInv' /\ ShownInv'
    BY DEF PostedInv, ClaimInv, PaidInv, ShownInv
  <2>3. QuietInv' /\ SoleInv' /\ HoldingInv' /\ BlockedInv'
    BY DEF QuietInv, SoleInv, HoldingInv, BlockedInv, Alone
  <2> QED BY <2>1, <2>2, <2>3
<1> QED BY <1>1, <1>2

\* The inductive invariant of the outbox.
THEOREM OutboxInvariant == Spec => []IInv
BY InitIInv, StepIInv, PTL DEF Spec

\* Every variable of the outbox keeps its type.
THEOREM OutboxTypes == Spec => []TypeOK
<1>1. IInv => TypeOK
  BY DEF IInv
<1> QED BY <1>1, OutboxInvariant, PTL

\* No row is in the batches of two dispatchers, unless a batch outlives its
\* claims.
THEOREM ClaimsAreExclusive == Spec => []ClaimExclusive
<1>1. IInv => ClaimExclusive
  <2> SUFFICES ASSUME IInv, "slow" \notin faults,
                      NEW c \in Dispatchers, NEW d \in Dispatchers, batch[c] \cap batch[d] # {}
               PROVE  c = d
    BY DEF ClaimExclusive
  <2>1. batch[c] \subseteq Rows
    BY DEF IInv, TypeOK
  <2> QED BY <2>1 DEF IInv, ClaimInv
<1> QED BY <1>1, OutboxInvariant, PTL

\* Each message beyond the first is paid for by a failed attempt or a crash.
THEOREM DuplicatesPaid == Spec => []DuplicatesArePaid
<1>1. IInv => DuplicatesArePaid
  <2> SUFFICES ASSUME IInv, "slow" \notin faults, NEW r \in Rows
               PROVE  posts[r] <= 1 + attempts[r] + crashes
    BY DEF DuplicatesArePaid
  <2>1. posts[r] \in Nat /\ attempts[r] \in Nat /\ crashes \in Nat
    BY DEF IInv, TypeOK
  <2>2. posts[r] <= attempts[r] + crashes + 1
    BY DEF IInv, PaidInv
  <2> QED BY <2>1, <2>2
<1> QED BY <1>1, OutboxInvariant, PTL

\* A row that is marked delivered was shown, or was dropped for its level.
THEOREM DeliveredWasShown == Spec => []AtLeastOnce
<1>1. IInv => AtLeastOnce
  BY DEF IInv, ShownInv, AtLeastOnce
<1> QED BY <1>1, OutboxInvariant, PTL

\* A held row waits for an older one that is not delivered, for streams of any
\* length.
THEOREM HeldIsBehindUnsettled == Spec => []HeldBehindUnsettled
<1>1. IInv => HeldBehindUnsettled
  BY DEF IInv, BlockedInv, Alone, HeldBehindUnsettled
<1> QED BY <1>1, OutboxInvariant, PTL
=============================================================================
