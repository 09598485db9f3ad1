------------------------------ MODULE RoomMemory ------------------------------
(***************************************************************************)
(* What the rooms retain and what they are charged for it: storing a       *)
(* message under the process-wide byte ceiling, the pruning, fading, ageing*)
(* and trimming that make room, reactions beside the history, and the      *)
(* deletion of a room (room/messages.rs, room/reactions.rs,                *)
(* limits/memory.rs, cleanup.rs and AppState::cleanup).                    *)
(*                                                                         *)
(* Three copies of one fact are kept in step by hand: the history itself,  *)
(* the counters of each room, and the tracker all rooms share. Every       *)
(* operation below is one step, under the write lock of `rooms`. Sizes are *)
(* small numbers that keep the parts the code adds up apart: a message     *)
(* costs Body, and an attachment its MIME type and its data.               *)
(***************************************************************************)
EXTENDS Integers, Sequences, FiniteSets, Functions

CONSTANTS
    Rooms,
    Main,               \* the room that fades instead of being deleted
    Reactors, Emojis,
    Body,               \* ESTIMATED_MESSAGE_SIZE and the strings
    Mime,               \* Attachment::mime.len()
    DataSizes,          \* Attachment::data.len(), the lengths that occur
    Ceiling,            \* MAX_TOTAL_ROOMS_MEMORY
    SoftLimit,          \* nine tenths of it
    PictureBudget,      \* MAX_ROOM_ATTACHMENT_BYTES
    MaxMessages,        \* MAX_MESSAGES_PER_ROOM
    FadeKeep,           \* MAIN_ROOM_FADE_KEEP
    Batch,              \* CLEANUP_BATCH_SIZE
    MaxReactions,       \* MAX_REACTIONS_PER_MESSAGE
    MaxPosts            \* bound: messages posted in all

ASSUME MemoryAssumption ==
    /\ Main \in Rooms /\ IsFiniteSet(Rooms)
    /\ Body \in Nat \ {0} /\ Mime \in Nat
    /\ DataSizes \subseteq Nat
    /\ Ceiling \in Nat /\ SoftLimit \in 0..Ceiling
    /\ PictureBudget \in Nat /\ MaxMessages \in Nat /\ FadeKeep \in 0..MaxMessages
    /\ Batch \in Nat /\ MaxReactions \in Nat /\ MaxPosts \in Nat
    /\ \A d \in DataSizes : Mime + d <= PictureBudget /\ Body + Mime + d <= Ceiling

VARIABLES
    rooms,      \* each room's RoomState, as far as it concerns memory
    tracked,    \* MemoryTracker::total_bytes
    posted,     \* messages so far, which numbers them
    fades       \* history variable: the pictures each room has faded so far

vars == <<rooms, tracked, posted, fades>>

----------------------------------------------------------------------------
(* Messages and the sums over them *)

Pictures == [kind : {"shown"}, data : DataSizes]
NoPicture == [kind |-> "none", data |-> 0]

\* Attachment::estimate_size, 0 where there is no attachment.
AttachmentSize(m) == IF m.kind = "none" THEN 0 ELSE Mime + m.data
\* OutgoingMessage::estimate_size
Size(m) == Body + AttachmentSize(m)

AttachmentSizes(history) == [i \in DOMAIN history |-> AttachmentSize(history[i])]

SizeOf(history) == SumFunction([i \in DOMAIN history |-> Size(history[i])])
AttachmentsOf(history) == SumFunction(AttachmentSizes(history))
IdsOf(history) == {history[i].id : i \in DOMAIN history}

\* The pictures a history still shows, and their bytes in it.
Shown(history) == {i \in DOMAIN history : history[i].kind = "shown"}
PictureBytes(history, S) == SumFunctionOnSet(AttachmentSizes(history), S)

\* Mutant: the counter is not floored.
MinusUnchecked(a, b) == a - b

\* saturating_sub, by which every counter is lowered.
Minus(a, b) == IF a > b THEN a - b ELSE 0

EmptyRoom == [history |-> <<>>, message_ids |-> {}, reactions |-> {},
              total_memory_bytes |-> 0, attachment_bytes |-> 0]

Init ==
    /\ rooms = [r \in Rooms |-> EmptyRoom]
    /\ tracked = 0
    /\ posted = 0
    /\ fades = [r \in Rooms |-> 0]

----------------------------------------------------------------------------
(* Operations on one room *)

\* Mutant: the messages leave and their reactions stay.
DropMessagesOnly(room, n) ==
    [room EXCEPT !.history = SubSeq(@, n + 1, Len(@)),
                 !.message_ids = @ \ IdsOf(SubSeq(room.history, 1, n))]

\* Drains the first n messages, and forget_reactions_for them.
DropOldest(room, n) ==
    LET gone == IdsOf(SubSeq(room.history, 1, n))
    IN  [room EXCEPT !.history = SubSeq(@, n + 1, Len(@)),
                     !.message_ids = @ \ gone,
                     !.reactions = {x \in @ : x.id \notin gone}]

recompute_memory(room) ==
    [room EXCEPT !.total_memory_bytes = SizeOf(room.history),
                 !.attachment_bytes = AttachmentsOf(room.history)]

\* How many of the oldest messages prune_old_messages drops for needed bytes.
PruneCount(history, needed) ==
    CHOOSE n \in 0..Len(history) :
        /\ n = Len(history) \/ SizeOf(SubSeq(history, 1, n)) >= needed
        /\ \A k \in 0..n-1 : SizeOf(SubSeq(history, 1, k)) < needed

\* The drop, with the attachment bytes released by release_attachment_bytes.
prune_old_messages(room, n) ==
    LET gone == SubSeq(room.history, 1, n)
    IN  [DropOldest(room, n) EXCEPT
            !.attachment_bytes = Minus(@, AttachmentsOf(gone)),
            !.total_memory_bytes = Minus(@, SizeOf(gone))]

retain_newest(room, keep) ==
    IF Len(room.history) <= keep THEN room
    ELSE recompute_memory(DropOldest(room, Len(room.history) - keep))

\* Mutant: only the first picture is faded, however far over the budget.
FirstShown(room) ==
    {i \in DOMAIN room.history :
        /\ room.history[i].kind = "shown"
        /\ room.attachment_bytes > PictureBudget
        /\ \A j \in 1..i-1 : room.history[j].kind # "shown"}

\* The shown pictures fade_oldest_attachments fades: oldest first, and only
\* until what is left is within the budget.
FadedOf(room) ==
    LET h == room.history
    IN  {i \in Shown(h) : room.attachment_bytes
                             - PictureBytes(h, Shown(h) \cap 1 .. i - 1) > PictureBudget}

Freed(room) == PictureBytes(room.history, FadedOf(room))

fade_oldest_attachments(room) ==
    [room EXCEPT
        !.history = [i \in DOMAIN @ |->
            IF i \in FadedOf(room) THEN [@[i] EXCEPT !.kind = "faded", !.data = 0] ELSE @[i]],
        !.attachment_bytes = @ - Freed(room),
        !.total_memory_bytes = Minus(@, Freed(room))]

\* Drops the n oldest messages, of those past MAX_MESSAGE_AGE.
cleanup_messages(room, n) ==
    IF n = 0 THEN room ELSE recompute_memory(DropOldest(room, n))

\* What add_message makes of a room and the tracker: the history is pruned if
\* the room alone would pass the ceiling, and the message stored if the
\* tracker takes it.
add_message(room, m) ==
    LET pruned == IF room.total_memory_bytes + Size(m) > Ceiling
                  THEN PruneCount(room.history, Size(m)) ELSE 0
        ready == prune_old_messages(room, pruned)
        left == Minus(tracked, SizeOf(SubSeq(room.history, 1, pruned)))
        stored == [ready EXCEPT
            !.history = Append(@, m),
            !.message_ids = @ \cup {m.id},
            !.total_memory_bytes = @ + Size(m),
            !.attachment_bytes = @ + AttachmentSize(m)]
    IN  IF left + Size(m) <= Ceiling
        THEN [room |-> fade_oldest_attachments(stored),
              tracked |-> Minus(left + Size(m), Freed(stored)),
              faded |-> Cardinality(FadedOf(stored))]
        ELSE [room |-> ready, tracked |-> left, faded |-> 0]

----------------------------------------------------------------------------
(* Actions *)

\* A message event. It is broadcast afterwards, whatever add_message did.
Post(r, picture) ==
    LET m == [id |-> posted + 1, kind |-> picture.kind, data |-> picture.data]
        after == add_message(rooms[r], m)
    IN  /\ posted < MaxPosts
        /\ rooms' = [rooms EXCEPT ![r] = after.room]
        /\ tracked' = after.tracked
        /\ fades' = [fades EXCEPT ![r] = @ + after.faded]
        /\ posted' = m.id

\* toggle_reaction: only for a message the room holds, and only a known emoji
\* or one of the first few.
toggle_reaction(r, id, emoji, reactor) ==
    LET room == rooms[r]
        x == [id |-> id, emoji |-> emoji, by |-> reactor]
        buckets == {y.emoji : y \in {z \in room.reactions : z.id = id}}
    IN  /\ id \in room.message_ids
        /\ emoji \in buckets \/ Cardinality(buckets) < MaxReactions
        /\ rooms' = [rooms EXCEPT ![r].reactions =
                        IF x \in @ THEN @ \ {x} ELSE @ \cup {x}]
        /\ UNCHANGED <<tracked, posted, fades>>

\* Admission trims the history its visitor is about to receive.
trim_to_max_messages(r) ==
    LET kept == retain_newest(rooms[r], MaxMessages)
    IN  /\ kept # rooms[r]
        /\ rooms' = [rooms EXCEPT ![r] = kept]
        /\ tracked' = Minus(tracked, SizeOf(rooms[r].history) - SizeOf(kept.history))
        /\ UNCHANGED <<posted, fades>>

\* Mutant: the tracker is never told of the deleted rooms.
CleanupKeepsCharge(mainIdle, abandoned) ==
    LET target(r) == IF r = Main /\ mainIdle THEN FadeKeep ELSE MaxMessages
        kept == [r \in Rooms |-> retain_newest(rooms[r], target(r))]
        trimmed == SumFunction(
                       [r \in Rooms |-> SizeOf(rooms[r].history) - SizeOf(kept[r].history)])
    IN  /\ Main \notin abandoned
        /\ rooms' = [r \in Rooms |-> IF r \in abandoned THEN EmptyRoom ELSE kept[r]]
        /\ tracked' = Minus(tracked, trimmed)
        /\ UNCHANGED <<posted, fades>>

\* One housekeeping pass: every history is trimmed (main's harder when it is
\* idle), then the abandoned rooms go with what is left of theirs.
cleanup_rooms(mainIdle, abandoned) ==
    LET target(r) == IF r = Main /\ mainIdle THEN FadeKeep ELSE MaxMessages
        kept == [r \in Rooms |-> retain_newest(rooms[r], target(r))]
        trimmed == SumFunction(
                       [r \in Rooms |-> SizeOf(rooms[r].history) - SizeOf(kept[r].history)])
        freed == SumFunction([r \in abandoned |-> SizeOf(kept[r].history)])
    IN  /\ Main \notin abandoned
        /\ rooms' = [r \in Rooms |-> IF r \in abandoned THEN EmptyRoom ELSE kept[r]]
        /\ tracked' = Minus(tracked, trimmed + freed)
        /\ UNCHANGED <<posted, fades>>

\* AppState::cleanup over its ceiling: each room past the soft limit drops
\* its aged messages, at most Batch of them.
trigger_cleanup(aged) ==
    LET drop(r) == IF rooms[r].total_memory_bytes > SoftLimit
                   THEN IF aged[r] > Batch THEN Batch ELSE aged[r] ELSE 0
    IN  /\ SumFunction([r \in Rooms |-> rooms[r].total_memory_bytes]) > Ceiling
        /\ \A r \in Rooms : aged[r] <= Len(rooms[r].history)
        /\ rooms' = [r \in Rooms |-> cleanup_messages(rooms[r], drop(r))]
        /\ tracked' = Minus(tracked, SumFunction(
                        [r \in Rooms |-> SizeOf(SubSeq(rooms[r].history, 1, drop(r)))]))
        /\ UNCHANGED <<posted, fades>>

Next ==
    \/ \E r \in Rooms :
        \/ \E picture \in Pictures \cup {NoPicture} : Post(r, picture)
        \/ \E id \in rooms[r].message_ids, e \in Emojis, u \in Reactors :
               toggle_reaction(r, id, e, u)
        \/ trim_to_max_messages(r)
    \/ \E mainIdle \in BOOLEAN, abandoned \in SUBSET (Rooms \ {Main}) :
           cleanup_rooms(mainIdle, abandoned)
    \/ \E aged \in [Rooms -> 0..MaxPosts] : trigger_cleanup(aged)

Spec == Init /\ [][Next]_vars

----------------------------------------------------------------------------
(* Properties *)

Retained == SumFunction([r \in Rooms |-> SizeOf(rooms[r].history)])

\* Types; above all no counter of a room leaves Nat, although fading, pruning
\* and recomputing count a faded attachment differently.
TypeOK ==
    /\ \A r \in Rooms :
        /\ rooms[r].history \in Seq([id : 1..posted, kind : {"none", "shown", "faded"},
                                     data : DataSizes \cup {0}])
        /\ rooms[r].total_memory_bytes \in Nat
        /\ rooms[r].attachment_bytes \in Nat
    /\ tracked \in Nat
    /\ posted \in 0..MaxPosts
    /\ fades \in [Rooms -> 0..posted]

\* Reactions never outlive the message they belong to, and the set of ids
\* that gates a reaction is the history's, after any order of removals.
ReactionsBelongToHistory ==
    \A r \in Rooms :
        /\ rooms[r].message_ids = IdsOf(rooms[r].history)
        /\ {x.id : x \in rooms[r].reactions} \subseteq rooms[r].message_ids

\* What the rooms retain is what the tracker is charged, but for the MIME
\* types that faded pictures keep: nothing else leaks from the ceiling, nothing
\* is given back twice, and nobody is refused for want of space that is there.
\* Each room's own total agrees with its history in the same way.
TrackerAccounts ==
    LET kept == Mime * SumFunction(fades)
        size(r) == SizeOf(rooms[r].history)
    IN  /\ tracked \in Minus(Retained, kept) .. Retained
        /\ \A r \in Rooms :
            rooms[r].total_memory_bytes \in Minus(size(r), Mime * fades[r]) .. size(r)

\* The pictures a room still shows pass its budget by no more than the MIME
\* types of those it has faded, which pruning gives back a second time.
PicturesWithinBudget ==
    \A r \in Rooms : PictureBytes(rooms[r].history, Shown(rooms[r].history))
                        <= PictureBudget + Mime * fades[r]

=============================================================================
