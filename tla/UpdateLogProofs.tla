-------------------------- MODULE UpdateLogProofs --------------------------
(***************************************************************************)
(* No pts is taken twice, for every set of emitters and messages and every *)
(* number of messages an update is about: however handlers interleave,     *)
(* fail, and store what they have taken.                                   *)
(***************************************************************************)
EXTENDS UpdateLog, SequenceTheorems, TLAPS

-----------------------------------------------------------------------------
(* What the functions of updates_manager emit *)

\* The orders of the steps of an emission, with the last push and without it.
Orders == {<<"store", "push">>, <<"push", "store">>, <<"within", "push">>, <<"store">>,
           <<"store", "sweep", "push">>, <<"sweep", "store", "push">>}
Todos == {<<"store">>, <<"push", "store">>, <<"within">>, <<"store", "sweep">>,
          <<"sweep", "store">>, <<"sweep">>}

\* The rows of n pts: each at an offset of its own, below n.
IsRow(r, n) ==
    /\ r = [off |-> r.off, class |-> r.class]
    /\ r.off \in Nat
    /\ r.off < n \/ (n = 0 /\ r.off = 0)
Offsets(R, n) ==
    /\ \A r \in R : IsRow(r, n)
    /\ \A r, s \in R : r.off = s.off => r = s

Kind(k) == k.count \in Nat /\ k.todo \in Orders /\ Offsets(k.rows, k.count)

LEMMA MadeRow ==
    ASSUME NEW n \in Nat, NEW o \in Nat, NEW class, NEW r, r = [off |-> o, class |-> class],
           o < n \/ (n = 0 /\ o = 0)
    PROVE  IsRow(r, n) /\ r.off = o
<1>1. r.off = o /\ r.class = class
  OBVIOUS
<1> QED BY <1>1 DEF IsRow

LEMMA OneOffsets == \A type : \A n \in Nat : Offsets(One(type), n)
<1> SUFFICES ASSUME NEW type, NEW n \in Nat PROVE Offsets(One(type), n)
  OBVIOUS
<1>1. One(type) = {[off |-> 0, class |-> Class(type, 0)]}
  BY DEF One, Row
<1>2. IsRow([off |-> 0, class |-> Class(type, 0)], n)
  BY MadeRow
<1> QED BY <1>1, <1>2, Zenon DEF Offsets

LEMMA EachOffsets == \A type : \A n \in Nat : Offsets(Each(n, type), n)
<1> SUFFICES ASSUME NEW type, NEW n \in Nat PROVE Offsets(Each(n, type), n)
  OBVIOUS
<1> DEFINE row(o) == [off |-> o, class |-> Class(type, 0)]
<1>1. Each(n, type) = {row(o) : o \in 0 .. n - 1}
  BY Zenon DEF Each, Row
<1>2. ASSUME NEW o \in 0 .. n - 1 PROVE IsRow(row(o), n) /\ row(o).off = o
  <2>1. o \in Nat /\ o < n
    OBVIOUS
  <2>2. row(o) = [off |-> o, class |-> Class(type, 0)]
    OBVIOUS
  <2> HIDE DEF row
  <2> QED BY <2>1, <2>2, MadeRow, Zenon
<1> HIDE DEF row
<1>3. ASSUME NEW r \in Each(n, type) PROVE IsRow(r, n) /\ r = row(r.off)
  <2>1. PICK o \in 0 .. n - 1 : r = row(o)
    BY <1>1
  <2> QED BY <1>2, <2>1
<1>4. ASSUME NEW r \in Each(n, type), NEW s \in Each(n, type), r.off = s.off PROVE r = s
  <2>1. r = row(r.off) /\ s = row(s.off)
    BY <1>3
  <2> QED BY <1>4, <2>1
<1> QED BY <1>3, <1>4 DEF Offsets

\* Emissions of n pts that take their steps in the order todo.
LEMMA EmissionKind ==
    ASSUME NEW n \in Nat, NEW R, NEW todo \in Orders, Offsets(R, n)
    PROVE  Kind(User(n, R, todo)) /\ Kind(Channel(n, R, todo))
BY DEF Kind, User, Channel

LEMMA PlainKinds ==
    \A type : \A n \in Nat, todo \in Orders :
        /\ Kind(User(n, One(type), todo)) /\ Kind(Channel(n, One(type), todo))
        /\ Kind(User(n, Each(n, type), todo)) /\ Kind(Channel(n, Each(n, type), todo))
BY OneOffsets, EachOffsets, EmissionKind

LEMMA StoredKinds == \A type : \A k \in Stored(type) : Kind(k)
<1>1. StorePush \in Orders
  BY DEF StorePush, Orders
<1> QED BY <1>1, PlainKinds DEF Stored

\* Two rows, the first of which is about the id of the second.
LEMMA PairKind ==
    \A first, second : \A todo \in Orders : Kind(User(2, {Row(1, first), Row(0, second)}, todo))
<1> SUFFICES ASSUME NEW first, NEW second, NEW todo \in Orders
             PROVE  Kind(User(2, {Row(1, first), Row(0, second)}, todo))
  OBVIOUS
<1>1. Offsets({Row(1, first), Row(0, second)}, 2)
  <2> DEFINE a == Row(1, first)
             b == Row(0, second)
  <2>1. IsRow(a, 2) /\ IsRow(b, 2) /\ a.off = 1 /\ b.off = 0
    <3>1. 1 \in Nat /\ 0 \in Nat /\ 2 \in Nat /\ 1 < 2 /\ 0 < 2
      OBVIOUS
    <3>2. /\ a = [off |-> 1, class |-> Class(first, 0)]
          /\ b = [off |-> 0, class |-> Class(second, 0)]
      BY DEF Row
    <3> HIDE DEF a, b
    <3> QED BY <3>1, <3>2, MadeRow, SMTT(40)
  <2> HIDE DEF a, b
  <2>2. Offsets({a, b}, 2)
    BY <2>1 DEF Offsets
  <2> QED BY <2>2 DEF a, b
<1> QED BY <1>1, EmissionKind

LEMMA ArgumentKind ==
    \A type, args : \A todo \in Orders : Kind(User(1, {RowWith(0, type, args)}, todo))
<1> SUFFICES ASSUME NEW type, NEW args, NEW todo \in Orders
             PROVE  Kind(User(1, {RowWith(0, type, args)}, todo))
  OBVIOUS
<1>1. Offsets({RowWith(0, type, args)}, 1)
  <2>1. IsRow(RowWith(0, type, args), 1)
    BY MadeRow DEF RowWith
  <2> HIDE DEF RowWith
  <2> QED BY <2>1, Zenon DEF Offsets
<1> QED BY <1>1, EmissionKind

LEMMA OrdersUsed ==
    /\ StorePush \in Orders /\ PushStore \in Orders /\ <<"store">> \in Orders
    /\ <<"within", "push">> \in Orders
    /\ <<"store", "sweep", "push">> \in Orders /\ <<"sweep", "store", "push">> \in Orders
BY DEF StorePush, PushStore, Orders

LEMMA SentKinds == \A k \in Sent : Kind(k)
<1>1. \A k \in send_message : Kind(k)
  <2>1. Kind(User(1, One("NEW_MESSAGE"), StorePush))
    BY OrdersUsed, PlainKinds
  <2>2. Kind(User(2, {Row(1, "UPDATE_MESSAGE_ID"), Row(0, "NEW_MESSAGE")}, StorePush))
    BY OrdersUsed, PairKind
  <2> QED BY <2>1, <2>2, Zenon DEF send_message
<1>2. \A k \in send_messages : Kind(k)
  BY <1>1, OrdersUsed, PlainKinds, ItemsAssumption DEF send_messages
<1>3. \A k \in send_message_channel : Kind(k)
  BY OrdersUsed, PlainKinds DEF send_message_channel
<1>4. \A k \in send_messages_channel : Kind(k)
  BY OrdersUsed, PlainKinds, ItemsAssumption DEF send_messages_channel
<1> QED BY <1>1, <1>2, <1>3, <1>4 DEF Sent

LEMMA EditedDeletedKinds == \A k \in Edited \cup Deleted : Kind(k)
<1>1. \A k \in Edited : Kind(k)
  BY OrdersUsed, PlainKinds DEF Edited, edit_message, edit_message_channel
<1>2. \A k \in delete_messages \cup delete_messages_channel : Kind(k)
  BY OrdersUsed, PlainKinds, ItemsAssumption DEF delete_messages, delete_messages_channel
<1> QED BY <1>1, <1>2 DEF Deleted

\* The announcements that are stored like most updates are.
LEMMA StoredAnnouncements ==
    \A k \in UNION {new_scheduled_message, update_history_ttl, update_message_poll, pin_dialog,
                    update_draft, reorder_pinned_dialogs, update_dialog_unread_mark,
                    update_folder, pin_saved_dialog, reorder_pinned_saved_dialogs,
                    block_unblock_user, update_user_phone, update_user_emoji_status,
                    update_privacy, update_peer_notify_settings, new_auth, update_config,
                    update_chat_participants, update_chat, update_chat_default_banned_rights,
                    update_channel_for_user, update_channel_participant_available_message,
                    new_stickerset, update_stickersets, update_stickersets_order,
                    update_recent_stickers, update_faved_stickers, update_saved_gifs,
                    update_recent_reactions, update_chat_wallpaper, phone_call_update,
                    bot_precheckout_query, bot_callback_query, bot_inline_query} : Kind(k)
BY StoredKinds
   DEF new_scheduled_message, update_history_ttl, update_message_poll, pin_dialog,
       update_draft, reorder_pinned_dialogs, update_dialog_unread_mark,
       update_folder, pin_saved_dialog, reorder_pinned_saved_dialogs,
       block_unblock_user, update_user_phone, update_user_emoji_status,
       update_privacy, update_peer_notify_settings, new_auth, update_config,
       update_chat_participants, update_chat, update_chat_default_banned_rights,
       update_channel_for_user, update_channel_participant_available_message,
       new_stickerset, update_stickersets, update_stickersets_order,
       update_recent_stickers, update_faved_stickers, update_saved_gifs,
       update_recent_reactions, update_chat_wallpaper, phone_call_update,
       bot_precheckout_query, bot_callback_query, bot_inline_query

\* Those that are never logged.
LEMMA LiveAnnouncements ==
    UNION {update_reactions, read_channel_messages_contents, update_status,
           update_stars_balance, send_encrypted_update, send_encrypted_typing,
           phone_signaling_update} = {}
BY DEF update_reactions, read_channel_messages_contents, update_status,
       update_stars_balance, send_encrypted_update, send_encrypted_typing,
       phone_signaling_update, Live

\* Those with one pts in an order or a log of their own.
LEMMA SingleAnnouncements ==
    \A k \in UNION {send_message_channel_user, update_read_history_inbox,
                    update_read_history_inbox_channel, update_read_channel_discussion_inbox,
                    update_read_channel_discussion_outbox, update_read_history_outbox_channel,
                    update_read_history_outbox, update_user,
                    notify_user_deleted, update_user_name,
                    migrate_chat, update_channel,
                    update_channel_available_messages, encryption_update} : Kind(k)
<1>1. \A k \in send_message_channel_user : Kind(k)
  BY OrdersUsed, PlainKinds, PairKind, ArgumentKind DEF send_message_channel_user
<1>2. \A k \in update_read_history_inbox : Kind(k)
  BY OrdersUsed, PlainKinds, PairKind, ArgumentKind DEF update_read_history_inbox
<1>3. \A k \in update_read_history_inbox_channel : Kind(k)
  BY OrdersUsed, PlainKinds, PairKind, ArgumentKind DEF update_read_history_inbox_channel
<1>4. \A k \in update_read_channel_discussion_inbox : Kind(k)
  BY OrdersUsed, PlainKinds, PairKind, ArgumentKind DEF update_read_channel_discussion_inbox
<1>5. \A k \in update_read_channel_discussion_outbox : Kind(k)
  BY OrdersUsed, PlainKinds, PairKind, ArgumentKind DEF update_read_channel_discussion_outbox
<1>6. \A k \in update_read_history_outbox_channel : Kind(k)
  BY OrdersUsed, PlainKinds, PairKind, ArgumentKind DEF update_read_history_outbox_channel
<1>7. \A k \in update_read_history_outbox : Kind(k)
  BY OrdersUsed, PlainKinds, PairKind, ArgumentKind DEF update_read_history_outbox
<1>8. \A k \in update_user : Kind(k)
  BY OrdersUsed, PlainKinds, PairKind, ArgumentKind DEF update_user
<1>9. \A k \in notify_user_deleted : Kind(k)
  BY OrdersUsed, PlainKinds, PairKind, ArgumentKind DEF notify_user_deleted
<1>10. \A k \in update_user_name : Kind(k)
  BY OrdersUsed, PlainKinds, PairKind, ArgumentKind DEF update_user_name
<1>11. \A k \in migrate_chat : Kind(k)
  BY OrdersUsed, PlainKinds, PairKind, ArgumentKind DEF migrate_chat
<1>12. \A k \in update_channel : Kind(k)
  BY OrdersUsed, PlainKinds, PairKind, ArgumentKind DEF update_channel
<1>13. \A k \in update_channel_available_messages : Kind(k)
  BY OrdersUsed, PlainKinds, PairKind, ArgumentKind DEF update_channel_available_messages
<1>14. \A k \in encryption_update : Kind(k)
  BY OrdersUsed, PlainKinds, PairKind, ArgumentKind DEF encryption_update
<1> QED BY <1>1, <1>2, <1>3, <1>4, <1>5, <1>6, <1>7, <1>8, <1>9, <1>10, <1>11, <1>12, <1>13, <1>14

\* Those with a pts for each thing they are about.
LEMMA ManyAnnouncements ==
    \A k \in UNION {pin_messages, pin_channel_messages,
                    delete_scheduled_messages, read_messages_contents,
                    update_drafts, update_folder_peers,
                    update_folders_order, add_remove_contact} : Kind(k)
<1>1. \A k \in pin_messages : Kind(k)
  <2>1. \A k \in pin_messages : \E n \in Items \ {0} :
            \/ k = User(n, One("PIN_MESSAGES"), PushStore)
            \/ k = User(n, Each(n, "PIN_MESSAGES"), PushStore)
    BY Zenon DEF pin_messages
  <2> QED BY <2>1, OrdersUsed, PlainKinds, ItemsAssumption
<1>2. \A k \in pin_channel_messages : Kind(k)
  <2>1. \A k \in pin_channel_messages : \E n \in Items \ {0} :
            \/ k = Channel(n, One("CHANNEL_PIN"), PushStore)
            \/ k = Channel(n, Each(n, "CHANNEL_PIN"), PushStore)
    BY Zenon DEF pin_channel_messages
  <2> QED BY <2>1, OrdersUsed, PlainKinds, ItemsAssumption
<1>3. \A k \in delete_scheduled_messages : Kind(k)
  BY OrdersUsed, PlainKinds, ItemsAssumption DEF delete_scheduled_messages
<1>4. \A k \in read_messages_contents : Kind(k)
  BY OrdersUsed, PlainKinds, ItemsAssumption DEF read_messages_contents
<1>5. \A k \in update_drafts : Kind(k)
  BY OrdersUsed, PlainKinds, ItemsAssumption DEF update_drafts
<1>6. \A k \in update_folder_peers : Kind(k)
  BY OrdersUsed, PlainKinds, ItemsAssumption DEF update_folder_peers
<1>7. \A k \in update_folders_order : Kind(k)
  BY OrdersUsed, PlainKinds, ItemsAssumption DEF update_folders_order
<1>8. \A k \in add_remove_contact : Kind(k)
  BY OrdersUsed, PlainKinds, ItemsAssumption DEF add_remove_contact
<1> QED BY <1>1, <1>2, <1>3, <1>4, <1>5, <1>6, <1>7, <1>8

LEMMA AnnouncementKinds == \A k \in Announcements : Kind(k)
BY StoredAnnouncements, LiveAnnouncements, SingleAnnouncements, ManyAnnouncements
   DEF Announcements

-----------------------------------------------------------------------------
(* The steps of an emission *)

Words == {"store", "push", "within", "sweep"}

\* A push that comes last is left out.
LEMMA StepsBeforePush ==
    ASSUME NEW q \in Seq(Words), NEW t \in Seq(Words), Len(q) = Len(t) + 1,
           \A i \in 1 .. Len(t) : t[i] = q[i], q[Len(q)] = "push"
    PROVE  Steps(q) = t
<1> DEFINE n == Len(q) - 1
<1>1. Steps(q) = SubSeq(q, 1, n)
  BY DEF Steps
<1>2. n \in Nat /\ n = Len(t) /\ \A i \in 1 .. n : q[i] \in Words
  BY LenProperties
<1> HIDE DEF n
<1>3. /\ SubSeq(q, 1, n) \in Seq(Words)
      /\ Len(SubSeq(q, 1, n)) = IF 1 <= n THEN n - 1 + 1 ELSE 0
      /\ \A i \in 1 .. n - 1 + 1 : SubSeq(q, 1, n)[i] = q[1 + i - 1]
  BY <1>2, SubSeqProperties
<1>4. Len(SubSeq(q, 1, n)) = Len(t) /\ \A i \in 1 .. Len(t) : SubSeq(q, 1, n)[i] = t[i]
  BY <1>2, <1>3
<1>5. SubSeq(q, 1, n) = t
  BY <1>3, <1>4, SeqEqual
<1> QED BY <1>1, <1>5

LEMMA StepsTodo == \A order \in Orders : Steps(order) \in Todos
<1>1. Steps(<<"store", "push">>) = <<"store">>
  <2> DEFINE q == <<"store", "push">>
             t == <<"store">>
  <2>1. q \in Seq(Words) /\ t \in Seq(Words) /\ Len(q) = 2 /\ Len(t) = 1
    BY DEF Words
  <2>2. \A i \in 1 .. 1 : t[i] = q[i]
    OBVIOUS
  <2>3. q[2] = "push"
    OBVIOUS
  <2> HIDE DEF q, t
  <2>4. Steps(q) = t
    <3>1. Len(q) = Len(t) + 1 /\ \A i \in 1 .. Len(t) : t[i] = q[i]
      BY <2>1, <2>2
    <3>2. q[Len(q)] = "push"
      BY <2>1, <2>3
    <3> QED BY <2>1, <3>1, <3>2, StepsBeforePush
  <2> QED BY <2>4 DEF q, t
<1>2. Steps(<<"push", "store">>) = <<"push", "store">>
  <2>1. Len(<<"push", "store">>) = 2 /\ <<"push", "store">>[2] = "store"
    OBVIOUS
  <2> QED BY <2>1 DEF Steps
<1>3. Steps(<<"within", "push">>) = <<"within">>
  <2> DEFINE q == <<"within", "push">>
             t == <<"within">>
  <2>1. q \in Seq(Words) /\ t \in Seq(Words) /\ Len(q) = 2 /\ Len(t) = 1
    BY DEF Words
  <2>2. \A i \in 1 .. 1 : t[i] = q[i]
    OBVIOUS
  <2>3. q[2] = "push"
    OBVIOUS
  <2> HIDE DEF q, t
  <2>4. Steps(q) = t
    <3>1. Len(q) = Len(t) + 1 /\ \A i \in 1 .. Len(t) : t[i] = q[i]
      BY <2>1, <2>2
    <3>2. q[Len(q)] = "push"
      BY <2>1, <2>3
    <3> QED BY <2>1, <3>1, <3>2, StepsBeforePush
  <2> QED BY <2>4 DEF q, t
<1>4. Steps(<<"store">>) = <<"store">>
  <2>1. Len(<<"store">>) = 1 /\ <<"store">>[1] = "store"
    OBVIOUS
  <2> QED BY <2>1 DEF Steps
<1>5. Steps(<<"store", "sweep", "push">>) = <<"store", "sweep">>
  <2> DEFINE q == <<"store", "sweep", "push">>
             t == <<"store", "sweep">>
  <2>1. q \in Seq(Words) /\ t \in Seq(Words) /\ Len(q) = 3 /\ Len(t) = 2
    BY DEF Words
  <2>2. \A i \in 1 .. 2 : t[i] = q[i]
    OBVIOUS
  <2>3. q[3] = "push"
    OBVIOUS
  <2> HIDE DEF q, t
  <2>4. Steps(q) = t
    <3>1. Len(q) = Len(t) + 1 /\ \A i \in 1 .. Len(t) : t[i] = q[i]
      BY <2>1, <2>2
    <3>2. q[Len(q)] = "push"
      BY <2>1, <2>3
    <3> QED BY <2>1, <3>1, <3>2, StepsBeforePush
  <2> QED BY <2>4 DEF q, t
<1>6. Steps(<<"sweep", "store", "push">>) = <<"sweep", "store">>
  <2> DEFINE q == <<"sweep", "store", "push">>
             t == <<"sweep", "store">>
  <2>1. q \in Seq(Words) /\ t \in Seq(Words) /\ Len(q) = 3 /\ Len(t) = 2
    BY DEF Words
  <2>2. \A i \in 1 .. 2 : t[i] = q[i]
    OBVIOUS
  <2>3. q[3] = "push"
    OBVIOUS
  <2> HIDE DEF q, t
  <2>4. Steps(q) = t
    <3>1. Len(q) = Len(t) + 1 /\ \A i \in 1 .. Len(t) : t[i] = q[i]
      BY <2>1, <2>2
    <3>2. q[Len(q)] = "push"
      BY <2>1, <2>3
    <3> QED BY <2>1, <3>1, <3>2, StepsBeforePush
  <2> QED BY <2>4 DEF q, t
<1> QED BY <1>1, <1>2, <1>3, <1>4, <1>5, <1>6, Zenon DEF Orders, Todos

Stores(todo) == \E i \in DOMAIN todo : todo[i] = "store"

\* What is left to do after the first step.
LEMMA TodoRest ==
    \A todo \in Todos :
        /\ Head(todo) = "within" => todo = <<"within">>
        /\ Len(todo) # 1 => Tail(todo) \in Todos
        /\ Len(todo) # 1 /\ Stores(Tail(todo)) => Stores(todo) /\ Head(todo) # "store"
        /\ Head(todo) = "store" => Stores(todo)
<1> SUFFICES ASSUME NEW todo \in Todos
             PROVE  /\ Head(todo) = "within" => todo = <<"within">>
                    /\ Len(todo) # 1 => Tail(todo) \in Todos
                    /\ Len(todo) # 1 /\ Stores(Tail(todo)) =>
                          Stores(todo) /\ Head(todo) # "store"
                    /\ Head(todo) = "store" => Stores(todo)
  OBVIOUS
<1>1. CASE todo = <<"store">> \/ todo = <<"within">> \/ todo = <<"sweep">>
  BY <1>1 DEF Stores
<1>2. CASE todo = <<"push", "store">>
  <2>1. /\ Head(todo) = "push" /\ Tail(todo) = <<"store">>
        /\ todo[2] = "store" /\ 2 \in DOMAIN todo
    BY <1>2
  <2>2. Stores(todo)
    BY <2>1, Zenon DEF Stores
  <2>3. Tail(todo) \in Todos
    BY <2>1, Zenon DEF Todos
  <2>4. Head(todo) # "within" /\ Head(todo) # "store"
    BY <2>1
  <2> QED BY <2>2, <2>3, <2>4, Zenon
<1>4. CASE todo = <<"sweep", "store">>
  <2>1. /\ Head(todo) = "sweep" /\ Tail(todo) = <<"store">>
        /\ todo[2] = "store" /\ 2 \in DOMAIN todo
    BY <1>4
  <2>2. Stores(todo)
    BY <2>1, Zenon DEF Stores
  <2>3. Tail(todo) \in Todos
    BY <2>1, Zenon DEF Todos
  <2>4. Head(todo) # "within" /\ Head(todo) # "store"
    BY <2>1
  <2> QED BY <2>2, <2>3, <2>4, Zenon
<1>3. CASE todo = <<"store", "sweep">>
  <2>1. /\ Head(todo) = "store" /\ Tail(todo) = <<"sweep">>
        /\ todo[1] = "store" /\ 1 \in DOMAIN todo
    BY <1>3
  <2>2. ~Stores(<<"sweep">>)
    <3>1. DOMAIN <<"sweep">> = 1 .. 1 /\ <<"sweep">>[1] = "sweep"
      OBVIOUS
    <3>2. \A i \in 1 .. 1 : i = 1
      OBVIOUS
    <3>3. \A i \in DOMAIN <<"sweep">> : <<"sweep">>[i] = "sweep"
      BY <3>1, <3>2, Zenon
    <3>4. "sweep" # "store"
      OBVIOUS
    <3> QED BY <3>3, <3>4, Zenon DEF Stores
  <2>3. Stores(todo)
    BY <2>1, Zenon DEF Stores
  <2>4. Tail(todo) \in Todos
    BY <2>1, Zenon DEF Todos
  <2>5. ~Stores(Tail(todo)) /\ Head(todo) # "within"
    BY <2>1, <2>2
  <2> QED BY <2>3, <2>4, <2>5, Zenon
<1> QED BY <1>1, <1>2, <1>3, <1>4 DEF Todos

\* The pts that an emission r has taken and may still store.
Flight(r) ==
    IF r.step = "taken" /\ Stores(r.todo) THEN (r.pts - r.count + 1) .. r.pts ELSE {}

LEMMA FlightIs == \A e : InFlight(e) = Flight(em[e])
BY DEF InFlight, Flight, Stores

\* An emission that a handler can be at, when the counter is p.
Ready(r, p) ==
    /\ r = [step |-> r.step, count |-> r.count, rows |-> r.rows, todo |-> r.todo,
            msg |-> r.msg, pts |-> r.pts]
    /\ r.step \in {"idle", "begun", "taken"}
    /\ r.step # "idle" => /\ r.count \in Nat /\ r.todo \in Todos
                          /\ Offsets(r.rows, r.count)
    /\ r.step = "taken" => r.pts \in Nat /\ r.count <= r.pts /\ r.pts <= p

LEMMA NoEmissionReady == \A p : Ready(NoEmission, p) /\ Flight(NoEmission) = {}
BY DEF NoEmission, Ready, Flight

LEMMA KeptOffsets ==
    ASSUME NEW R, NEW n \in Nat, Offsets(R, n)
    PROVE  Offsets(Kept(R), n)
<1> DEFINE kept(r) == [r EXCEPT !.class = IF @ \in {"named", "hidden"} THEN "plain" ELSE @]
<1>1. Kept(R) = {kept(r) : r \in R}
  BY DEF Kept
<1>2. ASSUME NEW r \in R PROVE IsRow(kept(r), n) /\ kept(r).off = r.off
  <2>1. IsRow(r, n)
    BY DEF Offsets
  <2>2. kept(r) = [off |-> r.off, class |-> kept(r).class]
    BY <2>1 DEF IsRow
  <2> HIDE DEF kept
  <2>3. r.off \in Nat /\ (r.off < n \/ (n = 0 /\ r.off = 0))
    BY <2>1 DEF IsRow
  <2> QED BY <2>2, <2>3, MadeRow
<1> HIDE DEF kept
<1>3. ASSUME NEW a \in Kept(R), NEW b \in Kept(R), a.off = b.off PROVE a = b
  <2>1. PICK r \in R : a = kept(r)
    BY <1>1
  <2>2. PICK s \in R : b = kept(s)
    BY <1>1
  <2>3. r.off = s.off
    BY <1>2, <1>3, <2>1, <2>2
  <2> QED BY <2>1, <2>2, <2>3 DEF Offsets
<1> QED BY <1>1, <1>2, <1>3 DEF Offsets

LEMMA EmissionReady ==
    ASSUME NEW k, Kind(k), NEW m, NEW p
    PROVE  Ready(Emission(k, m), p) /\ Emission(k, m).step = "begun"
<1> DEFINE r == Emission(k, m)
<1>1. /\ r = [step |-> "begun", count |-> k.count, rows |-> Kept(k.rows), todo |-> Steps(k.todo),
               msg |-> m, pts |-> 0]
  <2> DEFINE count == k.count
             R     == Kept(k.rows)
             todo  == Steps(k.todo)
  <2>1. r = [NoEmission EXCEPT !.step = "begun", !.count = count, !.rows = R, !.todo = todo,
                               !.msg = m]
    BY DEF Emission
  <2> HIDE DEF r, count, R, todo
  <2>2. r = [step |-> "begun", count |-> count, rows |-> R, todo |-> todo, msg |-> m,
             pts |-> 0]
    BY <2>1 DEF NoEmission
  <2> QED BY <2>2 DEF count, R, todo
<1>2. /\ k.count \in Nat /\ Steps(k.todo) \in Todos /\ Offsets(Kept(k.rows), k.count)
  BY StepsTodo, KeptOffsets DEF Kind
<1> HIDE DEF r
<1>3. /\ r.step = "begun" /\ r.count = k.count /\ r.rows = Kept(k.rows)
      /\ r.todo = Steps(k.todo) /\ r.msg = m /\ r.pts = 0
  BY <1>1
<1>4. r = [step |-> r.step, count |-> r.count, rows |-> r.rows, todo |-> r.todo,
           msg |-> r.msg, pts |-> r.pts]
  BY <1>1, <1>3
<1>5. Ready(r, p)
  BY <1>2, <1>3, <1>4 DEF Ready
<1> QED BY <1>3, <1>5 DEF r

\* An emission that has done the first thing it has to do.
LEMMA DoneReady ==
    ASSUME NEW r, NEW p, Ready(r, p), r.step = "taken"
    PROVE  /\ Ready(Done(r), p)
           /\ Flight(Done(r)) \subseteq Flight(r)
           /\ Head(r.todo) = "store" => Flight(Done(r)) = {}
<1>1. CASE Len(r.todo) = 1
  <2>1. Done(r) = NoEmission
    BY <1>1 DEF Done
  <2> QED BY <2>1, NoEmissionReady
<1>2. CASE Len(r.todo) # 1
  <2> DEFINE d == [r EXCEPT !.todo = Tail(@)]
  <2>1. Done(r) = d
    BY <1>2 DEF Done
  <2>2. /\ d.step = r.step /\ d.count = r.count /\ d.rows = r.rows /\ d.todo = Tail(r.todo)
        /\ d.msg = r.msg /\ d.pts = r.pts
        /\ d = [step |-> d.step, count |-> d.count, rows |-> d.rows, todo |-> d.todo,
                msg |-> d.msg, pts |-> d.pts]
    <3> DEFINE rest == Tail(r.todo)
    <3>1. d = [r EXCEPT !.todo = rest]
      OBVIOUS
    <3>2. r = [step |-> r.step, count |-> r.count, rows |-> r.rows, todo |-> r.todo,
               msg |-> r.msg, pts |-> r.pts]
      BY DEF Ready
    <3> HIDE DEF d, rest
    <3>3. d = [step |-> r.step, count |-> r.count, rows |-> r.rows, todo |-> rest,
               msg |-> r.msg, pts |-> r.pts]
      BY <3>1, <3>2
    <3>4. /\ d.step = r.step /\ d.count = r.count /\ d.rows = r.rows /\ d.todo = rest
          /\ d.msg = r.msg /\ d.pts = r.pts
      BY <3>3
    <3> QED BY <3>3, <3>4 DEF rest
  <2> HIDE DEF d
  <2>3. r.todo \in Todos /\ Tail(r.todo) \in Todos
    BY <1>2, TodoRest DEF Ready
  <2>4. Ready(d, p)
    BY <2>2, <2>3 DEF Ready
  <2>5. Flight(d) \subseteq Flight(r) /\ (Head(r.todo) = "store" => Flight(d) = {})
    BY <1>2, <2>2, <2>3, TodoRest DEF Flight
  <2> QED BY <2>1, <2>4, <2>5
<1> QED BY <1>1, <1>2

\* The rows that an emission stores when its last pts is p.
LEMMA NewRowsFine ==
    ASSUME NEW r, NEW p \in Nat, r.count \in Nat, r.count <= p, Offsets(r.rows, r.count)
    PROVE  /\ \A s \in NewRows(r, p) :
                 s.pts \in 0 .. p /\ (s.took => s.pts \in (p - r.count + 1) .. p)
           /\ \A s, t \in NewRows(r, p) : s.pts = t.pts => s = t
<1> DEFINE row(o) == [pts |-> p - o.off, class |-> o.class, msg |-> r.msg, took |-> r.count > 0]
<1>1. NewRows(r, p) = {row(o) : o \in r.rows}
  BY DEF NewRows
<1>2. ASSUME NEW o \in r.rows
      PROVE  /\ row(o).pts = p - o.off /\ row(o).took = (r.count > 0)
             /\ o.off \in Nat /\ (o.off < r.count \/ (r.count = 0 /\ o.off = 0))
  BY DEF Offsets, IsRow
<1> HIDE DEF row
<1>3. ASSUME NEW s \in NewRows(r, p)
      PROVE  s.pts \in 0 .. p /\ (s.took => s.pts \in (p - r.count + 1) .. p)
  <2>1. PICK o \in r.rows : s = row(o)
    BY <1>1
  <2>2. s.pts = p - o.off /\ (s.took => r.count > 0)
    BY <1>2, <2>1
  <2>3. o.off \in Nat /\ o.off <= r.count /\ (r.count > 0 => o.off < r.count)
    BY <1>2
  <2>4. s.pts \in 0 .. p
    BY <2>2, <2>3
  <2>5. ASSUME s.took PROVE s.pts \in (p - r.count + 1) .. p
    <3>1. o.off < r.count
      BY <2>2, <2>3, <2>5
    <3> QED BY <2>2, <2>3, <3>1
  <2> QED BY <2>4, <2>5
<1>4. ASSUME NEW s \in NewRows(r, p), NEW t \in NewRows(r, p), s.pts = t.pts PROVE s = t
  <2>1. PICK o \in r.rows : s = row(o)
    BY <1>1
  <2>2. PICK q \in r.rows : t = row(q)
    BY <1>1
  <2>3. o.off = q.off
    BY <1>2, <1>4, <2>1, <2>2
  <2> QED BY <2>1, <2>2, <2>3 DEF Offsets
<1> QED BY <1>3, <1>4

-----------------------------------------------------------------------------
(* The inductive invariant *)

PtsInv ==
    /\ pts \in Nat
    /\ DOMAIN em = Emitters
    /\ \A e \in Emitters : Ready(em[e], pts)
    /\ PtsTakenOnce

\* Handler e is at r now, may have moved the counter, and has stored some of N.
LEMMA EmitterKeeps ==
    ASSUME PtsInv, NEW e \in Emitters, NEW r, NEW N,
           em' = [em EXCEPT ![e] = r], pts' \in Nat, pts <= pts', rows' \subseteq rows \cup N,
           Ready(r, pts'), Flight(r) \subseteq Flight(em[e]) \cup ((pts + 1) .. pts'),
           \A s \in N :
               /\ s.pts \in 0 .. pts'
               /\ s.took => /\ s.pts \in Flight(em[e]) \cup ((pts + 1) .. pts')
                            /\ s.pts \notin Flight(r),
           \A s, t \in N : s.pts = t.pts => s = t
    PROVE  PtsInv'
<1>1. /\ pts \in Nat /\ DOMAIN em = Emitters
      /\ \A f \in Emitters : Ready(em[f], pts)
  BY DEF PtsInv
<1>2. DOMAIN em' = Emitters /\ \A f \in Emitters : em'[f] = IF f = e THEN r ELSE em[f]
  BY <1>1
<1>3. ASSUME NEW f \in Emitters PROVE Ready(em[f], pts')
  <2>1. Ready(em[f], pts)
    BY <1>1
  <2>2. em[f].step = "taken" => em[f].pts \in Nat /\ em[f].pts <= pts'
    BY <1>1, <2>1 DEF Ready
  <2> QED BY <2>1, <2>2 DEF Ready
<1>4. ASSUME NEW f \in Emitters PROVE Flight(em[f]) \subseteq 1 .. pts
  <2>1. Ready(em[f], pts)
    BY <1>1
  <2>2. CASE em[f].step = "taken" /\ Stores(em[f].todo)
    <3>1. /\ em[f].count \in Nat /\ em[f].pts \in Nat /\ em[f].count <= em[f].pts
          /\ em[f].pts <= pts
      BY <2>1, <2>2 DEF Ready
    <3>2. Flight(em[f]) = (em[f].pts - em[f].count + 1) .. em[f].pts
      BY <2>2 DEF Flight
    <3> QED BY <1>1, <3>1, <3>2
  <2>3. CASE ~(em[f].step = "taken" /\ Stores(em[f].todo))
    BY <2>3 DEF Flight
  <2> QED BY <2>2, <2>3
<1>5. /\ \A s, t \in rows : s.took /\ t.took /\ s.pts = t.pts => s = t
      /\ \A s \in rows : /\ s.pts \in 0 .. pts
                         /\ s.took => \A f \in Emitters : s.pts \notin Flight(em[f])
      /\ \A f, g \in Emitters : f # g => Flight(em[f]) \cap Flight(em[g]) = {}
  BY FlightIs DEF PtsInv, PtsTakenOnce
<1> DEFINE new == (pts + 1) .. pts'
<1>6. /\ \A n \in new : n \notin 0 .. pts /\ n \notin 1 .. pts
      /\ 0 .. pts \subseteq 0 .. pts'
  BY <1>1
<1> HIDE DEF new
<1>7. /\ Flight(r) \subseteq Flight(em[e]) \cup new
      /\ \A s \in N :
            /\ s.pts \in 0 .. pts'
            /\ s.took => s.pts \in Flight(em[e]) \cup new /\ s.pts \notin Flight(r)
  BY DEF new
<1>8. \A s \in N, t \in rows : s.took /\ t.took => s.pts # t.pts
  BY <1>5, <1>6, <1>7
<1>9. \A s, t \in rows' : s.took /\ t.took /\ s.pts = t.pts => s = t
  BY <1>5, <1>8
<1>10. ASSUME NEW f \in Emitters
       PROVE  Flight(em'[f]) \subseteq Flight(em[f]) \cup (IF f = e THEN new ELSE {})
  BY <1>2, <1>7
<1>11. ASSUME NEW s \in rows'
       PROVE  /\ s.pts \in 0 .. pts'
              /\ s.took => \A f \in Emitters : s.pts \notin Flight(em'[f])
  <2>1. CASE s \in rows
    <3>1. s.pts \in 0 .. pts /\ s.pts \notin new
      BY <1>5, <1>6, <2>1
    <3>2. s.took => \A f \in Emitters : s.pts \notin Flight(em[f])
      BY <1>5, <2>1
    <3>3. s.pts \in 0 .. pts'
      BY <1>6, <3>1
    <3>4. s.took => \A f \in Emitters : s.pts \notin Flight(em'[f])
      BY <1>10, <3>1, <3>2
    <3> QED BY <3>3, <3>4
  <2>2. CASE s \in N
    <3>1. s.pts \in 0 .. pts'
      BY <1>7, <2>2
    <3>2. ASSUME s.took, NEW f \in Emitters PROVE s.pts \notin Flight(em'[f])
      <4>1. s.pts \in Flight(em[e]) \cup new /\ s.pts \notin Flight(r)
        BY <1>7, <2>2, <3>2
      <4>2. CASE f = e
        BY <1>2, <4>1, <4>2
      <4>3. CASE f # e
        <5>1. em'[f] = em[f] /\ Flight(em[f]) \cap Flight(em[e]) = {}
          BY <1>2, <1>5, <4>3
        <5>2. s.pts \in new => s.pts \notin Flight(em[f])
          BY <1>4, <1>6
        <5> QED BY <4>1, <5>1, <5>2
      <4> QED BY <4>2, <4>3
    <3> QED BY <3>1, <3>2
  <2> QED BY <2>1, <2>2
<1>12. ASSUME NEW f \in Emitters, NEW g \in Emitters, f # g
       PROVE  Flight(em'[f]) \cap Flight(em'[g]) = {}
  <2>1. Flight(em[f]) \cap Flight(em[g]) = {}
    BY <1>5, <1>12
  <2>2. Flight(em[f]) \cap new = {} /\ Flight(em[g]) \cap new = {}
    BY <1>4, <1>6
  <2> QED BY <1>10, <1>12, <2>1, <2>2
<1>13. \A f \in Emitters : InFlight(f)' = Flight(em'[f])
  BY DEF InFlight, Flight, Stores
<1>14. PtsTakenOnce'
  BY <1>9, <1>11, <1>12, <1>13 DEF PtsTakenOnce
<1>15. \A f \in Emitters : Ready(em'[f], pts')
  BY <1>2, <1>3
<1>16. \A f \in Emitters : Ready(em[f], pts)'
  BY <1>15 DEF Ready
<1> QED BY <1>2, <1>14, <1>16 DEF PtsInv

-----------------------------------------------------------------------------
(* The steps *)

LEMMA InitPts == Init => PtsInv
<1> SUFFICES ASSUME Init PROVE PtsInv
  OBVIOUS
<1>1. pts = 0 /\ em = [e \in Emitters |-> NoEmission] /\ rows = {}
  BY DEF Init
<1>2. \A e \in Emitters : Ready(em[e], pts) /\ Flight(em[e]) = {}
  BY <1>1, NoEmissionReady
<1>3. PtsTakenOnce
  BY <1>1, <1>2, FlightIs DEF PtsTakenOnce
<1> QED BY <1>1, <1>2, <1>3 DEF PtsInv

\* A handler that has not taken its pts yet stores nothing of them.
LEMMA BegunFlight == \A r : r.step # "taken" => Flight(r) = {}
BY DEF Flight

\* Handler e is at r now, may have moved the counter, and has stored nothing.
LEMMA EmitterMoves ==
    ASSUME PtsInv, NEW e \in Emitters, NEW r,
           em' = [em EXCEPT ![e] = r], pts' \in Nat, pts <= pts', rows' \subseteq rows,
           Ready(r, pts'), Flight(r) \subseteq Flight(em[e]) \cup ((pts + 1) .. pts')
    PROVE  PtsInv'
<1> DEFINE N == {}
<1>1. /\ rows' \subseteq rows \cup N
      /\ \A s \in N :
            /\ s.pts \in 0 .. pts'
            /\ s.took => /\ s.pts \in Flight(em[e]) \cup ((pts + 1) .. pts')
                         /\ s.pts \notin Flight(r)
      /\ \A s, t \in N : s.pts = t.pts => s = t
  OBVIOUS
<1> HIDE DEF N
<1> QED BY <1>1, EmitterKeeps

\* A handler begins an emission; the rows of what it deleted may go.
LEMMA BeginKeeps ==
    ASSUME PtsInv, NEW e \in Emitters, NEW k, NEW m, Kind(k), Begin(e, k, m), rows' \subseteq rows
    PROVE  PtsInv'
<1> DEFINE r == Emission(k, m)
<1>1. Ready(r, pts) /\ Flight(r) = {}
  BY EmissionReady, BegunFlight
<1>2. em' = [em EXCEPT ![e] = r] /\ pts' = pts /\ pts \in Nat
  BY DEF Begin, PtsInv
<1> HIDE DEF r
<1>3. pts' \in Nat /\ pts <= pts'
  BY <1>2
<1>4. Ready(r, pts')
  BY <1>1, <1>2
<1>5. Flight(r) \subseteq Flight(em[e]) \cup ((pts + 1) .. pts')
  BY <1>1
<1> QED BY <1>2, <1>3, <1>4, <1>5, EmitterMoves

\* A handler goes on to r and takes and stores nothing.
LEMMA QuietKeeps ==
    ASSUME PtsInv, NEW e \in Emitters, NEW r, em' = [em EXCEPT ![e] = r], UNCHANGED pts,
           rows' \subseteq rows, Ready(r, pts), Flight(r) \subseteq Flight(em[e])
    PROVE  PtsInv'
<1>1. pts' = pts /\ pts' \in Nat /\ pts <= pts'
  BY DEF PtsInv
<1>2. Ready(r, pts')
  BY <1>1
<1>3. Flight(r) \subseteq Flight(em[e]) \cup ((pts + 1) .. pts')
  OBVIOUS
<1> QED BY <1>1, <1>2, <1>3, EmitterMoves

\* add_pts, with or without the rows.
LEMMA TakeKeeps ==
    ASSUME PtsInv, NEW e \in Emitters, NEW r, Ready(r, pts), r.step = "begun", TakePts(e, r)
    PROVE  PtsInv'
<1> DEFINE q == pts + r.count
<1>1. /\ r.count \in Nat /\ r.todo \in Todos /\ Offsets(r.rows, r.count)
      /\ pts \in Nat
  BY DEF Ready, PtsInv
<1>2. pts' = q
  BY <1>1 DEF TakePts, Counter
<1>3. /\ q \in Nat /\ pts <= q /\ r.count <= q /\ q - r.count + 1 = pts + 1
  BY <1>1
<1>4. \/ /\ Head(r.todo) = "within" /\ rows' = rows \cup NewRows(r, q)
         /\ em' = [em EXCEPT ![e] = Done(r)]
      \/ /\ em' = [em EXCEPT ![e] = [r EXCEPT !.step = "taken", !.pts = q]]
         /\ rows' = rows
  BY DEF TakePts, Counter
<1> HIDE DEF q
<1>5. CASE /\ Head(r.todo) = "within" /\ rows' = rows \cup NewRows(r, q)
           /\ em' = [em EXCEPT ![e] = Done(r)]
  <2>1. r.todo = <<"within">>
    BY <1>1, <1>5, TodoRest
  <2>2. Done(r) = NoEmission
    BY <2>1 DEF Done
  <2>3. Ready(NoEmission, pts') /\ Flight(NoEmission) = {}
    BY NoEmissionReady
  <2>4. /\ \A s \in NewRows(r, q) :
              s.pts \in 0 .. q /\ (s.took => s.pts \in (q - r.count + 1) .. q)
        /\ \A s, t \in NewRows(r, q) : s.pts = t.pts => s = t
    BY <1>1, <1>3, NewRowsFine
  <2>5. em' = [em EXCEPT ![e] = NoEmission] /\ rows' \subseteq rows \cup NewRows(r, q)
    BY <1>5, <2>2
  <2>6. \A s \in NewRows(r, q) :
            /\ s.pts \in 0 .. pts'
            /\ s.took => /\ s.pts \in Flight(em[e]) \cup ((pts + 1) .. pts')
                         /\ s.pts \notin Flight(NoEmission)
    BY <1>2, <1>3, <2>3, <2>4
  <2>7. Flight(NoEmission) \subseteq Flight(em[e]) \cup ((pts + 1) .. pts')
    BY <2>3
  <2> QED BY <1>2, <1>3, <2>3, <2>4, <2>5, <2>6, <2>7, EmitterKeeps
<1>6. CASE /\ em' = [em EXCEPT ![e] = [r EXCEPT !.step = "taken", !.pts = q]]
           /\ rows' = rows
  <2> DEFINE d == [r EXCEPT !.step = "taken", !.pts = q]
  <2>1. /\ d.step = "taken" /\ d.count = r.count /\ d.rows = r.rows /\ d.todo = r.todo
        /\ d.msg = r.msg /\ d.pts = q
        /\ d = [step |-> d.step, count |-> d.count, rows |-> d.rows, todo |-> d.todo,
                msg |-> d.msg, pts |-> d.pts]
    <3>1. r = [step |-> r.step, count |-> r.count, rows |-> r.rows, todo |-> r.todo,
               msg |-> r.msg, pts |-> r.pts]
      BY DEF Ready
    <3> DEFINE b == r.step
               n == r.count
               R == r.rows
               t == r.todo
               m == r.msg
               x == r.pts
    <3>2. r = [step |-> b, count |-> n, rows |-> R, todo |-> t, msg |-> m, pts |-> x]
      BY <3>1
    <3>3. d = [r EXCEPT !.step = "taken", !.pts = q]
      OBVIOUS
    <3> HIDE DEF d, b, n, R, t, m, x
    <3>4. d = [step |-> "taken", count |-> n, rows |-> R, todo |-> t, msg |-> m, pts |-> q]
      BY <3>2, <3>3
    <3>5. d = [step |-> "taken", count |-> r.count, rows |-> r.rows, todo |-> r.todo,
               msg |-> r.msg, pts |-> q]
      BY <3>4 DEF n, R, t, m
    <3>6. /\ d.step = "taken" /\ d.count = r.count /\ d.rows = r.rows /\ d.todo = r.todo
          /\ d.msg = r.msg /\ d.pts = q
      BY <3>5
    <3> QED BY <3>5, <3>6
  <2> HIDE DEF d
  <2>2. Ready(d, q)
    BY <1>1, <1>3, <2>1 DEF Ready
  <2>3. Flight(d) \subseteq (pts + 1) .. q
    BY <1>3, <2>1 DEF Flight
  <2>4. em' = [em EXCEPT ![e] = d] /\ rows' \subseteq rows
    BY <1>6 DEF d
  <2>5. Flight(d) \subseteq Flight(em[e]) \cup ((pts + 1) .. pts')
    BY <1>2, <2>3
  <2>6. Ready(d, pts') /\ pts' \in Nat /\ pts <= pts'
    BY <1>2, <1>3, <2>2
  <2> QED BY <2>4, <2>5, <2>6, EmitterMoves
<1> QED BY <1>4, <1>5, <1>6

\* The rows of pts that were taken before.
LEMMA StoreKeeps ==
    ASSUME PtsInv, NEW e \in Emitters, Store(e)
    PROVE  PtsInv'
<1> DEFINE r == em[e]
           N == NewRows(r, r.pts)
<1>1. /\ r.step = "taken" /\ Head(r.todo) = "store" /\ rows' = rows \cup N
      /\ em' = [em EXCEPT ![e] = Done(r)] /\ pts' = pts
  BY DEF Store, Doing
<1>2. pts \in Nat /\ Ready(r, pts)
  BY DEF PtsInv
<1>3. /\ r.count \in Nat /\ r.todo \in Todos /\ Offsets(r.rows, r.count)
      /\ r.pts \in Nat /\ r.count <= r.pts /\ r.pts <= pts
  BY <1>1, <1>2 DEF Ready
<1>4. Stores(r.todo)
  BY <1>1, <1>3, TodoRest
<1>5. Flight(r) = (r.pts - r.count + 1) .. r.pts
  BY <1>1, <1>4 DEF Flight
<1>6. Ready(Done(r), pts) /\ Flight(Done(r)) = {}
  BY <1>1, <1>2, DoneReady
<1>7. /\ \A s \in N : s.pts \in 0 .. r.pts /\ (s.took => s.pts \in (r.pts - r.count + 1) .. r.pts)
      /\ \A s, t \in N : s.pts = t.pts => s = t
  BY <1>3, NewRowsFine
<1> DEFINE d == Done(r)
<1> HIDE DEF N, d
<1>8. \A s \in N : /\ s.pts \in 0 .. pts'
                   /\ s.took => /\ s.pts \in Flight(em[e]) \cup ((pts + 1) .. pts')
                                /\ s.pts \notin Flight(d)
  <2>1. 0 .. r.pts \subseteq 0 .. pts'
    BY <1>1, <1>2, <1>3
  <2> QED BY <1>5, <1>6, <1>7, <2>1 DEF d
<1>9. Flight(d) \subseteq Flight(em[e]) \cup ((pts + 1) .. pts')
  BY <1>6 DEF d
<1>10. /\ em' = [em EXCEPT ![e] = d] /\ pts' \in Nat /\ pts <= pts'
       /\ rows' \subseteq rows \cup N /\ Ready(d, pts')
  BY <1>1, <1>2, <1>6 DEF d
<1> QED BY <1>7, <1>8, <1>9, <1>10, EmitterKeeps

\* One step of a handler.
LEMMA EmitterStepKeeps ==
    ASSUME PtsInv, NEW e \in Emitters, EmitterStep(e)
    PROVE  PtsInv'
<1>1. ASSUME NEW m \in Msgs, NEW k \in Sent, SendMessage(e, k, m) PROVE PtsInv'
  BY <1>1, SentKinds, BeginKeeps DEF SendMessage
<1>2. ASSUME NEW m \in Msgs, NEW k \in Deleted, DeleteMessages(e, k, m) PROVE PtsInv'
  BY <1>2, EditedDeletedKinds, BeginKeeps DEF DeleteMessages
<1>3. ASSUME NEW m \in Msgs, NEW k \in Edited \cup Announcements, Announce(e, k, m)
      PROVE  PtsInv'
  <2>1. Kind(k)
    BY EditedDeletedKinds, AnnouncementKinds
  <2> QED BY <1>3, <2>1, EmissionReady, TakeKeeps DEF Announce
<1>4. CASE AddPts(e)
  BY <1>4, TakeKeeps DEF AddPts, PtsInv
<1>5. CASE Store(e)
  BY <1>5, StoreKeeps
<1>6. CASE Sweep(e) \/ PushUpdate(e)
  <2>1. /\ em[e].step = "taken" /\ em' = [em EXCEPT ![e] = Done(em[e])] /\ UNCHANGED pts
        /\ rows' \subseteq rows
    BY <1>6 DEF Sweep, PushUpdate, Doing
  <2>2. Ready(em[e], pts)
    BY DEF PtsInv
  <2>3. Ready(Done(em[e]), pts) /\ Flight(Done(em[e])) \subseteq Flight(em[e])
    BY <2>1, <2>2, DoneReady
  <2> QED BY <2>1, <2>3, QuietKeeps
<1>7. CASE Fail(e)
  <2>1. em' = [em EXCEPT ![e] = NoEmission] /\ UNCHANGED pts /\ rows' \subseteq rows
    BY <1>7 DEF Fail
  <2>2. Ready(NoEmission, pts) /\ Flight(NoEmission) \subseteq Flight(em[e])
    BY NoEmissionReady
  <2> QED BY <2>1, <2>2, QuietKeeps
<1> QED BY <1>1, <1>2, <1>3, <1>4, <1>5, <1>6, <1>7 DEF EmitterStep

\* A difference only reads the log.
LEMMA ClientReads == ClientStep \/ UNCHANGED vars => UNCHANGED <<pts, em, rows>>
BY DEF ClientStep, UserDifferenceBegins, ChannelDifferenceBegins, UserDifferenceReads,
       UserDifferenceEnds, UserDifferenceTooLong, ChannelDifferenceMeasures,
       ChannelDifferenceReads, ChannelDifferenceEnds, Respond, Ask, vars

LEMMA UnchangedPts == PtsInv /\ UNCHANGED <<pts, em, rows>> => PtsInv'
<1> SUFFICES ASSUME PtsInv, UNCHANGED <<pts, em, rows>> PROVE PtsInv'
  OBVIOUS
<1>1. \A e \in Emitters : InFlight(e)' = InFlight(e)
  BY DEF InFlight
<1>2. PtsTakenOnce'
  BY <1>1 DEF PtsInv, PtsTakenOnce
<1>3. \A e \in Emitters : Ready(em[e], pts)'
  BY DEF PtsInv, Ready
<1> QED BY <1>2, <1>3 DEF PtsInv

\* No pts is given to two updates of one log, none is above the counter, and
\* what a handler has taken and not stored yet no other takes or stores:
\* for every set of handlers, every limit, and every number of messages that an
\* update is about (State.add_pts, Channel.add_pts, updates_manager.py).
THEOREM PtsOnce == Spec => []PtsTakenOnce
<1>1. PtsInv /\ [Next]_vars => PtsInv'
  <2> SUFFICES ASSUME PtsInv, [Next]_vars PROVE PtsInv'
    OBVIOUS
  <2>1. ASSUME NEW e \in Emitters, EmitterStep(e) PROVE PtsInv'
    BY <2>1, EmitterStepKeeps
  <2>2. CASE ClientStep \/ UNCHANGED vars
    BY <2>2, ClientReads, UnchangedPts
  <2> QED BY <2>1, <2>2 DEF Next
<1>2. PtsInv => PtsTakenOnce
  BY DEF PtsInv
<1> QED BY InitPts, <1>1, <1>2, PTL DEF Spec
=============================================================================
