---------------------------- MODULE AdapterProofs ----------------------------
(***************************************************************************)
(* Proofs about the chat adapters: that what a platform has for the bot is *)
(* handed over once, for Telegram, the mailbox, the eight adapters of      *)
(* module Inbox, and Mochat, for every number of updates, mails, posts,    *)
(* messages, repeated deliveries, faults and restarts; and that a reply is *)
(* shown whole and in order, or what is missing is known, for Telegram and *)
(* the eight adapters of module Outbox, whatever the reply: what its text  *)
(* is cut into, chunks or cards, holds all of it.                          *)
(***************************************************************************)
EXTENDS Adapters, Mochat,
        QueueFacts, WellFoundedInduction, FunctionTheorems, FiniteSetTheorems

-----------------------------------------------------------------------------
(* Queues whose elements come once *)

\* No element comes twice in a queue, but for those of E.
ComesOnce(q, E) == \A i, j \in DOMAIN q : i # j /\ q[i] = q[j] => q[i] \in E

LEMMA OnceQueue ==
  ASSUME NEW S, NEW q \in Seq(S), NEW E, ComesOnce(q, E)
  PROVE  /\ \A x \in S : (x \in Range(q) => x \in E) => ComesOnce(Append(q, x), E)
         /\ q # <<>> => ComesOnce(Tail(q), E) /\ (Head(q) \in Range(Tail(q)) => Head(q) \in E)
         /\ \A F : E \subseteq F => ComesOnce(q, F)
<1>1. ASSUME NEW x \in S, x \in Range(q) => x \in E PROVE ComesOnce(Append(q, x), E)
  <2>1. PICK n \in Nat : n = Len(q) /\ DOMAIN q = 1..n
    BY QueueShape
  <2>2. PICK a : a = Append(q, x)
    OBVIOUS
  <2>3. DOMAIN a = 1..(n + 1) /\ a[n + 1] = x /\ \A i \in 1..n : a[i] = q[i] /\ a[i] \in Range(q)
    BY <2>1, <2>2, QueueShape DEF Range
  <2>4. ASSUME NEW i \in DOMAIN a, NEW j \in DOMAIN a, i # j, a[i] = a[j] PROVE a[i] \in E
    <3>1. CASE i \in 1..n /\ j \in 1..n
      BY <2>1, <2>3, <2>4, <3>1 DEF ComesOnce
    <3>2. CASE i = n + 1 \/ j = n + 1
      BY <1>1, <2>3, <2>4, <3>2
    <3> QED
      BY <2>3, <3>1, <3>2
  <2> QED
    BY <2>2, <2>4 DEF ComesOnce
<1>2. ASSUME q # <<>> PROVE ComesOnce(Tail(q), E) /\ (Head(q) \in Range(Tail(q)) => Head(q) \in E)
  <2>1. PICK n \in Nat : n = Len(q) /\ DOMAIN q = 1..n /\ n > 0 /\ Head(q) = q[1]
    BY <1>2, QueueShape
  <2>2. PICK t : t = Tail(q) /\ DOMAIN t = 1..(n - 1) /\ \A i \in 1..(n - 1) : t[i] = q[i + 1]
    BY <1>2, <2>1, QueueShape
  <2>3. ComesOnce(t, E)
    BY <2>1, <2>2 DEF ComesOnce
  <2>4. ASSUME q[1] \in Range(t) PROVE q[1] \in E
    <3>1. PICK i \in 1..(n - 1) : q[1] = q[i + 1]
      BY <2>2, <2>4 DEF Range
    <3> QED
      BY <2>1, <3>1 DEF ComesOnce
  <2> QED
    BY <2>1, <2>2, <2>3, <2>4
<1>3. \A F : E \subseteq F => ComesOnce(q, F)
  BY DEF ComesOnce
<1> QED
  BY <1>1, <1>2, <1>3

\* The elements of a queue are its head and those of the rest.
LEMMA HeadAndRest ==
  ASSUME NEW S, NEW q \in Seq(S), q # <<>>
  PROVE  Range(q) = Range(Tail(q)) \cup {Head(q)}
<1>1. PICK n \in Nat : n = Len(q) /\ DOMAIN q = 1..n /\ n > 0 /\ Head(q) = q[1]
  BY QueueShape
<1>2. PICK t : t = Tail(q) /\ DOMAIN t = 1..(n - 1) /\ \A i \in 1..(n - 1) : t[i] = q[i + 1]
  BY <1>1, QueueShape
<1>3. ASSUME NEW i \in 1..n PROVE q[i] \in Range(t) \cup {q[1]}
  <2>1. CASE i = 1
    BY <2>1
  <2>2. CASE i # 1
    <3>1. i - 1 \in 1..(n - 1) /\ t[i - 1] = q[i]
      BY <1>2, <2>2
    <3> QED
      BY <1>2, <3>1 DEF Range
  <2> QED
    BY <2>1, <2>2
<1> QED
  BY <1>1, <1>2, <1>3, QueueRange DEF Range

LEMMA NothingQueued == \A S : <<>> \in Seq(S) /\ Range(<<>>) = {} /\ \A E : ComesOnce(<<>>, E)
<1>1. Range(<<>>) = {}
  BY DEF Range
<1>2. \A E : ComesOnce(<<>>, E)
  BY DEF ComesOnce
<1> QED
  BY <1>1, <1>2, EmptySeq

-----------------------------------------------------------------------------
(* Telegram *)

Update == [part : BOOLEAN, allowed : BOOLEAN, forBot : BOOLEAN]

TelegramTypes ==
  /\ arrived \in Seq(Update) /\ {updateQueue, album} \subseteq Seq(Nat)
  /\ handedOver \in Seq(Seq(Nat)) /\ handling \in Nat

\* Of the places where updates are, no two have one in common.
Apart(a, b, c, d, e) ==
  /\ a \cap (b \cup c \cup d \cup e) = {} /\ b \cap (c \cup d \cup e) = {}
  /\ c \cap (d \cup e) = {} /\ d \cap e = {}

HandedApart ==
  /\ \A i, j \in DOMAIN handedOver : i # j => Range(handedOver[i]) \cap Range(handedOver[j]) = {}
  /\ \A updates \in Range(handedOver) : ComesOnce(updates, {})

Placed ==
  /\ Apart(Range(updateQueue), {handling} \ {0}, Range(album), HandedUpdates, dropped)
  /\ Range(updateQueue) \cup ({handling} \ {0}) \cup Range(album) \cup HandedUpdates \cup dropped
       = DOMAIN arrived
  /\ ComesOnce(updateQueue, {}) /\ ComesOnce(album, {})

AlbumFlushes == album # <<>> => flushing

TelegramInv == TelegramTypes /\ HandedApart /\ Placed /\ AlbumFlushes

\* What _handle_message does with updates from elsewhere.
LEMMA HandsThemOver ==
  ASSUME TelegramTypes, HandedApart, NEW updates \in Seq(Nat), ComesOnce(updates, {}), Handed(updates),
         Range(updates) \cap (HandedUpdates \cup dropped) = {}, HandedUpdates \cap dropped = {}
  PROVE  /\ handedOver' \in Seq(Seq(Nat)) /\ HandedApart'
         /\ HandedUpdates' \cup dropped' = HandedUpdates \cup dropped \cup Range(updates)
         /\ HandedUpdates' \cap dropped' = {}
<1>1. CASE handedOver' = Append(handedOver, updates) /\ dropped' = dropped
  <2>1. PICK n \in Nat : n = Len(handedOver) /\ DOMAIN handedOver = 1..n
    BY QueueShape DEF TelegramTypes
  <2>2. PICK h \in Seq(Seq(Nat)) : h = handedOver' /\ h = Append(handedOver, updates)
    BY <1>1, QueueShape DEF TelegramTypes
  <2>3. DOMAIN h = 1..(n + 1) /\ h[n + 1] = updates /\ \A i \in 1..n : h[i] = handedOver[i]
    BY <2>1, <2>2, QueueShape DEF TelegramTypes
  <2>4. Range(h) = Range(handedOver) \cup {updates}
    BY <2>2, QueueRange DEF TelegramTypes
  <2>5. HandedUpdates' = HandedUpdates \cup Range(updates)
    BY <2>2, <2>4 DEF HandedUpdates
  <2>6. \A i \in 1..n : Range(handedOver[i]) \subseteq HandedUpdates
    <3>1. \A i \in 1..n : handedOver[i] \in Range(handedOver)
      BY <2>1 DEF Range
    <3> QED
      BY <3>1 DEF HandedUpdates
  <2>7. ASSUME NEW i \in 1..(n + 1), NEW j \in 1..(n + 1), i # j PROVE Range(h[i]) \cap Range(h[j]) = {}
    <3>1. CASE i \in 1..n /\ j \in 1..n
      BY <2>1, <2>3, <2>7, <3>1 DEF HandedApart
    <3>2. CASE i = n + 1 /\ j \in 1..n
      BY <2>3, <2>6, <3>2
    <3>3. CASE j = n + 1 /\ i \in 1..n
      BY <2>3, <2>6, <3>3
    <3> QED
      BY <2>7, <3>1, <3>2, <3>3
  <2>8. HandedApart'
    BY <2>2, <2>3, <2>4, <2>7 DEF HandedApart
  <2> QED
    BY <1>1, <2>2, <2>5, <2>8
<1>2. CASE handedOver' = handedOver /\ dropped' = dropped \cup Range(updates)
  BY <1>2 DEF TelegramTypes, HandedApart, HandedUpdates
<1> QED
  BY <1>1, <1>2 DEF Handed

LEMMA TelegramStart == TelegramInit => TelegramInv
<1> SUFFICES ASSUME TelegramInit PROVE TelegramInv
  OBVIOUS
<1>1. /\ arrived = <<>> /\ updateQueue = <<>> /\ handling = 0 /\ album = <<>> /\ handedOver = <<>> /\ dropped = {}
  BY DEF TelegramInit
<1>2. HandedUpdates = {} /\ DOMAIN arrived = {} /\ DOMAIN handedOver = {} /\ Range(handedOver) = {}
  BY <1>1, NothingQueued DEF HandedUpdates
<1> QED
  BY <1>1, <1>2, NothingQueued DEF TelegramInv, TelegramTypes, HandedApart, Placed, AlbumFlushes, Apart

LEMMA HearsKeeps == ASSUME TelegramInv, Hears \/ Shuts PROVE TelegramInv'
<1>0. TelegramTypes /\ HandedApart
  BY DEF TelegramInv, Placed
<1>1. ASSUME NEW part \in BOOLEAN, NEW allowed \in BOOLEAN, NEW forBot \in BOOLEAN, Arrive(part, allowed, forBot)
      PROVE TelegramInv'
  <2>1. PICK n \in Nat : n = Len(arrived) /\ DOMAIN arrived = 1..n
    BY <1>0, QueueShape DEF TelegramTypes
  <2>2. PICK u \in Update : u = [part |-> part, allowed |-> allowed, forBot |-> forBot]
    BY DEF Update
  <2>3. /\ arrived' = Append(arrived, u) /\ updateQueue' = Append(updateQueue, Len(arrived'))
        /\ UNCHANGED <<handling, album, flushing, handedOver, dropped>>
    BY <1>1, <2>2 DEF Arrive
  <2>4. arrived' \in Seq(Update) /\ Len(arrived') = n + 1 /\ DOMAIN arrived' = 1..(n + 1)
    BY <1>0, <2>1, <2>3, AppendProperties, QueueShape DEF TelegramTypes
  <2>5. PICK next \in Nat : next = n + 1
    OBVIOUS
  <2>6. updateQueue \in Seq(Nat) /\ updateQueue' = Append(updateQueue, next)
    BY <1>0, <2>3, <2>4, <2>5 DEF TelegramTypes
  <2>7. next \notin DOMAIN arrived /\ DOMAIN arrived' = DOMAIN arrived \cup {next}
    BY <2>1, <2>4, <2>5
  <2>8. next \notin Range(updateQueue)
    BY <2>7 DEF TelegramInv, Placed
  <2>9. updateQueue' \in Seq(Nat) /\ Range(updateQueue') = Range(updateQueue) \cup {next} /\ ComesOnce(updateQueue', {})
    BY <2>6, <2>8, QueueShape, QueueRange, OnceQueue DEF TelegramInv, Placed
  <2>10. HandedUpdates' = HandedUpdates /\ HandedApart'
    BY <1>0, <2>3 DEF HandedUpdates, HandedApart
  <2>11. TelegramTypes'
    BY <1>0, <2>3, <2>4, <2>9 DEF TelegramTypes
  <2>12. Placed'
    BY <2>3, <2>7, <2>9, <2>10 DEF TelegramInv, Placed, Apart
  <2> QED
    BY <2>3, <2>10, <2>11, <2>12 DEF TelegramInv, AlbumFlushes
<1>2. CASE TakeUpdate
  <2>1. /\ handling = 0 /\ updateQueue # <<>> /\ updateQueue' = Tail(updateQueue)
        /\ UNCHANGED <<arrived, album, flushing, handedOver>>
        /\ \/ handling' = Head(updateQueue) /\ UNCHANGED dropped
           \/ dropped' = dropped \cup {Head(updateQueue)} /\ UNCHANGED handling
    BY <1>2 DEF TakeUpdate
  <2>2. PICK u \in Nat : u = Head(updateQueue)
    BY <1>0, <2>1, QueueShape DEF TelegramTypes
  <2>3. PICK rest \in Seq(Nat) : rest = Tail(updateQueue)
    BY <1>0, <2>1, QueueShape DEF TelegramTypes
  <2>4. Range(updateQueue) = Range(rest) \cup {u} /\ u \notin Range(rest) /\ ComesOnce(rest, {})
    BY <1>0, <2>1, <2>2, <2>3, HeadAndRest, OnceQueue DEF TelegramTypes, TelegramInv, Placed
  <2>5. u # 0
    <3>1. u \in DOMAIN arrived
      BY <2>4 DEF TelegramInv, Placed
    <3> QED
      BY <1>0, <3>1, QueueShape DEF TelegramTypes
  <2>6. HandedUpdates' = HandedUpdates /\ HandedApart'
    BY <1>0, <2>1 DEF HandedUpdates, HandedApart
  <2>7. TelegramTypes'
    BY <1>0, <2>1, <2>2, <2>3 DEF TelegramTypes
  <2>8. Placed'
    <3>1. PICK Q, A, H : Q = Range(rest) /\ A = Range(album) /\ H = HandedUpdates
      OBVIOUS
    <3>2. /\ Apart(Q \cup {u}, {}, A, H, dropped) /\ Q \cup {u} \cup A \cup H \cup dropped = DOMAIN arrived
          /\ u \notin Q /\ ComesOnce(album, {})
      <4>1. {handling} \ {0} = {}
        BY <2>1
      <4> QED
        BY <2>4, <3>1, <4>1 DEF TelegramInv, Placed
    <3>3. /\ Range(updateQueue') = Q /\ ComesOnce(updateQueue', {}) /\ Range(album') = A /\ ComesOnce(album', {})
          /\ HandedUpdates' = H /\ DOMAIN arrived' = DOMAIN arrived
      BY <2>1, <2>3, <2>4, <2>6, <3>1, <3>2
    <3>4. CASE handling' = u /\ dropped' = dropped
      <4>1. {handling'} \ {0} = {u}
        BY <2>5, <3>4
      <4>2. Apart(Q, {u}, A, H, dropped) /\ Q \cup {u} \cup A \cup H \cup dropped = DOMAIN arrived
        BY <3>2 DEF Apart
      <4> QED
        BY <3>3, <3>4, <4>1, <4>2 DEF Placed
    <3>5. CASE dropped' = dropped \cup {u} /\ handling' = handling
      <4>1. {handling'} \ {0} = {}
        BY <2>1, <3>5
      <4>2. Apart(Q, {}, A, H, dropped') /\ Q \cup {} \cup A \cup H \cup dropped' = DOMAIN arrived
        BY <3>2, <3>5 DEF Apart
      <4> QED
        BY <3>3, <3>5, <4>1, <4>2 DEF Placed
    <3> QED
      BY <2>1, <2>2, <3>4, <3>5
  <2> QED
    BY <2>1, <2>6, <2>7, <2>8 DEF TelegramInv, AlbumFlushes
<1>3. CASE HandleSingle
  <2>1. PICK u \in Nat : u = handling /\ u # 0
    BY <1>0, <1>3 DEF HandleSingle, TelegramTypes
  <2>2. PICK one \in Seq(Nat) : one = <<u>> /\ Range(one) = {u} /\ ComesOnce(one, {})
    <3>1. <<u>> \in Seq(Nat) /\ DOMAIN <<u>> = {1} /\ <<u>>[1] = u
      OBVIOUS
    <3> QED
      BY <3>1 DEF Range, ComesOnce
  <2>3. Handed(one) /\ handling' = 0 /\ UNCHANGED <<arrived, updateQueue, album, flushing>>
    BY <1>3, <2>1, <2>2 DEF HandleSingle
  <2>4. Range(one) \cap (HandedUpdates \cup dropped) = {} /\ HandedUpdates \cap dropped = {}
    BY <2>1, <2>2 DEF TelegramInv, Placed, Apart
  <2>5. /\ handedOver' \in Seq(Seq(Nat)) /\ HandedApart' /\ HandedUpdates' \cap dropped' = {}
        /\ HandedUpdates' \cup dropped' = HandedUpdates \cup dropped \cup Range(one)
    BY <1>0, <2>2, <2>3, <2>4, HandsThemOver
  <2>6. TelegramTypes'
    BY <1>0, <2>3, <2>5 DEF TelegramTypes
  <2>7. {handling'} \ {0} = {} /\ {handling} \ {0} = {u}
    BY <2>1, <2>3
  <2>8. Placed'
    BY <2>2, <2>3, <2>5, <2>7 DEF TelegramInv, Placed, Apart
  <2> QED
    BY <2>3, <2>5, <2>6, <2>8 DEF TelegramInv, AlbumFlushes
<1>4. CASE BufferPart
  <2>1. /\ handling # 0 /\ handling' = 0 /\ album' = Append(album, handling)
        /\ UNCHANGED <<arrived, updateQueue, handedOver, dropped>>
    BY <1>4 DEF BufferPart
  <2>2. album \in Seq(Nat) /\ handling \in Nat /\ handling \notin Range(album)
    BY <1>0, <2>1 DEF TelegramTypes, TelegramInv, Placed, Apart
  <2>3. album' \in Seq(Nat) /\ Range(album') = Range(album) \cup {handling} /\ ComesOnce(album', {})
    BY <2>1, <2>2, QueueShape, QueueRange, OnceQueue DEF TelegramInv, Placed
  <2>4. HandedUpdates' = HandedUpdates /\ HandedApart'
    BY <1>0, <2>1 DEF HandedUpdates, HandedApart
  <2>5. TelegramTypes'
    BY <1>0, <2>1, <2>3 DEF TelegramTypes
  <2>6. {handling'} \ {0} = {} /\ {handling} \ {0} = {handling}
    BY <2>1
  <2>7. Placed'
    BY <2>1, <2>3, <2>4, <2>6 DEF TelegramInv, Placed, Apart
  <2>8. AlbumFlushes'
    BY <1>4 DEF BufferPart, AlbumFlushes
  <2> QED
    BY <2>4, <2>5, <2>7, <2>8 DEF TelegramInv, Placed
<1>5. CASE FlushAlbum
  <2>1. album' = <<>> /\ UNCHANGED <<arrived, updateQueue, handling>>
    BY <1>5 DEF FlushAlbum
  <2>2. album \in Seq(Nat) /\ ComesOnce(album, {}) /\ Range(album) \cap (HandedUpdates \cup dropped) = {} /\ HandedUpdates \cap dropped = {}
    BY <1>0 DEF TelegramTypes, TelegramInv, Placed, Apart
  <2>3. /\ handedOver' \in Seq(Seq(Nat)) /\ HandedApart' /\ HandedUpdates' \cap dropped' = {}
        /\ HandedUpdates' \cup dropped' = HandedUpdates \cup dropped \cup Range(album)
    <3>1. CASE album = <<>>
      <4>1. UNCHANGED <<handedOver, dropped>> /\ Range(album) = {}
        BY <1>5, <3>1, NothingQueued DEF FlushAlbum
      <4> QED
        BY <1>0, <2>2, <4>1 DEF TelegramTypes, HandedApart, HandedUpdates
    <3>2. CASE album # <<>>
      <4>1. Handed(album)
        BY <1>5, <3>2 DEF FlushAlbum
      <4> QED
        BY <1>0, <2>2, <4>1, HandsThemOver
    <3> QED
      BY <3>1, <3>2
  <2>4. TelegramTypes'
    BY <1>0, <2>1, <2>3, NothingQueued DEF TelegramTypes
  <2>5. Placed'
    BY <2>1, <2>3, NothingQueued DEF TelegramInv, Placed, Apart
  <2> QED
    BY <2>1, <2>3, <2>4, <2>5 DEF TelegramInv, AlbumFlushes
<1>6. CASE StopTelegram
  <2>1. album' = <<>> /\ dropped' = dropped \cup Range(album) /\ UNCHANGED <<arrived, updateQueue, handling, handedOver>>
    BY <1>6 DEF StopTelegram
  <2>2. HandedUpdates' = HandedUpdates /\ HandedApart'
    BY <1>0, <2>1 DEF HandedUpdates, HandedApart
  <2>3. TelegramTypes'
    BY <1>0, <2>1, NothingQueued DEF TelegramTypes
  <2>4. Placed'
    BY <2>1, <2>2, NothingQueued DEF TelegramInv, Placed, Apart
  <2> QED
    BY <2>1, <2>2, <2>3, <2>4 DEF TelegramInv, AlbumFlushes
<1>7. CASE TelegramStopped
  BY <1>0, <1>7 DEF TelegramStopped, inboundVars, TelegramInv, TelegramTypes, HandedApart, Placed, AlbumFlushes, HandedUpdates
<1> QED
  BY <1>1, <1>2, <1>3, <1>4, <1>5, <1>6, <1>7 DEF Hears, Shuts

\* An update is handed over once, alone or in its album, whatever is being downloaded when
\* the next one, the album's flush task or stop() comes; and nothing waits in an album
\* without a task that flushes it.
THEOREM UpdatesHandedOnce == TelegramSpec => []UpdatesOnce
<1>1. TelegramInv => UpdatesOnce
  <2> SUFFICES ASSUME TelegramInv PROVE UpdatesOnce
    OBVIOUS
  <2>1. PICK a, b, c, d, e : /\ a = Range(updateQueue) /\ b = {handling} \ {0} /\ c = Range(album)
                             /\ d = HandedUpdates /\ e = dropped
    OBVIOUS
  <2>2. UpdatePlaces = <<a, b, c, d, e>>
    BY <2>1 DEF UpdatePlaces
  <2>3. DOMAIN <<a, b, c, d, e>> = 1..5 /\ Range(<<a, b, c, d, e>>) = {a, b, c, d, e}
    <3>1. DOMAIN <<a, b, c, d, e>> = 1..5
      OBVIOUS
    <3>2. \A i \in 1..5 : i = 1 \/ i = 2 \/ i = 3 \/ i = 4 \/ i = 5
      OBVIOUS
    <3>3. Range(<<a, b, c, d, e>>) = {a, b, c, d, e}
      BY <3>1, <3>2 DEF Range
    <3> QED
      BY <3>1, <3>3
  <2>4. \A i, j \in 1..5 : i # j => <<a, b, c, d, e>>[i] \cap <<a, b, c, d, e>>[j] = {}
    <3>1. Apart(a, b, c, d, e)
      BY <2>1 DEF TelegramInv, Placed
    <3>2. /\ a \cap b = {} /\ a \cap c = {} /\ a \cap d = {} /\ a \cap e = {} /\ b \cap c = {}
          /\ b \cap d = {} /\ b \cap e = {} /\ c \cap d = {} /\ c \cap e = {} /\ d \cap e = {}
      BY <3>1 DEF Apart
    <3> QED
      BY <3>2
  <2>5. UNION {a, b, c, d, e} = DOMAIN arrived
    BY <2>1 DEF TelegramInv, Placed
  <2>6. \A updates \in {updateQueue, album} \cup Range(handedOver) : IsInjective(updates)
    BY DEF TelegramInv, Placed, HandedApart, ComesOnce, IsInjective
  <2> QED
    BY <2>2, <2>3, <2>4, <2>5, <2>6 DEF UpdatesOnce, TelegramInv, HandedApart, AlbumFlushes
<1>2. TelegramInv /\ [TelegramNext]_telegramVars => TelegramInv'
  <2>1. UNCHANGED inboundVars /\ TelegramInv => TelegramInv'
    BY DEF inboundVars, TelegramInv, TelegramTypes, HandedApart, Placed, AlbumFlushes, HandedUpdates
  <2>2. Speaks \/ UNCHANGED telegramVars => UNCHANGED inboundVars
    BY DEF Speaks, SendReply, SendFile, SendText, TextFails, TextTimesOut, ShownOrNot, telegramVars
  <2> QED
    BY <2>1, <2>2, HearsKeeps DEF TelegramNext
<1> QED
  BY <1>1, <1>2, TelegramStart, PTL DEF TelegramSpec

-----------------------------------------------------------------------------
(* The mailbox *)

Poll == [attempt : {1, 2}, todo : SUBSET Nat, fetched : Seq(Nat), storing : Nat]

\* The mails that the program has and has not handed over yet.
Coming == IF Polling THEN fetch.fetched ELSE batch

MailTypes ==
  /\ unseen \subseteq 1..mails /\ mails \in Nat
  /\ fetch \in Poll \cup {NoPoll} /\ {batch, delivered} \subseteq Seq(Nat)

\* Whatever is on its way or was handed over is remembered or was forgotten, and a poll
\* begins when all of the last one has been handed over.
MailsKnown ==
  /\ Polling => batch = <<>>
  /\ ComesOnce(delivered, forgotUid) /\ ComesOnce(Coming, forgotUid)
  /\ Range(delivered) \cap Range(Coming) \subseteq forgotUid
  /\ Range(delivered) \cup Range(Coming) \subseteq processed \cup forgotUid

\* What is marked seen has been fetched.
SeenIsFetched ==
  /\ Polling /\ fetch.storing # 0 => fetch.storing \in Range(fetch.fetched)
  /\ (1..mails) \ unseen \subseteq Range(delivered) \cup Range(Coming) \cup inFailedPoll

MailInv == MailTypes /\ MailsKnown /\ SeenIsFetched

LEMMA PollIsThere == \A p \in Poll : p # NoPoll
<1>1. \A p \in Poll : p.attempt # 0
  BY DEF Poll
<1>2. NoPoll.attempt = 0
  BY DEF NoPoll
<1> QED
  BY <1>1, <1>2

LEMMA PollFacts ==
  ASSUME MailTypes, Polling
  PROVE  /\ fetch \in Poll /\ Coming = fetch.fetched /\ fetch.fetched \in Seq(Nat)
         /\ fetch.todo \subseteq Nat
<1>1. fetch \in Poll
  BY DEF MailTypes, Polling
<1> QED
  BY <1>1 DEF Coming, Poll

LEMMA MailStart == MailboxInit => MailInv
<1> SUFFICES ASSUME MailboxInit PROVE MailInv
  OBVIOUS
<1>1. /\ unseen = {} /\ mails = 0 /\ processed = {} /\ fetch = NoPoll /\ batch = <<>> /\ delivered = <<>>
      /\ ~Polling /\ Coming = <<>>
  BY DEF MailboxInit, Polling, Coming
<1>2. MailTypes
  BY <1>1, NothingQueued DEF MailTypes
<1>3. MailsKnown
  BY <1>1, NothingQueued DEF MailsKnown
<1>4. SeenIsFetched
  BY <1>1 DEF SeenIsFetched
<1> QED
  BY <1>2, <1>3, <1>4 DEF MailInv

LEMMA FetchKeeps ==
  ASSUME MailInv, Polling, NEW uid \in fetch.todo, FetchMail(uid)
  PROVE  MailInv'
<1>1. /\ MailTypes /\ MailsKnown /\ SeenIsFetched /\ fetch \in Poll /\ Coming = fetch.fetched
      /\ fetch.fetched \in Seq(Nat) /\ uid \in Nat
  BY PollFacts, PollIsThere DEF MailInv
<1>2. UNCHANGED <<unseen, mails, batch, delivered, inFailedPoll>> /\ fetch.storing = 0
  BY DEF FetchMail
<1>3. CASE uid \in Range(fetch.fetched) \cup processed
  <2>1. fetch' = [fetch EXCEPT !.todo = @ \ {uid}] /\ UNCHANGED <<processed, forgotUid>>
    BY <1>3 DEF FetchMail
  <2>2. fetch' \in Poll /\ fetch'.fetched = fetch.fetched /\ fetch'.storing = fetch.storing
    BY <1>1, <2>1 DEF Poll
  <2>3. Polling' /\ Coming' = Coming
    BY <1>1, <2>2, PollFacts, PollIsThere DEF Polling, Coming
  <2> QED
    BY <1>1, <1>2, <2>1, <2>2, <2>3 DEF MailInv, MailTypes, MailsKnown, SeenIsFetched
<1>4. CASE uid \notin Range(fetch.fetched) \cup processed
  <2>1. /\ fetch' = [fetch EXCEPT !.todo = @ \ {uid}, !.fetched = Append(@, uid), !.storing = uid]
        /\ forgotUid' = forgotUid \cup ((processed \cup {uid}) \ processed')
    BY <1>4 DEF FetchMail
  <2>2. PICK q \in Seq(Nat) : q = Append(fetch.fetched, uid) /\ Range(q) = Range(fetch.fetched) \cup {uid}
    BY <1>1, QueueShape, QueueRange
  <2>3. fetch' \in Poll /\ fetch'.fetched = q /\ fetch'.storing = uid
    BY <1>1, <2>1, <2>2 DEF Poll
  <2>4. Polling' /\ Coming' = q
    BY <2>3, PollFacts, PollIsThere DEF Polling, Coming
  <2>5. Range(delivered) \cup Range(q) \subseteq processed' \cup forgotUid'
    BY <1>1, <2>1, <2>2 DEF MailsKnown
  <2>6. uid \in Range(delivered) => uid \in forgotUid
    BY <1>1, <1>4 DEF MailsKnown
  <2>7. ComesOnce(q, forgotUid')
    BY <1>1, <1>4, <2>1, <2>2, OnceQueue DEF MailsKnown
  <2>8. ComesOnce(delivered, forgotUid')
    BY <1>1, <2>1, OnceQueue DEF MailsKnown, MailTypes
  <2>9. MailsKnown'
    BY <1>1, <1>2, <2>1, <2>2, <2>4, <2>5, <2>6, <2>7, <2>8 DEF MailsKnown
  <2>10. SeenIsFetched'
    BY <1>1, <1>2, <2>2, <2>3, <2>4 DEF SeenIsFetched
  <2> QED
    BY <1>1, <1>2, <2>3, <2>9, <2>10 DEF MailInv, MailTypes
<1> QED
  BY <1>3, <1>4

LEMMA MailStep == MailInv /\ [MailboxNext]_mailboxVars => MailInv'
<1> SUFFICES ASSUME MailInv, [MailboxNext]_mailboxVars PROVE MailInv'
  OBVIOUS
<1>0. MailTypes /\ MailsKnown /\ SeenIsFetched
  BY DEF MailInv
<1>1. CASE MailArrives
  <2>1. mails' = mails + 1 /\ unseen' = unseen \cup {mails'}
        /\ UNCHANGED <<processed, fetch, batch, delivered, forgotUid, inFailedPoll>>
    BY <1>1 DEF MailArrives
  <2>2. (Polling' <=> Polling) /\ Coming' = Coming
    BY <2>1 DEF Polling, Coming
  <2>3. MailTypes' /\ (1..mails') \ unseen' \subseteq (1..mails) \ unseen
    BY <1>0, <2>1 DEF MailTypes
  <2> QED
    BY <1>0, <2>1, <2>2, <2>3 DEF MailInv, MailsKnown, SeenIsFetched
<1>2. CASE PollBegins
  <2>1. /\ ~Polling /\ batch = <<>> /\ UNCHANGED <<unseen, mails, processed, batch, delivered, forgotUid, inFailedPoll>>
        /\ fetch' = [attempt |-> 1, todo |-> unseen, fetched |-> <<>>, storing |-> 0]
    BY <1>2 DEF PollBegins
  <2>2. fetch' \in Poll /\ fetch'.fetched = <<>> /\ fetch'.storing = 0
    BY <1>0, <2>1, NothingQueued DEF Poll, MailTypes
  <2>3. Polling' /\ Coming' = <<>> /\ Coming = <<>>
    BY <2>1, <2>2, PollFacts, PollIsThere DEF Polling, Coming
  <2> QED
    BY <1>0, <2>1, <2>2, <2>3 DEF MailInv, MailTypes, MailsKnown, SeenIsFetched
<1>3. CASE MarkSeen
  <2>1. /\ Polling /\ fetch.storing # 0 /\ unseen' = unseen \ {fetch.storing}
        /\ fetch' = [fetch EXCEPT !.storing = 0]
        /\ UNCHANGED <<mails, processed, batch, delivered, forgotUid, inFailedPoll>>
    BY <1>3 DEF MarkSeen
  <2>2. fetch \in Poll /\ Coming = fetch.fetched /\ fetch' \in Poll /\ fetch'.fetched = fetch.fetched /\ fetch'.storing = 0
    BY <1>0, <2>1, PollFacts, PollIsThere DEF Poll
  <2>3. Polling' /\ Coming' = Coming
    BY <2>1, <2>2, PollFacts, PollIsThere DEF Polling, Coming
  <2> QED
    BY <1>0, <2>1, <2>2, <2>3 DEF MailInv, MailTypes, MailsKnown, SeenIsFetched
<1>4. CASE PollReturns
  <2>1. /\ Polling /\ batch' = fetch.fetched /\ fetch' = NoPoll
        /\ UNCHANGED <<unseen, mails, processed, delivered, forgotUid, inFailedPoll>>
    BY <1>4 DEF PollReturns
  <2>2. Coming = fetch.fetched /\ fetch.fetched \in Seq(Nat)
    BY <1>0, <2>1, PollFacts
  <2>3. ~Polling' /\ Coming' = Coming
    BY <2>1, <2>2 DEF Polling, Coming
  <2> QED
    BY <1>0, <2>1, <2>2, <2>3 DEF MailInv, MailTypes, MailsKnown, SeenIsFetched
<1>5. CASE PollIsStale
  <2>1. /\ Polling /\ fetch' = [fetch EXCEPT !.attempt = 2, !.todo = unseen, !.storing = 0]
        /\ UNCHANGED <<unseen, mails, processed, batch, delivered, forgotUid, inFailedPoll>>
    BY <1>5 DEF PollIsStale, Refetched
  <2>2. fetch \in Poll /\ Coming = fetch.fetched /\ unseen \subseteq Nat
    BY <1>0, <2>1, PollFacts, PollIsThere DEF MailTypes
  <2>3. fetch' \in Poll /\ fetch'.fetched = fetch.fetched /\ fetch'.storing = 0
    BY <2>1, <2>2 DEF Poll
  <2>4. Polling' /\ Coming' = Coming
    BY <2>1, <2>2, <2>3, PollFacts, PollIsThere DEF Polling, Coming
  <2> QED
    BY <1>0, <2>1, <2>2, <2>3, <2>4 DEF MailInv, MailTypes, MailsKnown, SeenIsFetched
<1>6. CASE PollRaises
  <2>1. /\ Polling /\ inFailedPoll' = inFailedPoll \cup Range(fetch.fetched) /\ fetch' = NoPoll
        /\ UNCHANGED <<unseen, mails, processed, batch, delivered, forgotUid>>
    BY <1>6 DEF PollRaises
  <2>2. Coming = fetch.fetched /\ batch = <<>>
    BY <1>0, <2>1, PollFacts, PollIsThere DEF MailsKnown
  <2>3. ~Polling' /\ Coming' = <<>>
    BY <2>1, <2>2 DEF Polling, Coming
  <2> QED
    BY <1>0, <2>1, <2>2, <2>3, NothingQueued DEF MailInv, MailTypes, MailsKnown, SeenIsFetched
<1>7. CASE HandMail
  <2>1. /\ batch # <<>> /\ delivered' = Append(delivered, Head(batch)) /\ batch' = Tail(batch)
        /\ UNCHANGED <<unseen, mails, processed, fetch, forgotUid, inFailedPoll>>
    BY <1>7 DEF HandMail
  <2>2. ~Polling /\ Coming = batch /\ ~Polling' /\ Coming' = Tail(batch) /\ batch \in Seq(Nat) /\ delivered \in Seq(Nat)
    BY <1>0, <2>1 DEF MailsKnown, MailTypes, Polling, Coming
  <2>3. PICK uid \in Nat, rest \in Seq(Nat) :
          /\ uid = Head(batch) /\ rest = Tail(batch) /\ uid \in Range(batch) /\ Range(rest) \subseteq Range(batch)
          /\ ComesOnce(rest, forgotUid) /\ (uid \in Range(rest) => uid \in forgotUid)
    BY <1>0, <2>1, <2>2, QueueShape, QueueRange, OnceQueue DEF MailsKnown
  <2>4. Range(batch) = Range(rest) \cup {uid}
    BY <2>1, <2>2, <2>3, HeadTailProperties, QueueShape, HeadAndRest
  <2>5. PICK more \in Seq(Nat) : more = Append(delivered, uid) /\ Range(more) = Range(delivered) \cup {uid}
    BY <2>2, QueueShape, QueueRange
  <2>6. ComesOnce(more, forgotUid)
    BY <1>0, <2>2, <2>3, <2>5, OnceQueue DEF MailsKnown
  <2>7. delivered' = more /\ batch' = rest /\ Coming' = rest
    BY <2>1, <2>2, <2>3, <2>5
  <2>8. MailsKnown'
    BY <1>0, <2>1, <2>2, <2>3, <2>4, <2>5, <2>6, <2>7 DEF MailsKnown
  <2>9. SeenIsFetched'
    BY <1>0, <2>1, <2>2, <2>4, <2>5, <2>7 DEF SeenIsFetched
  <2> QED
    BY <1>0, <2>1, <2>5, <2>7, <2>8, <2>9 DEF MailInv, MailTypes
<1>8. CASE RestartMailbox
  <2>1. /\ forgotUid' = forgotUid \cup processed /\ processed' = {} /\ fetch' = NoPoll /\ batch' = <<>>
        /\ inFailedPoll' = inFailedPoll \cup Range(batch) \cup (IF Polling THEN Range(fetch.fetched) ELSE {})
        /\ UNCHANGED <<unseen, mails, delivered>>
    BY <1>8 DEF RestartMailbox
  <2>2. ~Polling' /\ Coming' = <<>> /\ Range(Coming) \subseteq inFailedPoll'
    BY <2>1 DEF Polling, Coming
  <2>3. ComesOnce(delivered, forgotUid')
    BY <1>0, <2>1, OnceQueue DEF MailsKnown, MailTypes
  <2> QED
    BY <1>0, <2>1, <2>2, <2>3, NothingQueued DEF MailInv, MailTypes, MailsKnown, SeenIsFetched
<1>9. CASE UNCHANGED mailboxVars
  BY <1>0, <1>9 DEF mailboxVars, MailInv, MailTypes, MailsKnown, SeenIsFetched, Polling, Coming
<1> QED
  BY <1>1, <1>2, <1>3, <1>4, <1>5, <1>6, <1>7, <1>8, <1>9, FetchKeeps DEF MailboxNext

\* Over polls that break off, are repeated or raise, and restarts (email.py), a mail is handed
\* over once, unless its uid was forgotten, and what is marked seen has been handed over, is
\* about to be, or was lost with a poll that raised.
THEOREM MailsHandedOnce == MailboxSpec => []MailsOnce
<1>1. MailInv => MailsOnce
  <2> SUFFICES ASSUME MailInv PROVE MailsOnce
    OBVIOUS
  <2>1. Range(Coming) \subseteq Range(batch) \cup (IF Polling THEN Range(fetch.fetched) ELSE {})
    BY DEF Coming
  <2> QED
    BY <2>1 DEF MailInv, MailsKnown, SeenIsFetched, MailsOnce, ComesOnce
<1> QED
  BY <1>1, MailStart, MailStep, PTL DEF MailboxSpec

-----------------------------------------------------------------------------
(* How often something stands in a queue *)

HowOften(q, P) == Cardinality({i \in DOMAIN q : q[i] \in P})

LEMMA HowOftenIsNat ==
  ASSUME NEW S, NEW q \in Seq(S), NEW P
  PROVE  IsFiniteSet({i \in DOMAIN q : q[i] \in P}) /\ HowOften(q, P) \in Nat
<1>1. PICK n \in Nat : n = Len(q) /\ DOMAIN q = 1..n
  BY QueueShape
<1>2. IsFiniteSet(1..n)
  BY FS_Interval
<1>3. IsFiniteSet({i \in DOMAIN q : q[i] \in P})
  BY <1>1, <1>2, FS_Subset
<1> QED
  BY <1>3, FS_CardinalityType DEF HowOften

LEMMA HowOftenAppended ==
  ASSUME NEW S, NEW q \in Seq(S), NEW P, NEW x \in S
  PROVE  HowOften(Append(q, x), P) = IF x \in P THEN HowOften(q, P) + 1 ELSE HowOften(q, P)
<1>1. PICK n \in Nat : n = Len(q) /\ DOMAIN q = 1..n
  BY QueueShape
<1>2. PICK a : a = Append(q, x)
  OBVIOUS
<1>3. DOMAIN a = 1..(n + 1) /\ a[n + 1] = x /\ \A i \in 1..n : a[i] = q[i]
  BY <1>1, <1>2, QueueShape
<1>4. PICK before : before = {i \in DOMAIN q : q[i] \in P}
  OBVIOUS
<1>5. {i \in DOMAIN a : a[i] \in P} = IF x \in P THEN before \cup {n + 1} ELSE before
  BY <1>1, <1>3, <1>4
<1>6. IsFiniteSet(before) /\ Cardinality(before) = HowOften(q, P) /\ n + 1 \notin before
  <2>1. n + 1 \notin before
    BY <1>1, <1>4
  <2>2. IsFiniteSet(before)
    BY <1>4, HowOftenIsNat
  <2>3. Cardinality(before) = HowOften(q, P)
    BY <1>4 DEF HowOften
  <2> QED
    BY <2>1, <2>2, <2>3
<1>7. Cardinality(before \cup {n + 1}) = Cardinality(before) + 1
  BY <1>6, FS_AddElement
<1> QED
  BY <1>2, <1>5, <1>6, <1>7 DEF HowOften

LEMMA HowOftenInRest ==
  ASSUME NEW S, NEW q \in Seq(S), NEW P, q # <<>>
  PROVE  HowOften(q, P) = IF Head(q) \in P THEN HowOften(Tail(q), P) + 1 ELSE HowOften(Tail(q), P)
<1>1. PICK n \in Nat : n = Len(q) /\ DOMAIN q = 1..n /\ n > 0 /\ Head(q) = q[1]
  BY QueueShape
<1>2. PICK t \in Seq(S) : t = Tail(q) /\ DOMAIN t = 1..(n - 1) /\ \A i \in 1..(n - 1) : t[i] = q[i + 1]
  BY <1>1, QueueShape
<1>3. PICK inTail : inTail = {i \in DOMAIN t : t[i] \in P}
  OBVIOUS
<1>4. PICK later : later = {i \in 2..n : q[i] \in P}
  OBVIOUS
<1>5. IsFiniteSet(inTail) /\ Cardinality(inTail) = HowOften(t, P)
  BY <1>3, HowOftenIsNat DEF HowOften
<1>6. PICK f : f = [i \in inTail |-> i + 1]
  OBVIOUS
<1>7. f \in Bijection(inTail, later)
  <2>1. f \in [inTail -> later]
    BY <1>2, <1>3, <1>4, <1>6
  <2>2. \A a, b \in inTail : f[a] = f[b] => a = b
    BY <1>2, <1>3, <1>6
  <2>3. ASSUME NEW i \in later PROVE \E j \in inTail : f[j] = i
    <3>1. i - 1 \in 1..(n - 1) /\ t[i - 1] = q[i] /\ q[i] \in P
      BY <1>2, <1>4
    <3>2. i - 1 \in inTail /\ f[i - 1] = i
      BY <1>2, <1>3, <1>4, <1>6, <3>1
    <3> QED
      BY <3>2
  <2> QED
    BY <2>1, <2>2, <2>3, Fun_IsBij
<1>8. IsFiniteSet(later) /\ Cardinality(later) = HowOften(t, P)
  BY <1>5, <1>7, FS_Bijection DEF ExistsBijection
<1>9. {i \in DOMAIN q : q[i] \in P} = IF q[1] \in P THEN later \cup {1} ELSE later
  BY <1>1, <1>4
<1>10. 1 \notin later
  BY <1>4
<1>11. Cardinality(later \cup {1}) = Cardinality(later) + 1
  BY <1>8, <1>10, FS_AddElement
<1> QED
  BY <1>1, <1>2, <1>8, <1>9, <1>11 DEF HowOften

LEMMA NeverInQueue ==
  ASSUME NEW q, NEW P, Range(q) \cap P = {}
  PROVE  HowOften(q, P) = 0
<1>1. {i \in DOMAIN q : q[i] \in P} = {}
  BY DEF Range
<1> QED
  BY <1>1, FS_EmptySet DEF HowOften

\* What stands once in a queue is counted once.
LEMMA OnceIsCounted ==
  ASSUME NEW S, NEW q \in Seq(S), NEW E, ComesOnce(q, E), NEW x, x \notin E
  PROVE  HowOften(q, {x}) <= 1
<1>1. PICK at : at = {i \in DOMAIN q : q[i] \in {x}}
  OBVIOUS
<1>2. HowOften(q, {x}) = Cardinality(at)
  BY <1>1 DEF HowOften
<1>3. \A i, j \in at : i = j
  BY <1>1 DEF ComesOnce
<1>4. CASE at = {}
  <2>1. Cardinality(at) = 0
    BY <1>4, FS_EmptySet
  <2> QED
    BY <1>2, <2>1
<1>5. CASE at # {}
  <2>1. PICK i \in at : TRUE
    BY <1>5
  <2>2. at = {i}
    BY <1>3, <2>1
  <2>3. Cardinality(at) = 1
    BY <2>2, FS_Singleton
  <2> QED
    BY <1>2, <2>3
<1> QED
  BY <1>4, <1>5

-----------------------------------------------------------------------------
(* Posts of the other platforms *)

Adapters == Windowed \cup OneByOne \cup AllAtOnce
PostedKinds == {"text", "media", "other", "quote", "mention"}
Delivery == [post : Nat, event : {"message", "app_mention"}]
AwaitNames == {"reaction", "download", "parent", "ack", "task", "typing"}
Handler == [post : Nat, todo : Seq(AwaitNames) \ {<<>>}, number : Nat]

InWork == {h.post : h \in work}

\* The deliveries of a post that make a handler pass it on.
DueOf(p, sort) ==
  {[post |-> p, event |-> "app_mention"]} \cup
  (IF sort = "mention" /\ knowsItself THEN {} ELSE {[post |-> p, event |-> "message"]})
Due(p) == DueOf(p, postings[p])

\* How often a delivered post may be passed on.
Allowance == IF knowsItself THEN 1 ELSE 2

PostTypes ==
  /\ adapter \in Adapters /\ {listening, knowsItself} \subseteq BOOLEAN
  /\ postings \in Seq(PostedKinds) /\ wire \in Seq(Delivery)
  /\ work \subseteq Handler /\ IsFiniteSet(work)
  /\ {window, passedOn} \subseteq Seq(Nat) /\ {repeats, taken} \subseteq Nat
  /\ (adapter # "slack" => knowsItself)
  /\ \A p \in DOMAIN postings : postings[p] = "mention" => adapter = "slack"

\* Every post is somewhere, and what is somewhere was posted.
PostsKnown ==
  /\ OnTheWire \cup InWork \cup Range(passedOn) \subseteq DOMAIN postings
  /\ DOMAIN postings \subseteq Range(passedOn) \cup gone \cup OnTheWire \cup InWork
  /\ Range(window) \subseteq Range(passedOn) \cup gone \cup InWork

\* A post in the window has no second handler.
WindowHolds ==
  adapter \in Windowed =>
    /\ Range(passedOn) \cup InWork \subseteq Range(window) \cup evicted
    /\ ComesOnce(passedOn, evicted)
    /\ \A h, g \in work : h.post = g.post /\ h # g => h.post \in evicted
    /\ InWork \cap Range(passedOn) \subseteq evicted

HandlersOf(p) == {h \in work : h.post = p}

\* No post is passed on more often than it was delivered.
DeliveriesCounted ==
  \A p \in DOMAIN postings :
    HowOften(wire, Due(p)) + Cardinality(HandlersOf(p)) + HowOften(passedOn, {p})
      <= (1 + repeats) * Allowance

\* Who handles posts one by one has them in a line.
PostsInLine ==
  adapter \in OneByOne /\ repeats = 0 =>
    /\ \A i, j \in DOMAIN passedOn : i < j => passedOn[i] < passedOn[j]
    /\ \A i, j \in DOMAIN wire : i < j => wire[i].post < wire[j].post
    /\ \A h, g \in work : h = g
    /\ \A p \in Range(passedOn) : \A q \in InWork \cup OnTheWire : p < q
    /\ \A p \in InWork : \A q \in OnTheWire : p < q

PostInv == PostTypes /\ PostsKnown /\ WindowHolds /\ DeliveriesCounted /\ PostsInLine

PostsOf(w) == {w[i].post : i \in DOMAIN w}

LEMMA PostsInQueue ==
  ASSUME NEW w \in Seq(Delivery)
  PROVE  /\ PostsOf(w) = {d.post : d \in Range(w)} /\ PostsOf(w) \subseteq Nat
         /\ \A d \in Delivery : PostsOf(Append(w, d)) = PostsOf(w) \cup {d.post}
         /\ w # <<>> => PostsOf(w) = PostsOf(Tail(w)) \cup {Head(w).post}
<1>1. \A v : PostsOf(v) = {d.post : d \in Range(v)}
  BY DEF PostsOf, Range
<1>2. \A d \in Delivery : d.post \in Nat
  BY DEF Delivery
<1>3. Range(w) \subseteq Delivery
  BY QueueRange
<1>4. \A d \in Delivery : Range(Append(w, d)) = Range(w) \cup {d}
  BY QueueRange
<1>5. w # <<>> => Range(w) = Range(Tail(w)) \cup {Head(w)}
  BY HeadAndRest
<1> QED
  BY <1>1, <1>2, <1>3, <1>4, <1>5

LEMMA InboxStart == InboxInit => PostInv
<1> SUFFICES ASSUME InboxInit PROVE PostInv
  OBVIOUS
<1>1. /\ postings = <<>> /\ wire = <<>> /\ window = <<>> /\ evicted = {} /\ work = {} /\ taken = 0
      /\ passedOn = <<>> /\ gone = {} /\ repeats = 0 /\ adapter \in Adapters /\ listening = TRUE
      /\ knowsItself \in BOOLEAN /\ (adapter # "slack" => knowsItself)
  <2>1. knowsItself \in (IF adapter = "slack" THEN BOOLEAN ELSE {TRUE})
    BY DEF InboxInit
  <2>2. knowsItself \in BOOLEAN /\ (adapter # "slack" => knowsItself)
    BY <2>1
  <2> QED
    BY <2>2 DEF InboxInit, Adapters
<1>2. OnTheWire = {} /\ InWork = {} /\ DOMAIN postings = {} /\ DOMAIN wire = {} /\ DOMAIN passedOn = {}
  BY <1>1 DEF OnTheWire, InWork
<1>3. PostTypes
  <2>1. <<>> \in Seq(PostedKinds) /\ <<>> \in Seq(Delivery) /\ <<>> \in Seq(Nat)
    BY EmptySeq
  <2>2. IsFiniteSet({})
    BY FS_EmptySet
  <2> QED
    BY <1>1, <1>2, <2>1, <2>2 DEF PostTypes
<1>4. PostsKnown
  BY <1>1, <1>2, NothingQueued DEF PostsKnown
<1>5. WindowHolds
  BY <1>1, <1>2, NothingQueued DEF WindowHolds
<1>6. DeliveriesCounted
  BY <1>2 DEF DeliveriesCounted
<1>7. PostsInLine
  BY <1>1, <1>2, NothingQueued DEF PostsInLine
<1> QED
  BY <1>3, <1>4, <1>5, <1>6, <1>7 DEF PostInv

\* What the deliveries of a post add to the wire.
LEMMA WireGrows ==
  ASSUME PostTypes, NEW p \in Nat, NEW sort, NEW d \in Delivery, NEW m \in Delivery,
         d = [post |-> p, event |-> "message"], m = [post |-> p, event |-> "app_mention"]
  PROVE  wire \o Deliveries(p, sort) = IF sort = "mention" THEN Append(Append(wire, d), m) ELSE Append(wire, d)
<1>1. wire \in Seq(Delivery) /\ <<d>> \in Seq(Delivery) /\ <<m>> \in Seq(Delivery)
  BY DEF PostTypes
<1>2. Append(wire, d) = wire \o <<d>> /\ Append(wire, d) \in Seq(Delivery)
  BY <1>1, AppendIsConcat, QueueShape
<1>3. CASE sort # "mention"
  <2>1. Deliveries(p, sort) = <<d>> \o <<>>
    BY <1>3 DEF Deliveries
  <2>2. Deliveries(p, sort) = <<d>>
    BY <1>1, <2>1, ConcatEmptySeq
  <2> QED
    BY <1>2, <1>3, <2>2
<1>4. CASE sort = "mention"
  <2>1. Deliveries(p, sort) = <<d>> \o <<m>>
    BY <1>4 DEF Deliveries
  <2>2. wire \o (<<d>> \o <<m>>) = (wire \o <<d>>) \o <<m>>
    BY <1>1, ConcatAssociative
  <2>3. Append(Append(wire, d), m) = Append(wire, d) \o <<m>>
    BY <1>2, AppendIsConcat
  <2> QED
    BY <1>2, <1>4, <2>1, <2>2, <2>3
<1> QED
  BY <1>3, <1>4

LEMMA DeliveriesAre ==
  ASSUME NEW p \in Nat
  PROVE  [post |-> p, event |-> "message"] \in Delivery /\ [post |-> p, event |-> "app_mention"] \in Delivery
  BY DEF Delivery

LEMMA DeliveredToOthers ==
  ASSUME PostTypes, NEW p \in Nat, NEW sort, NEW q \in Nat, q # p, NEW k \in PostedKinds
  PROVE  HowOften(wire \o Deliveries(p, sort), DueOf(q, k)) = HowOften(wire, DueOf(q, k))
<1>1. PICK d \in Delivery : d = [post |-> p, event |-> "message"]
  BY DeliveriesAre
<1>2. PICK m \in Delivery : m = [post |-> p, event |-> "app_mention"]
  BY DeliveriesAre
<1>3. PICK one \in Seq(Delivery) : one = Append(wire, d)
  BY QueueShape DEF PostTypes
<1>4. d \notin DueOf(q, k) /\ m \notin DueOf(q, k)
  BY <1>1, <1>2 DEF DueOf
<1>5. HowOften(one, DueOf(q, k)) = HowOften(wire, DueOf(q, k))
  BY <1>3, <1>4, HowOftenAppended DEF PostTypes
<1>6. HowOften(Append(one, m), DueOf(q, k)) = HowOften(one, DueOf(q, k))
  BY <1>4, HowOftenAppended
<1> QED
  BY <1>1, <1>2, <1>3, <1>5, <1>6, WireGrows

LEMMA Delivered ==
  ASSUME PostTypes, NEW p \in Nat, NEW sort \in PostedKinds, sort = "mention" => adapter = "slack",
         NEW w, w = wire \o Deliveries(p, sort)
  PROVE  /\ w \in Seq(Delivery) /\ PostsOf(w) = PostsOf(wire) \cup {p}
         /\ HowOften(w, DueOf(p, sort)) <= HowOften(wire, DueOf(p, sort)) + Allowance
         /\ (adapter # "slack" => w = Append(wire, [post |-> p, event |-> "message"]))
<1>1. PICK d \in Delivery : d = [post |-> p, event |-> "message"]
  BY DeliveriesAre
<1>2. PICK m \in Delivery : m = [post |-> p, event |-> "app_mention"]
  BY DeliveriesAre
<1>3. wire \in Seq(Delivery) /\ knowsItself \in BOOLEAN /\ (adapter # "slack" => knowsItself)
  BY DEF PostTypes
<1>4. PICK one \in Seq(Delivery) : one = Append(wire, d) /\ PostsOf(one) = PostsOf(wire) \cup {p}
  <2>1. d.post = p
    BY <1>1
  <2>2. PICK one \in Seq(Delivery) : one = Append(wire, d)
    BY <1>3, QueueShape
  <2>3. PostsOf(one) = PostsOf(wire) \cup {d.post}
    BY <1>3, <2>2, PostsInQueue
  <2> QED
    BY <2>1, <2>2, <2>3
<1>5. PICK due : due = DueOf(p, sort)
  OBVIOUS
<1>6. HowOften(one, due) = IF d \in due THEN HowOften(wire, due) + 1 ELSE HowOften(wire, due)
  BY <1>3, <1>4, HowOftenAppended
<1>7. HowOften(wire, due) \in Nat /\ HowOften(one, due) \in Nat
  BY <1>3, HowOftenIsNat
<1>8. CASE sort # "mention"
  <2>1. w = one
    BY <1>1, <1>2, <1>4, <1>8, WireGrows
  <2>2. HowOften(one, due) <= HowOften(wire, due) + Allowance
    BY <1>3, <1>6, <1>7 DEF Allowance
  <2> QED
    BY <1>1, <1>4, <1>5, <2>1, <2>2
<1>9. CASE sort = "mention"
  <2>1. w = Append(one, m)
    BY <1>1, <1>2, <1>4, <1>9, WireGrows
  <2>2. w \in Seq(Delivery) /\ PostsOf(w) = PostsOf(wire) \cup {p}
    <3>1. w \in Seq(Delivery)
      BY <2>1, QueueShape
    <3>2. PostsOf(w) = PostsOf(one) \cup {m.post}
      BY <2>1, PostsInQueue
    <3> QED
      BY <1>2, <1>4, <3>1, <3>2
  <2>3. HowOften(w, due) <= HowOften(one, due) + 1
    BY <1>7, <2>1, HowOftenAppended
  <2>4. HowOften(w, due) \in Nat
    BY <2>2, HowOftenIsNat
  <2>5. knowsItself => d \notin due
    BY <1>1, <1>5, <1>9 DEF DueOf
  <2>6. HowOften(w, due) <= HowOften(wire, due) + Allowance
    BY <1>3, <1>6, <1>7, <2>3, <2>4, <2>5 DEF Allowance
  <2> QED
    BY <1>3, <1>5, <1>9, <2>2, <2>6
<1> QED
  BY <1>8, <1>9

LEMMA AtMostIsNat == PostTypes => Allowance \in {1, 2} /\ repeats \in Nat /\ (1 + repeats) * Allowance \in Nat
  BY DEF Allowance, PostTypes

\* What is counted does not change with the posts that come later.
LEMMA DueStays ==
  ASSUME NEW p, postings'[p] = postings[p], UNCHANGED knowsItself
  PROVE  Due(p)' = Due(p)
  BY DEF Due, DueOf

LEMMA DueToNobody ==
  ASSUME PostTypes, NEW p \in Nat, p \notin OnTheWire, NEW k
  PROVE  HowOften(wire, DueOf(p, k)) = 0
<1>1. OnTheWire = {d.post : d \in Range(wire)}
  BY PostsInQueue DEF PostTypes, OnTheWire, PostsOf
<1>2. \A d \in DueOf(p, k) : d.post = p
  BY DEF DueOf
<1>3. Range(wire) \cap DueOf(p, k) = {}
  BY <1>1, <1>2
<1> QED
  BY <1>3, NeverInQueue

LEMMA PostedKeeps == ASSUME PostInv, NEW sort \in PostKinds, Posted(sort) PROVE PostInv'
<1>0. PostTypes /\ PostsKnown /\ WindowHolds /\ DeliveriesCounted /\ PostsInLine
  BY DEF PostInv
<1>1. /\ UNCHANGED <<adapter, listening, knowsItself, window, evicted, work, taken, passedOn, gone, repeats>>
      /\ postings' = Append(postings, sort) /\ wire' = wire \o Deliveries(Len(postings'), sort)
  BY DEF Posted
<1>2. sort \in PostedKinds /\ (sort = "mention" => adapter = "slack")
  BY DEF PostKinds, PostedKinds
<1>3. PICK n \in Nat : n = Len(postings) /\ DOMAIN postings = 1..n
  BY <1>0, QueueShape DEF PostTypes
<1>4. /\ postings' \in Seq(PostedKinds) /\ DOMAIN postings' = 1..(n + 1) /\ postings'[n + 1] = sort
      /\ \A i \in 1..n : postings'[i] = postings[i]
  BY <1>0, <1>1, <1>2, <1>3, QueueShape DEF PostTypes
<1>5. Len(postings') = n + 1
  BY <1>0, <1>1, <1>2, <1>3, AppendProperties DEF PostTypes
<1>6. PICK w : w = wire'
  OBVIOUS
<1>7. w = wire \o Deliveries(n + 1, sort)
  BY <1>1, <1>5, <1>6
<1>8. /\ w \in Seq(Delivery) /\ PostsOf(w) = OnTheWire \cup {n + 1}
      /\ \A k \in PostedKinds, q \in Nat \ {n + 1} : HowOften(w, DueOf(q, k)) = HowOften(wire, DueOf(q, k))
      /\ HowOften(w, DueOf(n + 1, sort)) <= HowOften(wire, DueOf(n + 1, sort)) + Allowance
      /\ (adapter # "slack" => w = Append(wire, [post |-> n + 1, event |-> "message"]))
  <2>1. OnTheWire = PostsOf(wire)
    BY DEF OnTheWire, PostsOf
  <2>2. PICK next \in Nat : next = n + 1
    OBVIOUS
  <2>3. w = wire \o Deliveries(next, sort)
    BY <1>7, <2>2
  <2>4. PostTypes /\ sort \in PostedKinds /\ (sort = "mention" => adapter = "slack")
    BY <1>0, <1>2
  <2>5. w \in Seq(Delivery) /\ PostsOf(w) = PostsOf(wire) \cup {next}
    BY <2>3, <2>4, Delivered
  <2>6. \A k \in PostedKinds, q \in Nat \ {next} : HowOften(w, DueOf(q, k)) = HowOften(wire, DueOf(q, k))
    <3> SUFFICES ASSUME NEW k \in PostedKinds, NEW q \in Nat, q # next
                 PROVE  HowOften(w, DueOf(q, k)) = HowOften(wire, DueOf(q, k))
      OBVIOUS
    <3> QED
      BY <2>3, <2>4, DeliveredToOthers
  <2>7. HowOften(w, DueOf(next, sort)) <= HowOften(wire, DueOf(next, sort)) + Allowance
    BY <2>3, <2>4, Delivered
  <2>8. adapter # "slack" => w = Append(wire, [post |-> next, event |-> "message"])
    BY <2>3, <2>4, Delivered
  <2> QED
    BY <2>1, <2>2, <2>5, <2>6, <2>7, <2>8
<1>9. OnTheWire' = OnTheWire \cup {n + 1} /\ InWork' = InWork
  BY <1>1, <1>6, <1>8 DEF OnTheWire, PostsOf, InWork
<1>10. n + 1 \notin OnTheWire \cup InWork \cup Range(passedOn)
  BY <1>0, <1>3 DEF PostsKnown
<1>11. PostTypes'
  <2>1. \A p \in DOMAIN postings' : postings'[p] = "mention" => adapter = "slack"
    <3>1. ASSUME NEW p \in 1..(n + 1), postings'[p] = "mention" PROVE adapter = "slack"
      <4>1. CASE p \in 1..n
        BY <1>0, <1>3, <1>4, <3>1, <4>1 DEF PostTypes
      <4>2. CASE p = n + 1
        BY <1>2, <1>4, <3>1, <4>2
      <4> QED
        BY <4>1, <4>2
    <3> QED
      BY <1>4, <3>1
  <2> QED
    BY <1>0, <1>1, <1>4, <1>6, <1>8, <2>1 DEF PostTypes
<1>12. PostsKnown'
  BY <1>0, <1>1, <1>3, <1>4, <1>9 DEF PostsKnown
<1>13. WindowHolds'
  BY <1>0, <1>1, <1>9 DEF WindowHolds
<1>14. DeliveriesCounted'
  <2> SUFFICES ASSUME NEW p \in 1..(n + 1)
               PROVE  HowOften(wire', Due(p)') + Cardinality(HandlersOf(p)') + HowOften(passedOn', {p})
                        <= (1 + repeats) * Allowance
    BY <1>1, <1>4 DEF DeliveriesCounted, Allowance
  <2>1. HandlersOf(p)' = HandlersOf(p)
    BY <1>1 DEF HandlersOf
  <2>2. CASE p \in 1..n
    <3>1. Due(p)' = Due(p)
      BY <1>1, <1>4, <2>2, DueStays
    <3>2. HowOften(wire', Due(p)) = HowOften(wire, Due(p))
      <4>1. postings[p] \in PostedKinds
        BY <1>0, <1>3, <2>2, QueueShape DEF PostTypes
      <4> QED
        BY <1>6, <1>8, <2>2, <4>1 DEF Due
    <3> QED
      BY <1>0, <1>1, <1>3, <2>1, <2>2, <3>1, <3>2 DEF DeliveriesCounted
  <2>3. CASE p = n + 1
    <3>1. HandlersOf(p) = {}
      BY <1>10, <2>3 DEF HandlersOf, InWork
    <3>2. HowOften(passedOn, {p}) = 0
      BY <1>10, <2>3, NeverInQueue
    <3>3. Due(p)' = DueOf(n + 1, sort)
      BY <1>1, <1>4, <2>3 DEF Due, DueOf
    <3>4. HowOften(wire, DueOf(n + 1, sort)) = 0
      BY <1>0, <1>10, DueToNobody
    <3>5. HowOften(w, DueOf(n + 1, sort)) \in Nat
      BY <1>8, HowOftenIsNat
    <3>6. Allowance \in {1, 2} /\ repeats \in Nat /\ Allowance <= (1 + repeats) * Allowance
      <4>1. Allowance \in {1, 2} /\ repeats \in Nat
        BY <1>0, AtMostIsNat
      <4>2. CASE Allowance = 1
        BY <4>1, <4>2
      <4>3. CASE Allowance = 2
        BY <4>1, <4>3
      <4> QED
        BY <4>1, <4>2, <4>3
    <3>7. Cardinality(HandlersOf(p)') = 0 /\ HowOften(passedOn', {p}) = 0
      BY <1>1, <2>1, <3>1, <3>2, FS_EmptySet
    <3>8. HowOften(wire', Due(p)') <= Allowance
      BY <1>6, <1>8, <3>3, <3>4, <3>5, <3>6
    <3>9. (1 + repeats) * Allowance \in Nat /\ HowOften(wire', Due(p)') \in Nat
      BY <1>0, <1>6, <3>3, <3>5, AtMostIsNat
    <3> QED
      BY <3>6, <3>7, <3>8, <3>9
  <2> QED
    BY <2>2, <2>3
<1>15. PostsInLine'
  <2> SUFFICES ASSUME adapter \in OneByOne, repeats = 0 PROVE PostsInLine'
    BY <1>1 DEF PostsInLine
  <2>1. PICK m \in Nat : m = Len(wire) /\ DOMAIN wire = 1..m
    BY <1>0, QueueShape DEF PostTypes
  <2>2. PICK d \in Delivery : d = [post |-> n + 1, event |-> "message"]
    <3>1. n + 1 \in Nat
      OBVIOUS
    <3> QED
      BY <3>1, Zenon DEF Delivery
  <2>3. d.post = n + 1 /\ w = Append(wire, d)
    BY <1>8, <2>2 DEF OneByOne
  <2>4. DOMAIN w = 1..(m + 1) /\ w[m + 1] = d /\ \A i \in 1..m : w[i] = wire[i]
    BY <1>0, <2>1, <2>3, QueueShape DEF PostTypes
  <2>5. \A q \in OnTheWire \cup InWork \cup Range(passedOn) : q \in Nat /\ q < n + 1
    BY <1>0, <1>3 DEF PostsKnown
  <2>6. \A i \in 1..m : wire[i].post \in OnTheWire
    BY <2>1 DEF OnTheWire
  <2>7. \A i, j \in DOMAIN wire : i < j => wire[i].post < wire[j].post
    BY <1>0 DEF PostsInLine
  <2>8. \A i, j \in DOMAIN w : i < j => w[i].post < w[j].post
    BY <2>1, <2>3, <2>4, <2>5, <2>6, <2>7
  <2>9. /\ \A p \in Range(passedOn) : \A q \in InWork \cup OnTheWire' : p < q
        /\ \A p \in InWork : \A q \in OnTheWire' : p < q
    BY <1>0, <1>9, <2>5 DEF PostsInLine
  <2> QED
    BY <1>0, <1>1, <1>6, <1>9, <2>8, <2>9 DEF PostsInLine
<1> QED
  BY <1>11, <1>12, <1>13, <1>14, <1>15 DEF PostInv

LEMMA RepeatedKeeps == ASSUME PostInv, NEW p \in DOMAIN postings, Repeated(p) PROVE PostInv'
<1>0. PostTypes /\ PostsKnown /\ WindowHolds /\ DeliveriesCounted /\ PostsInLine
  BY DEF PostInv
<1>1. /\ UNCHANGED <<adapter, listening, knowsItself, postings, window, evicted, work, taken, passedOn, gone>>
      /\ wire' = wire \o Deliveries(p, postings[p]) /\ repeats' = repeats + 1
  BY DEF Repeated
<1>2. p \in Nat /\ postings[p] \in PostedKinds /\ (postings[p] = "mention" => adapter = "slack")
  BY <1>0, QueueShape DEF PostTypes
<1>3. PICK w : w = wire'
  OBVIOUS
<1>4. OnTheWire = PostsOf(wire) /\ OnTheWire' = PostsOf(w)
  BY <1>3 DEF OnTheWire, PostsOf
<1>5. w \in Seq(Delivery) /\ PostsOf(w) = OnTheWire \cup {p}
  BY <1>0, <1>1, <1>2, <1>3, <1>4, Delivered
<1>6. HowOften(w, Due(p)) <= HowOften(wire, Due(p)) + Allowance
  BY <1>0, <1>1, <1>2, <1>3, Delivered DEF Due
<1>7. ASSUME NEW q \in DOMAIN postings, q # p PROVE HowOften(w, Due(q)) = HowOften(wire, Due(q))
  <2>1. q \in Nat /\ postings[q] \in PostedKinds
    BY <1>0, QueueShape DEF PostTypes
  <2> QED
    BY <1>0, <1>1, <1>2, <1>3, <1>7, <2>1, DeliveredToOthers DEF Due
<1>8. OnTheWire' = OnTheWire \cup {p} /\ InWork' = InWork
  BY <1>1, <1>4, <1>5 DEF InWork
<1>9. PostTypes'
  BY <1>0, <1>1, <1>3, <1>5 DEF PostTypes
<1>10. PostsKnown'
  BY <1>0, <1>1, <1>8 DEF PostsKnown
<1>11. WindowHolds'
  BY <1>0, <1>1, <1>8 DEF WindowHolds
<1>12. DeliveriesCounted'
  <2> SUFFICES ASSUME NEW q \in DOMAIN postings
               PROVE  HowOften(w, Due(q)) + Cardinality(HandlersOf(q)) + HowOften(passedOn, {q})
                        <= (2 + repeats) * Allowance
    <3>1. ASSUME NEW q \in DOMAIN postings PROVE Due(q)' = Due(q) /\ HandlersOf(q)' = HandlersOf(q)
      BY <1>1 DEF Due, DueOf, HandlersOf
    <3>2. Allowance' = Allowance /\ 1 + repeats' = 2 + repeats
      BY <1>0, <1>1 DEF Allowance, PostTypes
    <3> QED
      BY <1>1, <1>3, <3>1, <3>2 DEF DeliveriesCounted
  <2>1. HowOften(w, Due(q)) <= HowOften(wire, Due(q)) + Allowance
    <3>1. Allowance \in {1, 2} /\ HowOften(wire, Due(q)) \in Nat /\ HowOften(w, Due(q)) \in Nat
      BY <1>0, <1>5, AtMostIsNat, HowOftenIsNat DEF PostTypes
    <3> QED
      BY <1>6, <1>7, <3>1
  <2>2. HowOften(wire, Due(q)) + Cardinality(HandlersOf(q)) + HowOften(passedOn, {q}) <= (1 + repeats) * Allowance
    BY <1>0 DEF DeliveriesCounted
  <2>3. HowOften(w, Due(q)) \in Nat /\ HowOften(wire, Due(q)) \in Nat /\ HowOften(passedOn, {q}) \in Nat
    BY <1>0, <1>5, HowOftenIsNat DEF PostTypes
  <2>4. Cardinality(HandlersOf(q)) \in Nat
    BY <1>0, FS_Subset, FS_CardinalityType DEF PostTypes, HandlersOf
  <2>5. Allowance \in {1, 2} /\ repeats \in Nat
    BY <1>0, AtMostIsNat
  <2>6. CASE Allowance = 1
    BY <2>1, <2>2, <2>3, <2>4, <2>5, <2>6
  <2>7. CASE Allowance = 2
    BY <2>1, <2>2, <2>3, <2>4, <2>5, <2>7
  <2> QED
    BY <2>5, <2>6, <2>7
<1>13. PostsInLine'
  <2>1. repeats' # 0
    BY <1>0, <1>1 DEF PostTypes
  <2> QED
    BY <2>1 DEF PostsInLine
<1> QED
  BY <1>9, <1>10, <1>11, <1>12, <1>13 DEF PostInv

\* What is dropped on its way, and is known to be gone.
LEMMA LosingKeeps ==
  ASSUME PostInv, UNCHANGED <<adapter, knowsItself, postings, window, evicted, taken, passedOn, repeats>>,
         listening' \in BOOLEAN, wire' \in {wire, <<>>}, work' \subseteq work, gone \subseteq gone',
         OnTheWire \subseteq gone' \cup OnTheWire', InWork \subseteq gone' \cup InWork'
  PROVE  PostInv'
<1>0. PostTypes /\ PostsKnown /\ WindowHolds /\ DeliveriesCounted /\ PostsInLine
  BY DEF PostInv
<1>1. OnTheWire' \subseteq OnTheWire /\ InWork' \subseteq InWork
  BY DEF OnTheWire, InWork
<1>2. PostTypes'
  <2>1. <<>> \in Seq(Delivery)
    BY EmptySeq
  <2>2. IsFiniteSet(work')
    BY <1>0, FS_Subset DEF PostTypes
  <2> QED
    BY <1>0, <2>1, <2>2 DEF PostTypes
<1>3. PostsKnown'
  BY <1>0, <1>1 DEF PostsKnown
<1>4. WindowHolds'
  BY <1>0, <1>1 DEF WindowHolds
<1>5. DeliveriesCounted'
  <2> SUFFICES ASSUME NEW q \in DOMAIN postings
               PROVE  HowOften(wire', Due(q)) + Cardinality(HandlersOf(q)') + HowOften(passedOn, {q})
                        <= (1 + repeats) * Allowance
    <3>1. ASSUME NEW q \in DOMAIN postings PROVE Due(q)' = Due(q)
      BY DEF Due, DueOf
    <3> QED
      BY <3>1 DEF DeliveriesCounted, Allowance
  <2>1. HowOften(wire, Due(q)) + Cardinality(HandlersOf(q)) + HowOften(passedOn, {q}) <= (1 + repeats) * Allowance
    BY <1>0 DEF DeliveriesCounted
  <2>2. HowOften(wire', Due(q)) \in Nat /\ HowOften(wire', Due(q)) <= HowOften(wire, Due(q))
    <3>1. HowOften(wire, Due(q)) \in Nat
      BY <1>0, HowOftenIsNat DEF PostTypes
    <3>2. CASE wire' = <<>>
      <4>1. HowOften(<<>>, Due(q)) = 0
        BY NeverInQueue, NothingQueued
      <4> QED
        BY <3>1, <3>2, <4>1
    <3> QED
      BY <3>1, <3>2
  <2>3. HowOften(wire, Due(q)) \in Nat /\ HowOften(passedOn, {q}) \in Nat /\ (1 + repeats) * Allowance \in Nat
    BY <1>0, HowOftenIsNat, AtMostIsNat DEF PostTypes
  <2>4. /\ Cardinality(HandlersOf(q)) \in Nat /\ Cardinality(HandlersOf(q)') \in Nat
        /\ Cardinality(HandlersOf(q)') <= Cardinality(HandlersOf(q))
    <3>1. HandlersOf(q) \subseteq work /\ HandlersOf(q)' \subseteq HandlersOf(q)
      BY DEF HandlersOf
    <3>2. IsFiniteSet(HandlersOf(q))
      BY <1>0, <3>1, FS_Subset DEF PostTypes
    <3>3. IsFiniteSet(HandlersOf(q)') /\ Cardinality(HandlersOf(q)') <= Cardinality(HandlersOf(q))
      BY <3>1, <3>2, FS_Subset
    <3> QED
      BY <3>2, <3>3, FS_CardinalityType
  <2> QED
    BY <2>1, <2>2, <2>3, <2>4
<1>6. PostsInLine'
  <2>1. \A i, j \in DOMAIN wire' : i < j => wire'[i] = wire[i] /\ wire'[j] = wire[j] /\ {i, j} \subseteq DOMAIN wire
    OBVIOUS
  <2> QED
    BY <1>0, <1>1, <2>1 DEF PostsInLine
<1> QED
  BY <1>2, <1>3, <1>4, <1>5, <1>6 DEF PostInv

LEMMA LosesPosts ==
  ASSUME PostInv,
         ConnectionLost \/ (\E h \in work : Raises(h)) \/ (\E overdue \in BOOLEAN : StopListening(overdue))
  PROVE  PostInv'
<1>1. \A w : w = <<>> => {w[i].post : i \in DOMAIN w} = {}
  OBVIOUS
<1>2. listening \in BOOLEAN
  BY DEF PostInv, PostTypes
<1>3. CASE ConnectionLost
  BY <1>2, <1>3, LosingKeeps DEF ConnectionLost, InWork
<1>4. ASSUME NEW h \in work, Raises(h) PROVE PostInv'
  <2>1. /\ UNCHANGED <<adapter, listening, knowsItself, postings, window, evicted, passedOn, repeats>>
        /\ work' = work \ {h} /\ wire' \in {wire, <<>>} /\ gone \cup {h.post} \subseteq gone'
        /\ (wire' = wire \/ OnTheWire \subseteq gone') /\ taken' = taken
    BY <1>4 DEF Raises
  <2>2. OnTheWire \subseteq gone' \cup OnTheWire'
    BY <2>1 DEF OnTheWire
  <2>3. InWork \subseteq gone' \cup InWork'
    BY <2>1 DEF InWork
  <2> QED
    BY <1>2, <2>1, <2>2, <2>3, LosingKeeps
<1>5. ASSUME NEW overdue \in BOOLEAN, StopListening(overdue) PROVE PostInv'
  <2>1. PICK cancelled \in SUBSET work :
          /\ UNCHANGED <<adapter, knowsItself, postings, window, evicted, passedOn, repeats>>
          /\ work' = work \ cancelled /\ wire' \in {wire, <<>>} /\ gone \cup {h.post : h \in cancelled} \subseteq gone'
          /\ (wire' = wire \/ OnTheWire \subseteq gone') /\ taken' = taken /\ listening' \in BOOLEAN
    BY <1>5 DEF StopListening
  <2>2. OnTheWire \subseteq gone' \cup OnTheWire'
    BY <2>1 DEF OnTheWire
  <2>3. InWork \subseteq gone' \cup InWork'
    BY <2>1 DEF InWork
  <2> QED
    BY <2>1, <2>2, <2>3, LosingKeeps
<1> QED
  BY <1>3, <1>4, <1>5

\* An await of a handler returns.
LEMMA ResumesKeeps == ASSUME PostInv, NEW h \in work, Resumes(h) PROVE PostInv'
<1>0. PostTypes /\ PostsKnown /\ WindowHolds /\ DeliveriesCounted /\ PostsInLine
  BY DEF PostInv
<1>1. UNCHANGED <<adapter, listening, knowsItself, postings, wire, window, evicted, taken, gone, repeats>>
  BY DEF Resumes
<1>2. h \in Handler /\ h.post \in Nat /\ h.todo \in Seq(AwaitNames) /\ h.todo # <<>> /\ h.post \in InWork
  BY <1>0 DEF PostTypes, Handler, InWork
<1>3. OnTheWire' = OnTheWire
  BY <1>1 DEF OnTheWire
<1>4. \A q : Due(q)' = Due(q)
  BY <1>1 DEF Due, DueOf
<1>5. PICK rest : rest = work \ {h}
  OBVIOUS
<1>6. IsFiniteSet(rest)
  BY <1>0, <1>5, FS_RemoveElement DEF PostTypes
<1>7. ASSUME NEW q PROVE /\ Cardinality(HandlersOf(q)) \in Nat /\ HowOften(passedOn, {q}) \in Nat
                         /\ HowOften(wire, Due(q)) \in Nat /\ IsFiniteSet(HandlersOf(q))
  <2>1. IsFiniteSet(HandlersOf(q))
    BY <1>0, FS_Subset DEF PostTypes, HandlersOf
  <2>2. HowOften(passedOn, {q}) \in Nat /\ HowOften(wire, Due(q)) \in Nat
    BY <1>0, HowOftenIsNat DEF PostTypes
  <2> QED
    BY <2>1, <2>2, FS_CardinalityType
<1>8. (1 + repeats) * Allowance \in Nat /\ Allowance' = Allowance
  BY <1>0, <1>1, AtMostIsNat DEF Allowance
<1>9. CASE Len(h.todo) = 1
  <2>1. work' = rest /\ passedOn' = Append(passedOn, h.post)
    BY <1>5, <1>9 DEF Resumes
  <2>2. PICK q \in Seq(Nat) : q = passedOn' /\ q = Append(passedOn, h.post) /\ Range(q) = Range(passedOn) \cup {h.post}
    <3>1. Append(passedOn, h.post) \in Seq(Nat)
      BY <1>0, <1>2, QueueShape DEF PostTypes
    <3>2. Range(Append(passedOn, h.post)) = Range(passedOn) \cup {h.post}
      BY <1>0, <1>2, QueueRange DEF PostTypes
    <3> QED
      BY <2>1, <3>1, <3>2
  <2>3. InWork' \cup {h.post} = InWork
    BY <1>2, <1>5, <2>1 DEF InWork
  <2>4. PostTypes'
    BY <1>0, <1>1, <1>5, <1>6, <2>1, <2>2 DEF PostTypes
  <2>5. PostsKnown'
    BY <1>0, <1>1, <1>2, <1>3, <2>2, <2>3 DEF PostsKnown
  <2>6. WindowHolds'
    <3> SUFFICES ASSUME adapter \in Windowed PROVE WindowHolds'
      BY <1>1 DEF WindowHolds
    <3>1. ComesOnce(q, evicted)
      BY <1>0, <1>2, <2>1, <2>2, OnceQueue DEF WindowHolds, PostTypes
    <3>2. h.post \in InWork' => h.post \in evicted
      BY <1>0, <1>5, <2>1 DEF WindowHolds, InWork
    <3>3. InWork' \cap Range(q) \subseteq evicted
      BY <1>0, <2>2, <2>3, <3>2 DEF WindowHolds
    <3>4. \A f, g \in work' : f.post = g.post /\ f # g => f.post \in evicted
      BY <1>0, <1>5, <2>1 DEF WindowHolds
    <3> QED
      BY <1>0, <1>1, <2>2, <2>3, <3>1, <3>3, <3>4 DEF WindowHolds
  <2>7. DeliveriesCounted'
    <3> SUFFICES ASSUME NEW p \in DOMAIN postings
                 PROVE  HowOften(wire, Due(p)) + Cardinality(HandlersOf(p)') + HowOften(q, {p})
                          <= (1 + repeats) * Allowance
      BY <1>1, <1>4, <1>8, <2>2 DEF DeliveriesCounted
    <3>1. HowOften(wire, Due(p)) + Cardinality(HandlersOf(p)) + HowOften(passedOn, {p}) <= (1 + repeats) * Allowance
      BY <1>0 DEF DeliveriesCounted
    <3>2. HowOften(q, {p}) = IF h.post \in {p} THEN HowOften(passedOn, {p}) + 1 ELSE HowOften(passedOn, {p})
      <4>1. passedOn \in Seq(Nat)
        BY <1>0 DEF PostTypes
      <4> QED
        BY <1>2, <2>2, <4>1, HowOftenAppended
    <3>3. HandlersOf(p)' = HandlersOf(p) \ {h} /\ (h \in HandlersOf(p) <=> h.post = p)
      BY <1>5, <2>1 DEF HandlersOf
    <3>4. Cardinality(HandlersOf(p)') = IF h.post = p THEN Cardinality(HandlersOf(p)) - 1 ELSE Cardinality(HandlersOf(p))
      BY <1>7, <3>3, FS_RemoveElement
    <3> QED
      BY <1>7, <1>8, <3>1, <3>2, <3>4
  <2>8. PostsInLine'
    <3> SUFFICES ASSUME adapter \in OneByOne, repeats = 0 PROVE PostsInLine'
      BY <1>1 DEF PostsInLine
    <3>1. PICK n \in Nat : n = Len(passedOn) /\ DOMAIN passedOn = 1..n
      BY <1>0, QueueShape DEF PostTypes
    <3>2. DOMAIN q = 1..(n + 1) /\ q[n + 1] = h.post /\ \A i \in 1..n : q[i] = passedOn[i] /\ passedOn[i] \in Range(passedOn)
      <4>1. passedOn \in Seq(Nat)
        BY <1>0 DEF PostTypes
      <4>2. DOMAIN q = 1..(n + 1) /\ q[n + 1] = h.post /\ \A i \in 1..n : q[i] = passedOn[i]
        BY <1>2, <2>2, <3>1, <4>1, QueueShape
      <4> QED
        BY <3>1, <4>2 DEF Range
    <3>3. \A i, j \in DOMAIN q : i < j => q[i] < q[j]
      BY <1>0, <1>2, <3>1, <3>2 DEF PostsInLine
    <3>4. work' = {}
      BY <1>0, <1>5, <2>1 DEF PostsInLine
    <3>5. InWork' = {}
      BY <3>4 DEF InWork
    <3>6. \A p \in Range(q) : \A w \in OnTheWire : p < w
      BY <1>0, <1>2, <2>2 DEF PostsInLine
    <3> QED
      BY <1>0, <1>1, <1>3, <2>2, <3>3, <3>4, <3>5, <3>6 DEF PostsInLine
  <2> QED
    BY <2>4, <2>5, <2>6, <2>7, <2>8 DEF PostInv
<1>10. CASE Len(h.todo) # 1
  <2>1. PICK g : g = [h EXCEPT !.todo = Tail(@)]
    OBVIOUS
  <2>2. work' = rest \cup {g} /\ passedOn' = passedOn
    BY <1>5, <1>10, <2>1 DEF Resumes
  <2>3. PICK t \in Seq(AwaitNames) : t = Tail(h.todo) /\ t # <<>>
    <3>1. Tail(h.todo) \in Seq(AwaitNames) /\ Len(Tail(h.todo)) = Len(h.todo) - 1
      BY <1>2, HeadTailProperties
    <3>2. Len(h.todo) \in Nat /\ Len(h.todo) > 0
      BY <1>2, QueueShape
    <3>3. Len(Tail(h.todo)) # 0
      BY <1>10, <3>1, <3>2
    <3> QED
      BY <3>1, <3>3, EmptySeq
  <2>4. g \in Handler /\ g.post = h.post
    BY <1>2, <2>1, <2>3 DEF Handler
  <2>5. InWork' = InWork
    BY <1>5, <2>2, <2>4 DEF InWork
  <2>6. IsFiniteSet(work') /\ work' \subseteq Handler
    BY <1>0, <1>5, <1>6, <2>2, <2>4, FS_AddElement DEF PostTypes
  <2>7. PostTypes'
    BY <1>0, <1>1, <2>2, <2>6 DEF PostTypes
  <2>8. PostsKnown'
    BY <1>0, <1>1, <1>3, <2>2, <2>5 DEF PostsKnown
  <2>9. WindowHolds'
    <3> SUFFICES ASSUME adapter \in Windowed PROVE WindowHolds'
      BY <1>1 DEF WindowHolds
    <3>1. \A e, f \in work' : e.post = f.post /\ e # f => e.post \in evicted
      <4>1. \A e, f \in work : e.post = f.post /\ e # f => e.post \in evicted
        BY <1>0 DEF WindowHolds
      <4>2. \A e \in rest : e \in work /\ e # h
        BY <1>5
      <4> QED
        BY <2>2, <2>4, <4>1, <4>2
    <3> QED
      BY <1>0, <1>1, <2>2, <2>5, <3>1 DEF WindowHolds
  <2>10. DeliveriesCounted'
    <3> SUFFICES ASSUME NEW p \in DOMAIN postings PROVE Cardinality(HandlersOf(p)') \in Nat /\ Cardinality(HandlersOf(p)') <= Cardinality(HandlersOf(p))
      <4>1. ASSUME NEW p \in DOMAIN postings
            PROVE  HowOften(wire, Due(p)) + Cardinality(HandlersOf(p)') + HowOften(passedOn, {p})
                     <= (1 + repeats) * Allowance
        <5>1. HowOften(wire, Due(p)) + Cardinality(HandlersOf(p)) + HowOften(passedOn, {p}) <= (1 + repeats) * Allowance
          BY <1>0 DEF DeliveriesCounted
        <5>2. Cardinality(HandlersOf(p)') \in Nat /\ Cardinality(HandlersOf(p)') <= Cardinality(HandlersOf(p))
          OBVIOUS
        <5> QED
          BY <1>7, <1>8, <5>1, <5>2
      <4> QED
        BY <1>1, <1>4, <1>8, <2>2, <4>1 DEF DeliveriesCounted
    <3>1. PICK others : others = {e \in rest : e.post = p}
      OBVIOUS
    <3>2. others = HandlersOf(p) \ {h} /\ IsFiniteSet(others)
      <4>1. others = HandlersOf(p) \ {h}
        BY <1>5, <3>1 DEF HandlersOf
      <4>2. IsFiniteSet(HandlersOf(p))
        BY <1>7
      <4> QED
        BY <4>1, <4>2, FS_RemoveElement
    <3>3. CASE h.post # p
      <4>1. HandlersOf(p)' = HandlersOf(p)
        BY <1>5, <2>2, <2>4, <3>3 DEF HandlersOf
      <4>2. Cardinality(HandlersOf(p)) \in Nat
        BY <1>7
      <4> QED
        BY <4>1, <4>2
    <3>4. CASE h.post = p
      <4>1. HandlersOf(p)' = others \cup {g} /\ h \in HandlersOf(p)
        BY <2>2, <2>4, <3>1, <3>4 DEF HandlersOf
      <4>2. Cardinality(others) = Cardinality(HandlersOf(p)) - 1
        BY <1>7, <3>2, <4>1, FS_RemoveElement
      <4>3. Cardinality(others \cup {g}) = IF g \in others THEN Cardinality(others) ELSE Cardinality(others) + 1
        BY <3>2, FS_AddElement
      <4>4. Cardinality(others) \in Nat
        BY <3>2, FS_CardinalityType
      <4>5. Cardinality(HandlersOf(p)) \in Nat
        BY <1>7
      <4>6. Cardinality(HandlersOf(p)') = Cardinality(others \cup {g})
        BY <4>1
      <4> QED
        BY <4>2, <4>3, <4>4, <4>5, <4>6
    <3> QED
      BY <3>3, <3>4
  <2>11. PostsInLine'
    <3> SUFFICES ASSUME adapter \in OneByOne, repeats = 0 PROVE PostsInLine'
      BY <1>1 DEF PostsInLine
    <3>1. work' = {g}
      BY <1>0, <1>5, <2>2 DEF PostsInLine
    <3> QED
      BY <1>0, <1>1, <1>3, <2>2, <2>5, <3>1 DEF PostsInLine
  <2> QED
    BY <2>7, <2>8, <2>9, <2>10, <2>11 DEF PostInv
<1> QED
  BY <1>9, <1>10

\* What the adapters have in common when they take a delivery: it is dropped, ignored or
\* handled.
Takes ==
  \/ FeishuTakes \/ WecomTakes \/ QQTakes \/ WhatsAppTakes
  \/ SlackTakes \/ DingTalkTakes \/ DiscordTakes \/ MatrixTakes

WindowMoves == IF adapter \in Windowed THEN ~Seen(ThisPost) /\ Mark ELSE WindowStays
Drops   == Seen(ThisPost) /\ UNCHANGED <<window, evicted, work, passedOn, gone>>
Ignores == WindowMoves /\ Ignore
Handles(awaits) ==
  /\ WindowMoves /\ Handle(awaits)
  /\ (adapter \in OneByOne => work = {}) /\ Head(wire) \in Due(ThisPost)

LEMMA HeadIsDue ==
  ASSUME PostInv, wire # <<>>,
         ~(adapter = "slack" /\ Kind = "mention" /\ Head(wire).event = "message" /\ knowsItself)
  PROVE  Head(wire) \in Due(ThisPost)
<1>1. Head(wire) \in Delivery
  BY QueueShape DEF PostInv, PostTypes
<1>2. PICK d \in Delivery : d = Head(wire)
  BY <1>1
<1>3. d = [post |-> d.post, event |-> d.event] /\ d.event \in {"message", "app_mention"} /\ ThisPost = d.post
  BY <1>2 DEF Delivery, ThisPost
<1>4. ThisPost \in DOMAIN postings
  <2>1. PostsOf(wire) = OnTheWire
    BY DEF PostsOf, OnTheWire
  <2> QED
    BY <1>2, <1>3, <2>1, PostsInQueue DEF PostInv, PostTypes, PostsKnown
<1>5. Kind = "mention" => adapter = "slack"
  BY <1>4 DEF Kind, PostInv, PostTypes
<1> QED
  BY <1>2, <1>3, <1>5 DEF Due, DueOf, Kind

LEMMA AwaitsAre ==
  /\ \A sort, what : what \in AwaitNames => Await(sort, what) \in Seq(AwaitNames)
  /\ \A s \in Seq(AwaitNames) : \A what \in AwaitNames : Append(s, what) \in Seq(AwaitNames)
  /\ \A s, t \in Seq(AwaitNames) : s \o t \in Seq(AwaitNames)
  /\ <<>> \in Seq(AwaitNames) /\ \A a, b \in AwaitNames : <<a>> \in Seq(AwaitNames) /\ <<a, b>> \in Seq(AwaitNames)
  /\ {"reaction", "download", "parent", "ack", "task", "typing"} \subseteq AwaitNames
<1>1. <<>> \in Seq(AwaitNames) /\ \A a, b \in AwaitNames : <<a>> \in Seq(AwaitNames) /\ <<a, b>> \in Seq(AwaitNames)
  OBVIOUS
<1>2. \A sort, what : what \in AwaitNames => Await(sort, what) \in Seq(AwaitNames)
  BY <1>1 DEF Await
<1>3. \A s \in Seq(AwaitNames) : \A what \in AwaitNames : Append(s, what) \in Seq(AwaitNames)
  BY QueueShape
<1>4. \A s, t \in Seq(AwaitNames) : s \o t \in Seq(AwaitNames)
  BY ConcatProperties
<1> QED
  BY <1>1, <1>2, <1>3, <1>4 DEF AwaitNames

LEMMA TakesOne ==
  ASSUME PostInv, Takes
  PROVE  Taking /\ (Drops \/ Ignores \/ \E awaits \in Seq(AwaitNames) : Handles(awaits))
<1>1. CASE FeishuTakes
  <2>1. PICK awaits \in Seq(AwaitNames) :
          awaits = <<"reaction">> \o Await("media", "download") \o Await("quote", "parent")
    BY AwaitsAre
  <2>2. adapter \in Windowed /\ adapter \notin OneByOne /\ adapter # "slack" /\ Taking /\ wire # <<>>
    BY <1>1 DEF FeishuTakes, Windowed, OneByOne, Taking
  <2> QED
    BY <1>1, <2>1, <2>2, HeadIsDue DEF FeishuTakes, UnlessSeen, Drops, Ignores, Handles, WindowMoves
<1>2. CASE WecomTakes
  <2>1. PICK awaits \in Seq(AwaitNames) : awaits = Await("media", "download")
    BY AwaitsAre
  <2>2. adapter \in Windowed /\ adapter \notin OneByOne /\ adapter # "slack" /\ Taking /\ wire # <<>>
    BY <1>2 DEF WecomTakes, Windowed, OneByOne, Taking
  <2> QED
    BY <1>2, <2>1, <2>2, HeadIsDue DEF WecomTakes, UnlessSeen, Drops, Ignores, Handles, WindowMoves
<1>3. CASE QQTakes
  <2>1. PICK awaits \in Seq(AwaitNames) : awaits = <<>>
    BY AwaitsAre
  <2>2. adapter \in Windowed /\ adapter \notin OneByOne /\ adapter # "slack" /\ Taking /\ wire # <<>>
    BY <1>3 DEF QQTakes, Windowed, OneByOne, Taking
  <2> QED
    BY <1>3, <2>1, <2>2, HeadIsDue DEF QQTakes, UnlessSeen, Drops, Ignores, Handles, WindowMoves
<1>4. CASE WhatsAppTakes
  <2>1. PICK awaits \in Seq(AwaitNames) : awaits = <<>>
    BY AwaitsAre
  <2>2. adapter \in Windowed /\ work = {} /\ adapter # "slack" /\ Taking /\ wire # <<>>
    BY <1>4 DEF WhatsAppTakes, Windowed, Taking
  <2> QED
    BY <1>4, <2>1, <2>2, HeadIsDue DEF WhatsAppTakes, UnlessSeen, Drops, Handles, WindowMoves
<1>5. CASE SlackTakes
  <2>1. PICK awaits \in Seq(AwaitNames) : awaits = <<"ack", "reaction">>
    BY AwaitsAre
  <2>2. adapter \notin Windowed /\ adapter \notin OneByOne /\ Taking /\ wire # <<>> /\ WindowStays
    BY <1>5 DEF SlackTakes, Windowed, OneByOne, Taking
  <2> QED
    BY <1>5, <2>1, <2>2, HeadIsDue DEF SlackTakes, Ignores, Handles, WindowMoves
<1>6. CASE DingTalkTakes
  <2>1. PICK awaits \in Seq(AwaitNames) : awaits = Append(Await("media", "download"), "task")
    BY AwaitsAre
  <2>2. adapter \notin Windowed /\ adapter \notin OneByOne /\ adapter # "slack" /\ Taking /\ wire # <<>> /\ WindowStays
    BY <1>6 DEF DingTalkTakes, Windowed, OneByOne, Taking
  <2> QED
    BY <1>6, <2>1, <2>2, HeadIsDue DEF DingTalkTakes, Ignores, Handles, WindowMoves
<1>7. CASE DiscordTakes
  <2>1. PICK awaits \in Seq(AwaitNames) : awaits = Append(Await("media", "download"), "typing")
    BY AwaitsAre
  <2>2. adapter \notin Windowed /\ work = {} /\ adapter # "slack" /\ Taking /\ wire # <<>> /\ WindowStays
    BY <1>7 DEF DiscordTakes, Windowed, Taking
  <2> QED
    BY <1>7, <2>1, <2>2, HeadIsDue DEF DiscordTakes, Ignores, Handles, WindowMoves
<1>8. CASE MatrixTakes
  <2>1. PICK awaits \in Seq(AwaitNames) : awaits = Append(Await("media", "download"), "typing")
    BY AwaitsAre
  <2>2. adapter \notin Windowed /\ work = {} /\ adapter # "slack" /\ Taking /\ wire # <<>> /\ WindowStays
    BY <1>8 DEF MatrixTakes, Windowed, Taking
  <2> QED
    BY <1>8, <2>1, <2>2, HeadIsDue DEF MatrixTakes, Ignores, Handles, WindowMoves
<1> QED
  BY <1>1, <1>2, <1>3, <1>4, <1>5, <1>6, <1>7, <1>8 DEF Takes

\* What the window is after a post was marked.
LEMMA WindowFacts ==
  ASSUME PostTypes, WindowMoves, NEW p \in Nat, p = ThisPost
  PROVE  /\ window' \in Seq(Nat) /\ evicted \subseteq evicted' /\ Range(window') \subseteq Range(window) \cup {p}
         /\ adapter \in Windowed => /\ p \notin Range(window)
                                    /\ Range(window) \cup {p} \subseteq Range(window') \cup evicted'
<1>1. CASE adapter \notin Windowed
  BY <1>1 DEF WindowMoves, WindowStays, PostTypes
<1>2. CASE adapter \in Windowed
  <2>1. /\ p \notin Range(window) /\ window' = Remembered(p) /\ evicted' = evicted \cup (Range(window) \ Range(window'))
    BY <1>2 DEF WindowMoves, Mark, Seen
  <2>2. PICK all \in Seq(Nat) : all = Append(window, p) /\ Range(all) = Range(window) \cup {p}
    <3>1. window \in Seq(Nat)
      BY DEF PostTypes
    <3>2. Append(window, p) \in Seq(Nat)
      BY <3>1, QueueShape
    <3> QED
      BY <3>1, <3>2, QueueRange
  <2>3. CASE Len(all) <= WindowSize
    <3>1. window' = all
      BY <2>1, <2>2, <2>3 DEF Remembered
    <3> QED
      BY <2>1, <2>2, <3>1
  <2>4. CASE ~(Len(all) <= WindowSize)
    <3>1. window' = Tail(all)
      BY <2>1, <2>2, <2>4 DEF Remembered
    <3>2. PICK n \in Nat : n = Len(window) /\ Len(all) = n + 1 /\ all[n + 1] = p
      <4>1. window \in Seq(Nat)
        BY DEF PostTypes
      <4> QED
        BY <2>2, <4>1, AppendProperties, LenProperties
    <3>3. n > 0 /\ all # <<>>
      BY <2>4, <3>2, InboxAssumption, EmptySeq
    <3>4. PICK t \in Seq(Nat) : t = Tail(all) /\ DOMAIN t = 1..n /\ \A i \in 1..n : t[i] = all[i + 1]
      <4>1. PICK m : m = Len(all) - 1
        OBVIOUS
      <4>2. m = n
        BY <3>2, <4>1
      <4>3. PICK t \in Seq(Nat) : t = Tail(all) /\ DOMAIN t = 1..m /\ \A i \in 1..m : t[i] = all[i + 1]
        BY <3>3, <4>1, QueueShape
      <4> QED
        BY <4>2, <4>3
    <3>5. p \in Range(t)
      <4>1. n \in DOMAIN t /\ t[n] = p
        BY <3>2, <3>3, <3>4
      <4> QED
        BY <4>1 DEF Range
    <3>6. Range(t) \subseteq Range(all)
      BY <2>2, <3>3, <3>4, QueueRange
    <3> QED
      BY <2>1, <2>2, <3>1, <3>4, <3>5, <3>6
  <2> QED
    BY <2>3, <2>4
<1> QED
  BY <1>1, <1>2

\* What taking a delivery leaves on the wire.
LEMMA RestOfWire ==
  ASSUME PostInv, Taking, NEW p, p = ThisPost, NEW rest, rest = wire'
  PROVE  /\ rest \in Seq(Delivery) /\ p \in DOMAIN postings /\ p \in Nat /\ OnTheWire = OnTheWire' \cup {p}
         /\ \A q : /\ HowOften(rest, Due(q)) \in Nat /\ HowOften(rest, Due(q)) <= HowOften(wire, Due(q))
                   /\ Head(wire) \in Due(q) => HowOften(rest, Due(q)) + 1 = HowOften(wire, Due(q))
         /\ (adapter \in OneByOne /\ repeats = 0) =>
              /\ \A i, j \in DOMAIN rest : i < j => rest[i].post < rest[j].post
              /\ \A q \in OnTheWire' : p < q
<1>1. wire \in Seq(Delivery) /\ wire # <<>> /\ rest = Tail(wire) /\ p = Head(wire).post
  BY DEF Taking, ThisPost, PostInv, PostTypes
<1>2. PICK n \in Nat : n = Len(wire) /\ DOMAIN wire = 1..n /\ n > 0 /\ Head(wire) = wire[1]
  BY <1>1, QueueShape
<1>3. rest \in Seq(Delivery) /\ DOMAIN rest = 1..(n - 1) /\ \A i \in 1..(n - 1) : rest[i] = wire[i + 1]
  BY <1>1, <1>2, QueueShape
<1>4. OnTheWire = PostsOf(wire) /\ OnTheWire' = PostsOf(rest)
  BY DEF OnTheWire, PostsOf
<1>5. OnTheWire = OnTheWire' \cup {p}
  BY <1>1, <1>4, PostsInQueue
<1>6. p \in DOMAIN postings
  BY <1>5 DEF PostInv, PostsKnown
<1>7. p \in Nat
  BY <1>6, QueueShape DEF PostInv, PostTypes
<1>8. ASSUME NEW q
      PROVE  /\ HowOften(rest, Due(q)) \in Nat /\ HowOften(rest, Due(q)) <= HowOften(wire, Due(q))
             /\ Head(wire) \in Due(q) => HowOften(rest, Due(q)) + 1 = HowOften(wire, Due(q))
  <2>1. HowOften(rest, Due(q)) \in Nat
    BY <1>3, HowOftenIsNat
  <2>2. HowOften(wire, Due(q)) = IF Head(wire) \in Due(q) THEN HowOften(rest, Due(q)) + 1 ELSE HowOften(rest, Due(q))
    BY <1>1, HowOftenInRest
  <2> QED
    BY <2>1, <2>2
<1>9. ASSUME adapter \in OneByOne, repeats = 0
      PROVE  /\ \A i, j \in DOMAIN rest : i < j => rest[i].post < rest[j].post
             /\ \A q \in OnTheWire' : p < q
  <2>1. \A i, j \in 1..n : i < j => wire[i].post < wire[j].post
    BY <1>2, <1>9 DEF PostInv, PostsInLine
  <2>2. ASSUME NEW i \in 1..(n - 1), NEW j \in 1..(n - 1), i < j PROVE rest[i].post < rest[j].post
    BY <1>3, <2>1, <2>2
  <2>3. ASSUME NEW i \in 1..(n - 1) PROVE p < rest[i].post
    BY <1>1, <1>2, <1>3, <2>1
  <2>4. \A q \in OnTheWire' : \E i \in 1..(n - 1) : q = rest[i].post
    BY <1>3, <1>4 DEF PostsOf
  <2> QED
    BY <1>3, <2>2, <2>3, <2>4
<1> QED
  BY <1>3, <1>5, <1>6, <1>7, <1>8, <1>9

\* A delivery that nobody handles.
LEMMA UnhandledKeeps ==
  ASSUME PostInv, Taking, UNCHANGED <<work, passedOn>>,
         \/ UNCHANGED <<window, evicted, gone>> /\ Seen(ThisPost)
         \/ gone' = gone \cup {ThisPost} /\ WindowMoves
  PROVE  PostInv'
<1>0. PostTypes /\ PostsKnown /\ WindowHolds /\ DeliveriesCounted /\ PostsInLine
  BY DEF PostInv
<1>1. UNCHANGED <<adapter, listening, knowsItself, postings, repeats, work, passedOn>> /\ taken' \in Nat
  BY <1>0 DEF Taking, PostTypes
<1>2. PICK p, rest : p = ThisPost /\ rest = wire'
  OBVIOUS
<1>3. /\ rest \in Seq(Delivery) /\ p \in DOMAIN postings /\ p \in Nat /\ OnTheWire = OnTheWire' \cup {p}
      /\ (adapter \in OneByOne /\ repeats = 0) =>
           \A i, j \in DOMAIN rest : i < j => rest[i].post < rest[j].post
  BY <1>2, RestOfWire
<1>4. \A q : HowOften(rest, Due(q)) \in Nat /\ HowOften(rest, Due(q)) <= HowOften(wire, Due(q))
  BY <1>2, RestOfWire
<1>5. /\ window' \in Seq(Nat) /\ evicted \subseteq evicted' /\ Range(window') \subseteq Range(window) \cup {p}
      /\ adapter \in Windowed => Range(window) \subseteq Range(window') \cup evicted'
      /\ gone \subseteq gone' /\ (p \in Range(window) \/ p \in gone')
  <2>1. CASE UNCHANGED <<window, evicted, gone>> /\ Seen(ThisPost)
    BY <1>0, <1>2, <2>1 DEF PostTypes, Seen
  <2>2. CASE gone' = gone \cup {ThisPost} /\ WindowMoves
    BY <1>0, <1>2, <1>3, <2>2, WindowFacts
  <2> QED
    BY <2>1, <2>2
<1>6. InWork' = InWork
  BY <1>1 DEF InWork
<1>7. PostTypes'
  BY <1>0, <1>1, <1>2, <1>3, <1>5 DEF PostTypes
<1>8. PostsKnown'
  <2>1. Range(window') \subseteq Range(passedOn) \cup gone' \cup InWork
    <3>1. p \in Range(passedOn) \cup gone' \cup InWork
      BY <1>0, <1>5 DEF PostsKnown
    <3> QED
      BY <1>0, <1>5, <3>1 DEF PostsKnown
  <2>2. p \in Range(passedOn) \cup gone' \cup InWork
    BY <1>0, <1>5 DEF PostsKnown
  <2> QED
    BY <1>0, <1>1, <1>3, <1>5, <1>6, <2>1, <2>2 DEF PostsKnown
<1>9. WindowHolds'
  <2> SUFFICES ASSUME adapter \in Windowed PROVE WindowHolds'
    BY <1>1 DEF WindowHolds
  <2>1. ComesOnce(passedOn, evicted')
    BY <1>0, <1>5 DEF WindowHolds, ComesOnce
  <2> QED
    BY <1>0, <1>1, <1>5, <1>6, <2>1 DEF WindowHolds
<1>10. DeliveriesCounted'
  <2> SUFFICES ASSUME NEW q \in DOMAIN postings
               PROVE  HowOften(rest, Due(q)) + Cardinality(HandlersOf(q)) + HowOften(passedOn, {q})
                        <= (1 + repeats) * Allowance
    <3>1. ASSUME NEW q \in DOMAIN postings PROVE Due(q)' = Due(q) /\ HandlersOf(q)' = HandlersOf(q)
      BY <1>1 DEF Due, DueOf, HandlersOf
    <3>2. Allowance' = Allowance
      BY <1>1 DEF Allowance
    <3> QED
      BY <1>1, <1>2, <3>1, <3>2 DEF DeliveriesCounted
  <2>1. HowOften(wire, Due(q)) + Cardinality(HandlersOf(q)) + HowOften(passedOn, {q}) <= (1 + repeats) * Allowance
    BY <1>0 DEF DeliveriesCounted
  <2>2. HowOften(wire, Due(q)) \in Nat /\ HowOften(passedOn, {q}) \in Nat /\ (1 + repeats) * Allowance \in Nat
    BY <1>0, HowOftenIsNat, AtMostIsNat DEF PostTypes
  <2>3. Cardinality(HandlersOf(q)) \in Nat
    BY <1>0, FS_Subset, FS_CardinalityType DEF PostTypes, HandlersOf
  <2> QED
    BY <1>4, <2>1, <2>2, <2>3
<1>11. PostsInLine'
  BY <1>0, <1>1, <1>2, <1>3, <1>6 DEF PostsInLine
<1> QED
  BY <1>7, <1>8, <1>9, <1>10, <1>11 DEF PostInv

\* A delivery that is handled.
LEMMA HandledKeeps ==
  ASSUME PostInv, Taking, NEW awaits \in Seq(AwaitNames), Handles(awaits)
  PROVE  PostInv'
<1>0. PostTypes /\ PostsKnown /\ WindowHolds /\ DeliveriesCounted /\ PostsInLine
  BY DEF PostInv
<1>1. UNCHANGED <<adapter, listening, knowsItself, postings, repeats>> /\ taken' \in Nat
  BY <1>0 DEF Taking, PostTypes
<1>2. PICK p, rest : p = ThisPost /\ rest = wire'
  OBVIOUS
<1>3. /\ rest \in Seq(Delivery) /\ p \in DOMAIN postings /\ p \in Nat /\ OnTheWire = OnTheWire' \cup {p}
      /\ (adapter \in OneByOne /\ repeats = 0) =>
           /\ \A i, j \in DOMAIN rest : i < j => rest[i].post < rest[j].post
           /\ \A q \in OnTheWire' : p < q
  BY <1>2, RestOfWire
<1>4. \A q : /\ HowOften(rest, Due(q)) \in Nat /\ HowOften(rest, Due(q)) <= HowOften(wire, Due(q))
             /\ Head(wire) \in Due(q) => HowOften(rest, Due(q)) + 1 = HowOften(wire, Due(q))
  BY <1>2, RestOfWire
<1>5. /\ window' \in Seq(Nat) /\ evicted \subseteq evicted' /\ Range(window') \subseteq Range(window) \cup {p}
      /\ adapter \in Windowed => /\ p \notin Range(window)
                                 /\ Range(window) \cup {p} \subseteq Range(window') \cup evicted'
  BY <1>0, <1>2, <1>3, WindowFacts DEF Handles
<1>6. (adapter \in OneByOne => work = {}) /\ Head(wire) \in Due(p)
  BY <1>2 DEF Handles
<1>7. adapter \in Windowed => p \notin (Range(passedOn) \cup InWork) \ evicted
  BY <1>0, <1>5 DEF WindowHolds
<1>8. ASSUME NEW q PROVE /\ Due(q)' = Due(q) /\ HowOften(wire, Due(q)) \in Nat /\ HowOften(passedOn, {q}) \in Nat
                         /\ IsFiniteSet(HandlersOf(q)) /\ Cardinality(HandlersOf(q)) \in Nat
  <2>1. IsFiniteSet(HandlersOf(q))
    BY <1>0, FS_Subset DEF PostTypes, HandlersOf
  <2>2. HowOften(wire, Due(q)) \in Nat /\ HowOften(passedOn, {q}) \in Nat
    BY <1>0, HowOftenIsNat DEF PostTypes
  <2>3. Due(q)' = Due(q)
    BY <1>1 DEF Due, DueOf
  <2> QED
    BY <2>1, <2>2, <2>3, FS_CardinalityType
<1>9. (1 + repeats) * Allowance \in Nat /\ Allowance' = Allowance
  BY <1>0, <1>1, AtMostIsNat DEF Allowance
<1>10. CASE awaits = <<>>
  <2>1. passedOn' = Append(passedOn, p) /\ work' = work /\ gone' = gone
    BY <1>2, <1>10 DEF Handles, Handle
  <2>2. PICK s \in Seq(Nat) : s = passedOn' /\ s = Append(passedOn, p) /\ Range(s) = Range(passedOn) \cup {p}
    <3>1. Append(passedOn, p) \in Seq(Nat)
      BY <1>0, <1>3, QueueShape DEF PostTypes
    <3>2. Range(Append(passedOn, p)) = Range(passedOn) \cup {p}
      BY <1>0, <1>3, QueueRange DEF PostTypes
    <3> QED
      BY <2>1, <3>1, <3>2
  <2>3. InWork' = InWork
    BY <2>1 DEF InWork
  <2>4. PostTypes'
    BY <1>0, <1>1, <1>2, <1>3, <1>5, <2>1, <2>2 DEF PostTypes
  <2>5. PostsKnown'
    BY <1>0, <1>1, <1>3, <1>5, <2>1, <2>2, <2>3 DEF PostsKnown
  <2>6. WindowHolds'
    <3> SUFFICES ASSUME adapter \in Windowed PROVE WindowHolds'
      BY <1>1 DEF WindowHolds
    <3>1. ComesOnce(s, evicted)
      BY <1>0, <1>3, <1>7, <2>2, OnceQueue DEF WindowHolds, PostTypes
    <3>2. ComesOnce(s, evicted')
      BY <1>5, <3>1 DEF ComesOnce
    <3>3. InWork \cap Range(s) \subseteq evicted'
      BY <1>0, <1>5, <1>7, <2>2 DEF WindowHolds
    <3>4. \A f, g \in work : f.post = g.post /\ f # g => f.post \in evicted'
      BY <1>0, <1>5 DEF WindowHolds
    <3>5. Range(s) \cup InWork \subseteq Range(window') \cup evicted'
      BY <1>0, <1>5, <2>2 DEF WindowHolds
    <3> QED
      BY <2>1, <2>2, <2>3, <3>2, <3>3, <3>4, <3>5 DEF WindowHolds
  <2>7. DeliveriesCounted'
    <3> SUFFICES ASSUME NEW q \in DOMAIN postings
                 PROVE  HowOften(rest, Due(q)) + Cardinality(HandlersOf(q)) + HowOften(s, {q})
                          <= (1 + repeats) * Allowance
      <4>1. ASSUME NEW q \in DOMAIN postings PROVE HandlersOf(q)' = HandlersOf(q) /\ Due(q)' = Due(q)
        BY <1>8, <2>1 DEF HandlersOf
      <4> QED
        BY <1>1, <1>2, <1>9, <2>2, <4>1 DEF DeliveriesCounted
    <3>1. HowOften(wire, Due(q)) + Cardinality(HandlersOf(q)) + HowOften(passedOn, {q}) <= (1 + repeats) * Allowance
      BY <1>0 DEF DeliveriesCounted
    <3>2. HowOften(s, {q}) = IF p \in {q} THEN HowOften(passedOn, {q}) + 1 ELSE HowOften(passedOn, {q})
      <4>1. passedOn \in Seq(Nat)
        BY <1>0 DEF PostTypes
      <4>2. HowOften(Append(passedOn, p), {q}) = IF p \in {q} THEN HowOften(passedOn, {q}) + 1 ELSE HowOften(passedOn, {q})
        BY <1>3, <4>1, HowOftenAppended
      <4> QED
        BY <2>2, <4>2
    <3>3. p = q => HowOften(rest, Due(q)) + 1 = HowOften(wire, Due(q))
      BY <1>4, <1>6
    <3>4. HowOften(rest, Due(q)) \in Nat /\ HowOften(rest, Due(q)) <= HowOften(wire, Due(q))
      BY <1>4
    <3>5. HowOften(wire, Due(q)) \in Nat /\ HowOften(passedOn, {q}) \in Nat /\ Cardinality(HandlersOf(q)) \in Nat
      BY <1>8
    <3> QED
      BY <1>9, <3>1, <3>2, <3>3, <3>4, <3>5
  <2>8. PostsInLine'
    <3> SUFFICES ASSUME adapter \in OneByOne, repeats = 0 PROVE PostsInLine'
      BY <1>1 DEF PostsInLine
    <3>1. PICK n \in Nat : n = Len(passedOn) /\ DOMAIN passedOn = 1..n
      BY <1>0, QueueShape DEF PostTypes
    <3>2. DOMAIN s = 1..(n + 1) /\ s[n + 1] = p /\ \A i \in 1..n : s[i] = passedOn[i] /\ passedOn[i] \in Range(passedOn)
      <4>1. passedOn \in Seq(Nat)
        BY <1>0 DEF PostTypes
      <4>2. DOMAIN s = 1..(n + 1) /\ s[n + 1] = p /\ \A i \in 1..n : s[i] = passedOn[i]
        BY <1>3, <2>2, <3>1, <4>1, QueueShape
      <4> QED
        BY <3>1, <4>2 DEF Range
    <3>3. \A q \in Range(passedOn) : q < p
      BY <1>0, <1>3 DEF PostsInLine
    <3>4. \A i, j \in DOMAIN s : i < j => s[i] < s[j]
      <4>1. \A i, j \in 1..n : i < j => passedOn[i] < passedOn[j]
        BY <1>0, <3>1 DEF PostsInLine
      <4> QED
        BY <3>2, <3>3, <4>1
    <3>5. work' = {} /\ InWork' = {}
      BY <1>6, <2>1 DEF InWork
    <3>6. \A q \in Range(s) : \A w \in OnTheWire' : q < w
      BY <1>0, <1>3, <2>2 DEF PostsInLine
    <3> QED
      BY <1>1, <1>2, <1>3, <2>2, <3>4, <3>5, <3>6 DEF PostsInLine
  <2> QED
    BY <2>4, <2>5, <2>6, <2>7, <2>8 DEF PostInv
<1>11. CASE awaits # <<>>
  <2>1. PICK h : h = [post |-> p, todo |-> awaits, number |-> taken']
    OBVIOUS
  <2>2. work' = work \cup {h} /\ passedOn' = passedOn /\ gone' = gone
    BY <1>2, <1>11, <2>1 DEF Handles, Handle
  <2>3. h \in Handler /\ h.post = p
    BY <1>1, <1>3, <1>11, <2>1 DEF Handler
  <2>4. InWork' = InWork \cup {p}
    BY <2>2, <2>3 DEF InWork
  <2>5. PostTypes'
    <3>1. IsFiniteSet(work')
      BY <1>0, <2>2, FS_AddElement DEF PostTypes
    <3> QED
      BY <1>0, <1>1, <1>2, <1>3, <1>5, <2>2, <2>3, <3>1 DEF PostTypes
  <2>6. PostsKnown'
    BY <1>0, <1>1, <1>3, <1>5, <2>2, <2>4 DEF PostsKnown
  <2>7. WindowHolds'
    <3> SUFFICES ASSUME adapter \in Windowed PROVE WindowHolds'
      BY <1>1 DEF WindowHolds
    <3>1. ComesOnce(passedOn, evicted')
      BY <1>0, <1>5 DEF ComesOnce, WindowHolds
    <3>2. InWork' \cap Range(passedOn) \subseteq evicted'
      BY <1>0, <1>5, <1>7, <2>4 DEF WindowHolds
    <3>3. \A f \in work : f.post = p => f.post \in evicted'
      BY <1>5, <1>7 DEF InWork
    <3>4. \A f, g \in work' : f.post = g.post /\ f # g => f.post \in evicted'
      BY <1>0, <1>5, <2>2, <2>3, <3>3 DEF WindowHolds
    <3>5. Range(passedOn) \cup InWork' \subseteq Range(window') \cup evicted'
      BY <1>0, <1>5, <2>4 DEF WindowHolds
    <3> QED
      BY <2>2, <3>1, <3>2, <3>4, <3>5 DEF WindowHolds
  <2>8. DeliveriesCounted'
    <3> SUFFICES ASSUME NEW q \in DOMAIN postings
                 PROVE  HowOften(rest, Due(q)) + Cardinality(HandlersOf(q)') + HowOften(passedOn, {q})
                          <= (1 + repeats) * Allowance
      BY <1>1, <1>2, <1>8, <1>9, <2>2 DEF DeliveriesCounted
    <3>1. HowOften(wire, Due(q)) + Cardinality(HandlersOf(q)) + HowOften(passedOn, {q}) <= (1 + repeats) * Allowance
      BY <1>0 DEF DeliveriesCounted
    <3>2. p = q => HowOften(rest, Due(q)) + 1 = HowOften(wire, Due(q))
      BY <1>4, <1>6
    <3>3. HowOften(rest, Due(q)) \in Nat /\ HowOften(rest, Due(q)) <= HowOften(wire, Due(q))
      BY <1>4
    <3>4. IsFiniteSet(HandlersOf(q)) /\ Cardinality(HandlersOf(q)) \in Nat
      BY <1>8
    <3>5. HowOften(wire, Due(q)) \in Nat /\ HowOften(passedOn, {q}) \in Nat
      BY <1>8
    <3>6. CASE p # q
      <4>1. HandlersOf(q)' = HandlersOf(q)
        BY <2>2, <2>3, <3>6 DEF HandlersOf
      <4>2. Cardinality(HandlersOf(q)') = Cardinality(HandlersOf(q))
        BY <4>1
      <4> QED
        BY <1>9, <3>1, <3>3, <3>4, <3>5, <4>2
    <3>7. CASE p = q
      <4>1. HandlersOf(q)' = HandlersOf(q) \cup {h}
        BY <2>2, <2>3, <3>7 DEF HandlersOf
      <4>2. Cardinality(HandlersOf(q) \cup {h}) =
              IF h \in HandlersOf(q) THEN Cardinality(HandlersOf(q)) ELSE Cardinality(HandlersOf(q)) + 1
        BY <3>4, FS_AddElement
      <4>3. Cardinality(HandlersOf(q)') = Cardinality(HandlersOf(q) \cup {h})
        BY <4>1
      <4> QED
        BY <1>9, <3>1, <3>2, <3>3, <3>4, <3>5, <3>7, <4>2, <4>3
    <3> QED
      BY <3>6, <3>7
  <2>9. PostsInLine'
    <3> SUFFICES ASSUME adapter \in OneByOne, repeats = 0 PROVE PostsInLine'
      BY <1>1 DEF PostsInLine
    <3>1. work' = {h} /\ InWork' = {p}
      BY <1>6, <2>2, <2>4 DEF InWork
    <3>2. \A q \in Range(passedOn) : \A w \in InWork' \cup OnTheWire' : q < w
      BY <1>0, <1>3, <3>1 DEF PostsInLine
    <3> QED
      BY <1>0, <1>1, <1>2, <1>3, <2>2, <3>1, <3>2 DEF PostsInLine
  <2> QED
    BY <2>5, <2>6, <2>7, <2>8, <2>9 DEF PostInv
<1> QED
  BY <1>10, <1>11

LEMMA PostStep == PostInv /\ [InboxNext]_postVars => PostInv'
<1> SUFFICES ASSUME PostInv, [InboxNext]_postVars PROVE PostInv'
  OBVIOUS
<1>1. CASE UNCHANGED postVars
  <2>1. \A q : Due(q)' = Due(q) /\ HandlersOf(q)' = HandlersOf(q)
    BY <1>1 DEF postVars, Due, DueOf, HandlersOf
  <2>2. DeliveriesCounted'
    BY <1>1, <2>1 DEF PostInv, postVars, DeliveriesCounted, Allowance
  <2>3. OnTheWire' = OnTheWire /\ InWork' = InWork
    BY <1>1 DEF postVars, OnTheWire, InWork
  <2> QED
    BY <1>1, <2>2, <2>3 DEF PostInv, postVars, PostTypes, PostsKnown, WindowHolds, PostsInLine
<1>2. CASE Takes
  <2>1. Taking /\ (Drops \/ Ignores \/ \E awaits \in Seq(AwaitNames) : Handles(awaits))
    BY <1>2, TakesOne
  <2>2. CASE Drops
    BY <2>1, <2>2, UnhandledKeeps DEF Drops
  <2>3. CASE Ignores
    BY <2>1, <2>3, UnhandledKeeps DEF Ignores, Ignore
  <2> QED
    BY <2>1, <2>2, <2>3, HandledKeeps
<1>3. CASE \E sort \in PostKinds : Posted(sort)
  BY <1>3, PostedKeeps
<1>4. CASE \E p \in DOMAIN postings : Repeated(p)
  BY <1>4, RepeatedKeeps
<1>5. CASE ConnectionLost \/ (\E h \in work : Raises(h)) \/ (\E overdue \in BOOLEAN : StopListening(overdue))
  BY <1>5, LosesPosts
<1>6. CASE \E h \in work : Resumes(h)
  BY <1>6, ResumesKeeps
<1> QED
  BY <1>1, <1>2, <1>3, <1>4, <1>5, <1>6 DEF InboxNext, Takes

\* Of the eight other adapters, whatever is posted, delivered again, lost on the way, cancelled
\* or overlaps at an await: what leaves _handle_message is bounded by what was delivered, and by
\* one for those with a window of ids until the id has left it; those that handle posts one by
\* one keep their order; and no post is lost without a trace.
THEOREM PostsPassedOnce == InboxSpec => []PostsOnce
<1>1. PostInv => PostsOnce
  <2> SUFFICES ASSUME PostInv PROVE PostsOnce
    OBVIOUS
  <2>1. PostTypes /\ PostsKnown /\ WindowHolds /\ DeliveriesCounted /\ PostsInLine
    BY DEF PostInv
  <2>2. ASSUME NEW p \in DOMAIN postings
        PROVE  /\ adapter \in Windowed => TimesPassedOn(p) <= 1 \/ p \in evicted
               /\ TimesPassedOn(p) <= (1 + repeats) * (IF knowsItself THEN 1 ELSE 2)
               /\ p \in Range(passedOn) \cup gone \cup OnTheWire \cup {h.post : h \in work}
    <3>1. {i \in DOMAIN passedOn : passedOn[i] = p} = {i \in DOMAIN passedOn : passedOn[i] \in {p}}
      OBVIOUS
    <3>2. TimesPassedOn(p) = HowOften(passedOn, {p})
      BY <3>1 DEF TimesPassedOn, HowOften
    <3>3. adapter \in Windowed => TimesPassedOn(p) <= 1 \/ p \in evicted
      BY <2>1, <3>2, OnceIsCounted DEF WindowHolds, PostTypes
    <3>4. HowOften(wire, Due(p)) + Cardinality(HandlersOf(p)) + HowOften(passedOn, {p}) <= (1 + repeats) * Allowance
      BY <2>1 DEF DeliveriesCounted
    <3>5. HowOften(wire, Due(p)) \in Nat /\ HowOften(passedOn, {p}) \in Nat /\ (1 + repeats) * Allowance \in Nat
      BY <2>1, HowOftenIsNat, AtMostIsNat DEF PostTypes
    <3>6. Cardinality(HandlersOf(p)) \in Nat
      BY <2>1, FS_Subset, FS_CardinalityType DEF PostTypes, HandlersOf
    <3>7. TimesPassedOn(p) <= (1 + repeats) * Allowance
      BY <3>2, <3>4, <3>5, <3>6
    <3>8. p \in Range(passedOn) \cup gone \cup OnTheWire \cup {h.post : h \in work}
      BY <2>1 DEF PostsKnown, InWork
    <3> QED
      BY <3>3, <3>7, <3>8 DEF Allowance
  <2>3. adapter \in OneByOne /\ repeats = 0 => \A i, j \in DOMAIN passedOn : i < j => passedOn[i] < passedOn[j]
    BY <2>1 DEF PostsInLine
  <2> QED
    BY <2>2, <2>3 DEF PostsOnce
<1> QED
  BY <1>1, InboxStart, PostStep, PTL DEF InboxSpec

-----------------------------------------------------------------------------
(* The adapters together, as the services are checked *)

\* What a platform has for the bot is handed to the bus once, and none of it is lost without a
\* trace: updates of Telegram, mails, and posts of the other platforms.
THEOREM InboundStaysOnce == TelegramSpec /\ MailboxSpec /\ InboxSpec => []InboundOnce
<1>1. UpdatesOnce /\ MailsOnce /\ PostsOnce => InboundOnce
  BY DEF InboundOnce
<1> QED
  BY <1>1, UpdatesHandedOnce, MailsHandedOnce, PostsPassedOnce, PTL

-----------------------------------------------------------------------------
(* Messages from Mochat *)

\* No element stands twice in s.
Distinct(s) == \A i, j \in DOMAIN s : s[i] = s[j] => i = j

\* Every variable of the channel keeps its type.
MochatTypes ==
  /\ kind \in {"session", "panel"} /\ posts \in Nat /\ phase \in {"running", "stopping", "stopped"}
  /\ subscribed \in BOOLEAN /\ socketUp \in BOOLEAN /\ timer \in BOOLEAN /\ cold \in BOOLEAN
  /\ ack \in Requests /\ poll \in Requests
  /\ cursor \in Nat \cup {Absent} /\ cursorFile \in Nat \cup {Absent} /\ base \in Nat
  /\ pushes \in Seq(Nat \ {0}) /\ entries \in Seq(Nat) /\ heard \in Seq(Nat) /\ orphans \in Seq(Nat)
  /\ seen \subseteq Nat

\* What was seen was handed over, or waits in an entry; never both.
SeenOnce ==
  phase = "running" =>
    /\ Distinct(heard) /\ Distinct(entries)
    /\ ToSet(heard) \cap ToSet(entries) = {}
    /\ ToSet(heard) \cup ToSet(entries) = seen
    /\ entries # <<>> => timer

\* The message m is history, was heard, or was in no answer that was handled.
Covered(m) == m <= base \/ m \in everHeard \cup missed
CoveredTo(n) == \A m \in 1..n : Covered(m)
From(request) == request.state # "none" => request.from <= CursorOr0
\* Up to where the server has sent its pushes.
PostsSent == posts - Len(pushes)

\* A session is cold until it has a cursor, and its file is never ahead.
CursorsAgree ==
  /\ cold <=> cursor = Absent
  /\ cursorFile <= cursor
\* The pushes under way follow on what is covered, or on an answer under way.
PushesFollow ==
  /\ subscribed => socketUp
  /\ ack.state \in {"asked", "late"} => ~subscribed
  /\ ~subscribed => pushes = <<>>
  /\ \A i \in 1..Len(pushes) : pushes[i] = PostsSent + i
  /\ PostsSent \in Nat
  /\ subscribed =>
       \/ /\ ack.state = "answered" /\ ack.to <= PostsSent
          /\ \A m \in (ack.to + 1)..PostsSent : Covered(m)
       \/ ack.state = "none" /\ CoveredTo(PostsSent)
\* All that a request under way will ask to go on from is covered.
CursorCovered ==
  kind = "session" =>
    /\ CursorsAgree /\ PushesFollow
    /\ seen \subseteq everHeard
    /\ CoveredTo(CursorOr0)
    /\ From(ack) /\ From(poll)

\* Two sequences one after the other.
LEMMA Joined ==
  ASSUME NEW s \in Seq(Nat), NEW t \in Seq(Nat)
  PROVE  /\ s \o t \in Seq(Nat)
         /\ ToSet(s \o t) = ToSet(s) \cup ToSet(t)
         /\ Distinct(s) /\ Distinct(t) /\ ToSet(s) \cap ToSet(t) = {} => Distinct(s \o t)
<1>1. PICK q : q = s \o t
  OBVIOUS
<1>2. /\ q \in Seq(Nat) /\ Len(s) \in Nat /\ Len(t) \in Nat /\ DOMAIN q = 1..Len(s) + Len(t)
      /\ DOMAIN s = 1..Len(s) /\ DOMAIN t = 1..Len(t)
      /\ \A i \in 1..Len(s) : i \in DOMAIN q /\ q[i] = s[i]
      /\ \A i \in 1..Len(t) : Len(s) + i \in DOMAIN q /\ q[Len(s) + i] = t[i]
      /\ \A i \in DOMAIN q : /\ i <= Len(s) => i \in 1..Len(s) /\ q[i] = s[i]
                             /\ ~(i <= Len(s)) => i - Len(s) \in 1..Len(t) /\ q[i] = t[i - Len(s)]
  <2>1. Len(s) \in Nat /\ Len(t) \in Nat /\ DOMAIN s = 1..Len(s) /\ DOMAIN t = 1..Len(t)
    BY LenProperties
  <2>2. /\ q \in Seq(Nat) /\ Len(q) = Len(s) + Len(t)
        /\ \A i \in 1..Len(s) + Len(t) : q[i] = IF i <= Len(s) THEN s[i] ELSE t[i - Len(s)]
    BY <1>1, ConcatProperties
  <2>3. DOMAIN q = 1..Len(s) + Len(t)
    BY <2>2, LenProperties
  <2>4. ASSUME NEW i \in 1..Len(t) PROVE Len(s) + i \in 1..Len(s) + Len(t) /\ ~(Len(s) + i <= Len(s)) /\ (Len(s) + i) - Len(s) = i
    BY <2>1
  <2>5. ASSUME NEW i \in 1..Len(t) PROVE q[Len(s) + i] = t[i]
    BY <2>2, <2>4
  <2>6. ASSUME NEW i \in 1..Len(s) PROVE i \in 1..Len(s) + Len(t) /\ q[i] = s[i]
    BY <2>1, <2>2
  <2>7. ASSUME NEW i \in 1..Len(s) + Len(t)
        PROVE  /\ i <= Len(s) => i \in 1..Len(s) /\ q[i] = s[i]
               /\ ~(i <= Len(s)) => i - Len(s) \in 1..Len(t) /\ q[i] = t[i - Len(s)]
    BY <2>1, <2>2
  <2> QED
    BY <2>1, <2>2, <2>3, <2>4, <2>5, <2>6, <2>7
<1>3. ToSet(q) = ToSet(s) \cup ToSet(t)
  <2>1. ASSUME NEW i \in DOMAIN s PROVE s[i] \in ToSet(q)
    BY <1>2, <2>1 DEF ToSet
  <2>2. ASSUME NEW i \in DOMAIN t PROVE t[i] \in ToSet(q)
    BY <1>2 DEF ToSet
  <2>3. ASSUME NEW i \in DOMAIN q PROVE q[i] \in ToSet(s) \cup ToSet(t)
    <3>1. i <= Len(s) => i \in DOMAIN s /\ q[i] = s[i]
      BY <1>2
    <3>2. ~(i <= Len(s)) => i - Len(s) \in DOMAIN t /\ q[i] = t[i - Len(s)]
      BY <1>2
    <3> QED
      BY <3>1, <3>2 DEF ToSet
  <2> QED
    BY <2>1, <2>2, <2>3 DEF ToSet
<1>4. ASSUME Distinct(s), Distinct(t), ToSet(s) \cap ToSet(t) = {} PROVE Distinct(q)
  <2> SUFFICES ASSUME NEW i \in DOMAIN q, NEW j \in DOMAIN q, q[i] = q[j] PROVE i = j
    BY DEF Distinct
  <2>1. CASE i <= Len(s) /\ j <= Len(s)
    BY <1>2, <1>4, <2>1 DEF Distinct
  <2>2. CASE ~(i <= Len(s)) /\ ~(j <= Len(s))
    <3>1. i - Len(s) \in DOMAIN t /\ j - Len(s) \in DOMAIN t /\ t[i - Len(s)] = t[j - Len(s)]
      BY <1>2, <2>2
    <3>2. i - Len(s) = j - Len(s)
      BY <1>4, <3>1 DEF Distinct
    <3> QED
      BY <1>2, <3>2
  <2>3. CASE i <= Len(s) /\ ~(j <= Len(s))
    <3>1. s[i] \in ToSet(s) /\ t[j - Len(s)] \in ToSet(t) /\ s[i] = t[j - Len(s)]
      BY <1>2, <2>3 DEF ToSet
    <3> QED
      BY <1>4, <3>1
  <2>4. CASE ~(i <= Len(s)) /\ j <= Len(s)
    <3>1. s[j] \in ToSet(s) /\ t[i - Len(s)] \in ToSet(t) /\ s[j] = t[i - Len(s)]
      BY <1>2, <2>4 DEF ToSet
    <3> QED
      BY <1>4, <3>1
  <2> QED
    BY <2>1, <2>2, <2>3, <2>4
<1> QED
  BY <1>1, <1>2, <1>3, <1>4

\* A sequence and one more element.
LEMMA Appended ==
  ASSUME NEW s \in Seq(Nat), NEW x \in Nat
  PROVE  /\ Append(s, x) \in Seq(Nat)
         /\ ToSet(Append(s, x)) = ToSet(s) \cup {x}
         /\ Distinct(s) /\ x \notin ToSet(s) => Distinct(Append(s, x))
<1>1. Append(s, x) = s \o <<x>> /\ <<x>> \in Seq(Nat) /\ Append(s, x) \in Seq(Nat)
  BY AppendIsConcat, AppendProperties
<1>2. ToSet(<<x>>) = {x} /\ Distinct(<<x>>)
  BY DEF ToSet, Distinct
<1>3. x \notin ToSet(s) => ToSet(s) \cap ToSet(<<x>>) = {}
  BY <1>2
<1> QED
  BY <1>1, <1>2, <1>3, Joined

\* The definition of Unseen has a value, as it goes from each index to the next.
KeptUpTo(ms, n, f) ==
  f = [i \in 0..n |-> IF i = 0 THEN <<>>
                      ELSE IF ms[i] \in seen THEN f[i - 1] ELSE Append(f[i - 1], ms[i])]

LEMMA KeptExists ==
  ASSUME NEW ms, NEW n \in Nat
  PROVE  \E f : KeptUpTo(ms, n, f)
<1> SUFFICES ASSUME ~ \E f : KeptUpTo(ms, n, f) PROVE FALSE
  OBVIOUS
<1>1. PICK S : S = {k \in Nat : ~ \E f : KeptUpTo(ms, k, f)}
  OBVIOUS
<1>2. S # {} /\ S \subseteq Nat
  BY <1>1
<1>3. PICK k \in S : \A q \in S : ~(<<q, k>> \in OpToRel(<, Nat))
  BY <1>2, NatLessThanWellFounded, WFMin, Zenon
<1>4. k \in Nat /\ \A q \in S : ~(q < k)
  BY <1>2, <1>3 DEF OpToRel
<1>5. CASE k = 0
  <2>1. PICK f : f = [i \in 0..0 |-> <<>>]
    OBVIOUS
  <2>2. KeptUpTo(ms, 0, f)
    BY <2>1 DEF KeptUpTo
  <2> QED
    BY <1>1, <1>5, <2>2
<1>6. CASE k # 0
  <2>1. k - 1 \in Nat /\ k - 1 \notin S
    BY <1>4, <1>6
  <2>2. PICK f : KeptUpTo(ms, k - 1, f)
    BY <1>1, <2>1
  <2>3. PICK g : g = [i \in 0..k |-> IF i = k THEN IF ms[k] \in seen THEN f[k - 1] ELSE Append(f[k - 1], ms[k]) ELSE f[i]]
    OBVIOUS
  <2>4. ASSUME NEW i \in 0..k
        PROVE  g[i] = IF i = 0 THEN <<>> ELSE IF ms[i] \in seen THEN g[i - 1] ELSE Append(g[i - 1], ms[i])
    <3>1. CASE i = k
      <4>1. k - 1 \in 0..k /\ k - 1 # k
        BY <1>4, <1>6
      <4>2. g[k - 1] = f[k - 1]
        BY <2>3, <4>1
      <4>3. g[k] = IF ms[k] \in seen THEN f[k - 1] ELSE Append(f[k - 1], ms[k])
        BY <1>4, <2>3
      <4> QED
        BY <1>6, <3>1, <4>2, <4>3
    <3>2. CASE i = 0
      <4>1. 0 \in 0..(k - 1)
        BY <2>1
      <4>2. f[0] = <<>>
        BY <2>2, <4>1 DEF KeptUpTo
      <4> QED
        BY <1>6, <2>3, <3>2, <4>2
    <3>3. CASE i # k /\ i # 0
      <4>1. i \in 0..(k - 1) /\ i - 1 \in 0..k /\ i - 1 # k
        BY <1>4, <3>3
      <4>2. f[i] = IF ms[i] \in seen THEN f[i - 1] ELSE Append(f[i - 1], ms[i])
        BY <2>2, <3>3, <4>1 DEF KeptUpTo
      <4>3. g[i] = f[i] /\ g[i - 1] = f[i - 1]
        BY <2>3, <3>3, <4>1
      <4> QED
        BY <3>3, <4>2, <4>3
    <3> QED
      BY <3>1, <3>2, <3>3
  <2>5. KeptUpTo(ms, k, g)
    BY <2>3, <2>4 DEF KeptUpTo
  <2> QED
    BY <1>1, <1>3, <2>5
<1> QED
  BY <1>5, <1>6

\* Unseen keeps what is new, once.
LEMMA UnseenFacts ==
  ASSUME NEW ms \in Seq(Nat), Distinct(ms)
  PROVE  /\ Unseen(ms) \in Seq(Nat) /\ Distinct(Unseen(ms))
         /\ ToSet(Unseen(ms)) = ToSet(ms) \ seen
<1>1. Len(ms) \in Nat /\ DOMAIN ms = 1..Len(ms) /\ \A i \in 1..Len(ms) : ms[i] \in Nat
  BY LenProperties
<1>2. PICK f : KeptUpTo(ms, Len(ms), f) /\ Unseen(ms) = f[Len(ms)]
  <2>1. \E f : f = [i \in 0..Len(ms) |-> IF i = 0 THEN <<>> ELSE IF ms[i] \in seen THEN f[i - 1] ELSE Append(f[i - 1], ms[i])]
    BY <1>1, KeptExists DEF KeptUpTo
  <2>2. \E f : /\ f = [i \in 0..Len(ms) |-> IF i = 0 THEN <<>> ELSE IF ms[i] \in seen THEN f[i - 1] ELSE Append(f[i - 1], ms[i])]
               /\ Unseen(ms) = f[Len(ms)]
    BY <2>1 DEF Unseen
  <2> QED
    BY <2>2 DEF KeptUpTo
<1> DEFINE Upto(i) == {ms[j] : j \in 1..i}
           Right(i) == /\ f[i] \in Seq(Nat) /\ Distinct(f[i])
                       /\ ToSet(f[i]) = Upto(i) \ seen
<1>3. f[0] = <<>> /\ \A i \in 1..Len(ms) : f[i] = IF ms[i] \in seen THEN f[i - 1] ELSE Append(f[i - 1], ms[i])
  <2>1. \A i \in 0..Len(ms) : f[i] = IF i = 0 THEN <<>> ELSE IF ms[i] \in seen THEN f[i - 1] ELSE Append(f[i - 1], ms[i])
    BY <1>2 DEF KeptUpTo
  <2>2. 0 \in 0..Len(ms) /\ \A i \in 1..Len(ms) : i \in 0..Len(ms) /\ i # 0
    BY <1>1
  <2> QED
    BY <2>1, <2>2
<1>4. Right(0)
  BY <1>3 DEF Distinct, ToSet
<1>5. ASSUME NEW i \in 1..Len(ms), Right(i - 1) PROVE Right(i)
  <2>1. i - 1 \in Nat /\ i \in Nat
    BY <1>1
  <2>2. Upto(i) = Upto(i - 1) \cup {ms[i]}
    <3>1. 1..i = 1..(i - 1) \cup {i}
      BY <1>1
    <3> QED
      BY <3>1
  <2>3. ms[i] \notin Upto(i - 1) /\ ms[i] \in Nat
    BY <1>1 DEF Distinct
  <2>4. f[i] = IF ms[i] \in seen THEN f[i - 1] ELSE Append(f[i - 1], ms[i])
    BY <1>3
  <2>5. CASE ms[i] \in seen
    <3>1. f[i] = f[i - 1] /\ Upto(i) \ seen = Upto(i - 1) \ seen
      BY <2>2, <2>4, <2>5
    <3> QED
      BY <1>5, <3>1
  <2>6. CASE ms[i] \notin seen
    <3>1. f[i] = Append(f[i - 1], ms[i]) /\ Upto(i) \ seen = (Upto(i - 1) \ seen) \cup {ms[i]}
      BY <2>2, <2>4, <2>6
    <3>2. f[i - 1] \in Seq(Nat) /\ Distinct(f[i - 1]) /\ ms[i] \notin ToSet(f[i - 1])
      BY <1>5, <2>3
    <3> QED
      BY <1>5, <2>3, <3>1, <3>2, Appended
  <2> QED
    BY <2>5, <2>6
<1>6. \A i \in 0..Len(ms) : Right(i)
  <2> SUFFICES ASSUME NEW n \in 0..Len(ms), ~Right(n) PROVE FALSE
    OBVIOUS
  <2> HIDE DEF Right
  <2>1. PICK S : S = {k \in 0..Len(ms) : ~Right(k)}
    OBVIOUS
  <2>2. S # {} /\ S \subseteq Nat
    BY <1>1, <2>1
  <2>3. PICK k \in S : \A q \in S : ~(<<q, k>> \in OpToRel(<, Nat))
    BY <2>2, NatLessThanWellFounded, WFMin, Zenon
  <2>4. k \in 0..Len(ms) /\ ~Right(k) /\ \A q \in S : ~(q < k)
    BY <2>1, <2>2, <2>3 DEF OpToRel
  <2>5. k # 0
    BY <1>4, <2>4
  <2>6. k \in 1..Len(ms) /\ k - 1 \in 0..Len(ms) /\ k - 1 < k
    BY <1>1, <2>4, <2>5
  <2>7. Right(k - 1)
    BY <2>1, <2>4, <2>6
  <2> QED
    BY <1>5, <2>4, <2>6, <2>7
<1>7. Right(Len(ms)) /\ Upto(Len(ms)) = ToSet(ms)
  BY <1>1, <1>6 DEF ToSet
<1> QED
  BY <1>2, <1>7


LEMMA RequestFacts ==
  /\ None \in Requests
  /\ \A from \in Nat : Asked(from) \in Requests /\ Late(from) \in Requests
  /\ \A from, to \in Nat : Answered(from, to) \in Requests
  /\ \A r \in Requests :
       /\ r.state \in {"none", "asked", "late", "answered"}
       /\ r.state = "none" => r = None
       /\ r.state # "none" => r.from \in Nat
       /\ r.state = "answered" => r.to \in Nat
BY DEF Requests, None, Asked, Late, Answered

\* The messages of a payload.
Stretch(from, to) == [i \in 1..(to - from) |-> from + i]

LEMMA StretchFacts ==
  ASSUME NEW from \in Nat, NEW to \in Nat
  PROVE  /\ Stretch(from, to) \in Seq(Nat) /\ Distinct(Stretch(from, to))
         /\ ToSet(Stretch(from, to)) = (from + 1)..to
<1>1. PICK q : q = Stretch(from, to)
  OBVIOUS
<1>2. DOMAIN q = 1..(to - from) /\ \A i \in 1..(to - from) : q[i] = from + i /\ q[i] \in Nat
  BY <1>1 DEF Stretch
<1>3. q \in Seq(Nat)
  <2>1. CASE from <= to
    <3>1. to - from \in Nat
      BY <2>1
    <3> QED
      BY <1>1, <1>2, <3>1, IsASeq DEF Stretch
  <2>2. CASE to < from
    <3>1. 1..(to - from) = 1..0
      BY <2>2
    <3>2. q = [i \in 1..0 |-> from + i]
      BY <1>1, <3>1 DEF Stretch
    <3> QED
      BY <3>2, IsASeq
  <2> QED
    BY <2>1, <2>2
<1>4. Distinct(q)
  BY <1>2 DEF Distinct
<1>5. ToSet(q) = (from + 1)..to
  <2>1. ASSUME NEW m \in (from + 1)..to PROVE m \in ToSet(q)
    <3>1. m - from \in 1..(to - from) /\ from + (m - from) = m
      OBVIOUS
    <3>2. m - from \in DOMAIN q /\ q[m - from] = m
      BY <1>2, <3>1
    <3> QED
      BY <3>2 DEF ToSet
  <2>2. ASSUME NEW i \in DOMAIN q PROVE q[i] \in (from + 1)..to
    BY <1>2
  <2> QED
    BY <2>1, <2>2 DEF ToSet
<1> QED
  BY <1>1, <1>3, <1>4, <1>5

LEMMA SingleFacts ==
  ASSUME NEW m \in Nat
  PROVE  /\ <<m>> \in Seq(Nat) /\ Distinct(<<m>>) /\ ToSet(<<m>>) = {m}
         /\ Unseen(<<m>>) = <<>> <=> m \in seen
<1>1. <<m>> \in Seq(Nat) /\ Distinct(<<m>>) /\ ToSet(<<m>>) = {m}
  BY DEF Distinct, ToSet
<1>2. Unseen(<<m>>) \in Seq(Nat) /\ ToSet(Unseen(<<m>>)) = {m} \ seen
  BY <1>1, UnseenFacts
<1>3. ASSUME NEW q \in Seq(Nat) PROVE q = <<>> <=> ToSet(q) = {}
  <2>1. q = <<>> <=> Len(q) = 0
    BY EmptySeq
  <2>2. Len(q) \in Nat /\ DOMAIN q = 1..Len(q)
    BY LenProperties
  <2>3. DOMAIN q = {} <=> Len(q) = 0
    <3>1. Len(q) # 0 => 1 \in DOMAIN q
      BY <2>2
    <3>2. 1..0 = {}
      OBVIOUS
    <3> QED
      BY <2>2, <3>1, <3>2
  <2> QED
    BY <2>1, <2>3 DEF ToSet
<1> QED
  BY <1>1, <1>2, <1>3

InboxTypes == heard \in Seq(Nat) /\ entries \in Seq(Nat) /\ seen \subseteq Nat /\ timer \in BOOLEAN

\* What is new in a payload of a session is handed over.
LEMMA SessionFacts ==
  ASSUME InboxTypes, NEW ms \in Seq(Nat), Distinct(ms), SessionEvents(ms)
  PROVE  /\ InboxTypes'
         /\ SeenOnce /\ phase' = phase => SeenOnce'
         /\ seen \subseteq everHeard => ToSet(ms) \subseteq everHeard' /\ seen' \subseteq everHeard'
         /\ everHeard \subseteq everHeard'
<1>1. PICK new : new = Unseen(ms)
  OBVIOUS
<1>2. new \in Seq(Nat) /\ Distinct(new) /\ ToSet(new) = ToSet(ms) \ seen
  BY <1>1, UnseenFacts
<1>3. /\ heard' = heard \o new /\ everHeard' = everHeard \cup ToSet(new) /\ seen' = seen \cup ToSet(ms)
      /\ entries' = entries /\ timer' = timer
  BY <1>1 DEF SessionEvents, Dispatched
<1>4. /\ heard' \in Seq(Nat) /\ ToSet(heard') = ToSet(heard) \cup ToSet(new)
      /\ Distinct(heard) /\ ToSet(heard) \cap ToSet(new) = {} => Distinct(heard')
  BY <1>2, <1>3, Joined DEF InboxTypes
<1>5. ToSet(ms) \subseteq Nat
  BY LenProperties DEF ToSet
<1>6. ASSUME SeenOnce, phase' = phase PROVE SeenOnce'
  <2> SUFFICES ASSUME phase = "running"
               PROVE  /\ Distinct(heard') /\ Distinct(entries')
                      /\ ToSet(heard') \cap ToSet(entries') = {}
                      /\ ToSet(heard') \cup ToSet(entries') = seen'
                      /\ entries' # <<>> => timer'
    BY <1>6 DEF SeenOnce
  <2>1. /\ Distinct(heard) /\ Distinct(entries) /\ ToSet(heard) \cap ToSet(entries) = {}
        /\ ToSet(heard) \cup ToSet(entries) = seen /\ (entries # <<>> => timer)
    BY <1>6 DEF SeenOnce
  <2>2. ToSet(heard) \cap ToSet(new) = {} /\ ToSet(entries) \cap ToSet(new) = {}
    BY <1>2, <2>1
  <2> QED
    BY <1>2, <1>3, <1>4, <2>1, <2>2
<1> QED
  BY <1>2, <1>3, <1>4, <1>5, <1>6 DEF InboxTypes

LEMMA PanelFacts ==
  ASSUME InboxTypes, NEW m \in Nat, PanelEvent(m)
  PROVE  InboxTypes' /\ (SeenOnce /\ phase' = phase => SeenOnce')
<1>1. CASE m \in seen
  <2>1. UNCHANGED inboxVars
    BY <1>1, SingleFacts DEF PanelEvent
  <2> QED
    BY <2>1 DEF inboxVars, InboxTypes, SeenOnce
<1>2. CASE m \notin seen /\ m \in Mentioned
  <2>1. PICK more : more = Append(entries, m)
    OBVIOUS
  <2>2. /\ seen' = seen \cup {m} /\ entries' = <<>> /\ timer' = FALSE /\ heard' = heard \o more
    BY <1>2, <2>1, SingleFacts DEF PanelEvent, FlushedWith, Dispatched
  <2>3. /\ more \in Seq(Nat) /\ ToSet(more) = ToSet(entries) \cup {m}
        /\ Distinct(entries) /\ m \notin ToSet(entries) => Distinct(more)
    BY <2>1, Appended DEF InboxTypes
  <2>4. /\ heard' \in Seq(Nat) /\ ToSet(heard') = ToSet(heard) \cup ToSet(more)
        /\ Distinct(heard) /\ Distinct(more) /\ ToSet(heard) \cap ToSet(more) = {} => Distinct(heard')
    BY <2>2, <2>3, Joined DEF InboxTypes
  <2>5. <<>> \in Seq(Nat) /\ Distinct(<<>>) /\ ToSet(<<>>) = {}
    BY DEF Distinct, ToSet
  <2>6. InboxTypes'
    BY <2>2, <2>4, <2>5 DEF InboxTypes
  <2>7. ASSUME SeenOnce, phase' = phase PROVE SeenOnce'
    <3> SUFFICES ASSUME phase = "running"
                 PROVE  /\ Distinct(heard') /\ Distinct(entries')
                        /\ ToSet(heard') \cap ToSet(entries') = {}
                        /\ ToSet(heard') \cup ToSet(entries') = seen'
                        /\ entries' # <<>> => timer'
      BY <2>7 DEF SeenOnce
    <3>1. /\ Distinct(heard) /\ Distinct(entries) /\ ToSet(heard) \cap ToSet(entries) = {}
          /\ ToSet(heard) \cup ToSet(entries) = seen
      BY <2>7 DEF SeenOnce
    <3>2. m \notin ToSet(entries) /\ ToSet(heard) \cap ToSet(more) = {}
      BY <1>2, <2>3, <3>1
    <3> QED
      BY <2>2, <2>3, <2>4, <2>5, <3>1, <3>2
  <2> QED
    BY <2>6, <2>7
<1>3. CASE m \notin seen /\ m \notin Mentioned
  <2>1. seen' = seen \cup {m} /\ entries' = Append(entries, m) /\ timer' = TRUE /\ heard' = heard
    BY <1>3, SingleFacts DEF PanelEvent, Enqueued
  <2>2. /\ entries' \in Seq(Nat) /\ ToSet(entries') = ToSet(entries) \cup {m}
        /\ Distinct(entries) /\ m \notin ToSet(entries) => Distinct(entries')
    BY <2>1, Appended DEF InboxTypes
  <2>3. InboxTypes'
    BY <2>1, <2>2 DEF InboxTypes
  <2>4. ASSUME SeenOnce, phase' = phase PROVE SeenOnce'
    BY <1>3, <2>1, <2>2, <2>4 DEF SeenOnce
  <2> QED
    BY <2>3, <2>4
<1> QED
  BY <1>1, <1>2, <1>3


LEMMA TypesSplit ==
  MochatTypes <=> /\ InboxTypes
                  /\ kind \in {"session", "panel"} /\ posts \in Nat /\ phase \in {"running", "stopping", "stopped"}
                  /\ subscribed \in BOOLEAN /\ socketUp \in BOOLEAN /\ cold \in BOOLEAN
                  /\ ack \in Requests /\ poll \in Requests
                  /\ cursor \in Nat \cup {Absent} /\ cursorFile \in Nat \cup {Absent}
                  /\ base \in Nat
                  /\ pushes \in Seq(Nat \ {0}) /\ orphans \in Seq(Nat)
BY DEF MochatTypes, InboxTypes

LEMMA PayloadFacts ==
  ASSUME MochatTypes, NEW from \in Nat, NEW to \in Nat, WatchPayload(from, to), phase' = phase
  PROVE  /\ InboxTypes'
         /\ cold' \in BOOLEAN /\ cursor' \in Nat \cup {Absent} /\ cursorFile' = cursorFile
         /\ SeenOnce => SeenOnce'
<1>1. Stretch(from, to) \in Seq(Nat) /\ Distinct(Stretch(from, to))
  BY StretchFacts
<1>2. /\ cold' = FALSE /\ cursorFile' = cursorFile
      /\ cursor' \in Nat \cup {Absent}
  BY DEF WatchPayload, Marked, MochatTypes
<1>3. CASE cold
  <2>1. UNCHANGED inboxVars
    BY <1>3 DEF WatchPayload
  <2>2. InboxTypes' /\ (SeenOnce => SeenOnce')
    BY <2>1, TypesSplit DEF inboxVars, InboxTypes, SeenOnce
  <2> QED
    BY <1>2, <2>2
<1>4. CASE ~cold
  <2>1. SessionEvents(Stretch(from, to))
    BY <1>4 DEF WatchPayload, Stretch
  <2>2. InboxTypes' /\ (SeenOnce => SeenOnce')
    BY <1>1, <2>1, SessionFacts, TypesSplit
  <2> QED
    BY <1>2, <2>2
<1> QED
  BY <1>3, <1>4

LEMMA CursorFacts ==
  /\ Absent = -1
  /\ cursor \in Nat \cup {Absent} => CursorOr0 \in Nat /\ (cursor # Absent => CursorOr0 = cursor)
  /\ cursor = Absent => CursorOr0 = 0
BY DEF Absent, CursorOr0

\* After a payload everything up to its end is covered, if everything before it was.
LEMMA PayloadCovers ==
  ASSUME MochatTypes, NEW from \in Nat, NEW to \in Nat, WatchPayload(from, to),
         CursorsAgree, seen \subseteq everHeard, CoveredTo(CursorOr0), CoveredTo(from),
         kind = "session", base' = base
  PROVE  /\ CursorsAgree' /\ seen' \subseteq everHeard'
         /\ CoveredTo(to)' /\ CoveredTo(CursorOr0)'
         /\ CursorOr0 <= CursorOr0' /\ CursorOr0' \in Nat
         /\ \A m \in Nat : Covered(m) => Covered(m)'
<1>1. /\ cold' = FALSE /\ cursorFile' = cursorFile
      /\ cursor' = IF to >= CursorOr0 THEN to ELSE cursor
  BY DEF WatchPayload, Marked, MochatTypes
<1>2. /\ cursor \in Nat \cup {Absent} /\ cursorFile \in Nat \cup {Absent} /\ base \in Nat
      /\ cold \in BOOLEAN /\ CursorOr0 \in Nat
  BY CursorFacts DEF MochatTypes
<1>3. /\ cold <=> cursor = Absent
      /\ cursorFile <= cursor
  BY DEF CursorsAgree
<1>4. cursor' \in Nat /\ CursorOr0 <= cursor' /\ CursorOr0' = cursor'
  BY <1>1, <1>2, <1>3, CursorFacts DEF Absent, CursorOr0
<1>5. CursorsAgree'
  BY <1>1, <1>2, <1>3, <1>4 DEF CursorsAgree, Absent, CursorOr0
<1>6. CASE cold
  <2>1. UNCHANGED inboxVars /\ missed' = missed \cup (base + 1)..to
    BY <1>6 DEF WatchPayload, After
  <2>2. seen' \subseteq everHeard' /\ everHeard' = everHeard
    BY <2>1 DEF inboxVars
  <2>3. \A m \in Nat : Covered(m) => Covered(m)'
    BY <2>1, <2>2 DEF Covered
  <2>4. CoveredTo(to)'
    <3>1. ASSUME NEW m \in 1..to PROVE Covered(m)'
      <4>1. m > base => m \in (base + 1)..to
        BY <1>2
      <4> QED
        BY <1>2, <2>1, <4>1 DEF Covered
    <3> QED
      BY <3>1 DEF CoveredTo
  <2>5. cursor' = to
    BY <1>1, <1>3, <1>6, CursorFacts
  <2> QED
    BY <1>4, <1>5, <2>2, <2>3, <2>4, <2>5
<1>7. CASE ~cold
  <2>1. SessionEvents(Stretch(from, to)) /\ missed' = missed
    BY <1>7 DEF WatchPayload, Stretch
  <2>2. (from + 1)..to \subseteq everHeard' /\ seen' \subseteq everHeard' /\ everHeard \subseteq everHeard'
    BY <2>1, SessionFacts, StretchFacts, TypesSplit
  <2>3. \A m \in Nat : Covered(m) => Covered(m)'
    BY <2>1, <2>2 DEF Covered
  <2>4. ASSUME NEW m \in 1..to PROVE Covered(m)'
    <3>1. CASE m <= from
      BY <2>3, <3>1 DEF CoveredTo
    <3>2. CASE ~(m <= from)
      <4>1. m \in (from + 1)..to
        BY <3>2
      <4> QED
        BY <2>2, <4>1 DEF Covered
    <3> QED
      BY <3>1, <3>2
  <2>5. \A m \in 1..CursorOr0 : Covered(m)'
    BY <1>2, <2>3 DEF CoveredTo
  <2>6. \A m \in 1..cursor' : Covered(m)'
    <3>1. CASE to >= CursorOr0
      BY <1>1, <2>4, <3>1
    <3>2. CASE ~(to >= CursorOr0)
      <4>1. cursor' = CursorOr0
        BY <1>1, <1>2, <1>3, <1>7, <3>2, CursorFacts
      <4> QED
        BY <2>5, <4>1
    <3> QED
      BY <3>1, <3>2
  <2>7. CoveredTo(to)' /\ CoveredTo(CursorOr0)'
    BY <1>4, <2>4, <2>6 DEF CoveredTo
  <2> QED
    BY <1>4, <1>5, <2>2, <2>3, <2>7
<1> QED
  BY <1>6, <1>7


MochatInv == MochatTypes /\ SeenOnce /\ CursorCovered

LEMMA MochatStart == MochatInit => MochatInv
<1> SUFFICES ASSUME MochatInit PROVE MochatInv
  OBVIOUS
<1>1. posts \in Nat /\ base \in Nat
  BY MochatAssumption DEF MochatInit
<1>2. <<>> \in Seq(Nat) /\ <<>> \in Seq(Nat \ {0}) /\ Len(<<>>) = 0 /\ Distinct(<<>>) /\ ToSet(<<>>) = {}
  BY DEF Distinct, ToSet
<1>3. MochatTypes
  BY <1>1, <1>2, RequestFacts DEF MochatInit, MochatTypes
<1>4. SeenOnce
  BY <1>2 DEF MochatInit, SeenOnce
<1>5. ASSUME kind = "session" PROVE CursorsAgree
  <2>1. cold = (kind = "session") /\ cursor = Absent /\ cursorFile = Absent
    BY DEF MochatInit
  <2>2. cold = TRUE
    BY <1>5, <2>1, Zenon
  <2>3. cursorFile <= cursor
    BY <2>1 DEF Absent
  <2> QED
    BY <2>1, <2>2, <2>3 DEF CursorsAgree
<1>6. PushesFollow
  BY <1>1, <1>2 DEF MochatInit, PushesFollow, PostsSent, None
<1>7. CoveredTo(CursorOr0) /\ From(ack) /\ From(poll)
  BY DEF MochatInit, CoveredTo, CursorOr0, From, None
<1>8. CursorCovered
  BY <1>5, <1>6, <1>7 DEF CursorCovered, MochatInit
<1> QED
  BY <1>3, <1>4, <1>8 DEF MochatInv

\* The steps that hand over messages or drop them, and the others.
LEMMA OnceStep == MochatTypes /\ [MochatNext]_mochatVars => MochatTypes' /\ (SeenOnce => SeenOnce')
<1> SUFFICES ASSUME MochatTypes, [MochatNext]_mochatVars
             PROVE  MochatTypes' /\ (SeenOnce => SeenOnce')
  OBVIOUS
<1> DEFINE Result == MochatTypes' /\ (SeenOnce => SeenOnce')
<1>a. /\ InboxTypes
      /\ kind \in {"session", "panel"} /\ posts \in Nat /\ phase \in {"running", "stopping", "stopped"}
      /\ subscribed \in BOOLEAN /\ socketUp \in BOOLEAN /\ cold \in BOOLEAN
      /\ ack \in Requests /\ poll \in Requests
      /\ cursor \in Nat \cup {Absent} /\ cursorFile \in Nat \cup {Absent} /\ base \in Nat
      /\ pushes \in Seq(Nat \ {0}) /\ orphans \in Seq(Nat)
  BY TypesSplit
<1>b. heard \in Seq(Nat) /\ entries \in Seq(Nat) /\ seen \subseteq Nat /\ timer \in BOOLEAN
  BY <1>a DEF InboxTypes
<1>c. <<>> \in Seq(Nat) /\ <<>> \in Seq(Nat \ {0}) /\ CursorOr0 \in Nat
  BY <1>a, CursorFacts
<1>d. Distinct(<<>>) /\ ToSet(<<>>) = {}
  BY DEF Distinct, ToSet
<1>1. CASE Post
  <2>1. posts + 1 \in Nat \ {0}
    BY <1>a
  <2>2. Append(pushes, posts + 1) \in Seq(Nat \ {0})
    BY <1>a, <2>1, AppendProperties
  <2> QED
    BY <1>1, <1>a, <2>1, <2>2 DEF Post, workerVars, cursorVars, inboxVars, MochatTypes, InboxTypes, SeenOnce
<1>2. CASE Connect
  BY <1>2, <1>a, <1>c, RequestFacts
     DEF Connect, workerVars, serverVars, inboxVars, MochatTypes, InboxTypes, SeenOnce
<1>3. CASE ServerSubscribes
  <2>1. ack.from \in Nat
    BY <1>3, <1>a, RequestFacts DEF ServerSubscribes
  <2>2. AnswerEnd(ack.from) \in Nat
    BY <1>a, <2>1, MochatAssumption DEF AnswerEnd
  <2>3. ack' \in Requests
    BY <1>3, <1>a, <2>1, <2>2, RequestFacts DEF ServerSubscribes
  <2> QED
    BY <1>3, <1>a, <2>3 DEF ServerSubscribes, serverVars, workerVars, inboxVars, MochatTypes, InboxTypes, SeenOnce
<1>4. CASE AckArrives
  <2>1. ack.from \in Nat /\ ack.to \in Nat
    BY <1>4, <1>a, RequestFacts DEF AckArrives
  <2>2. phase' = phase
    BY <1>4 DEF AckArrives
  <2>3. /\ InboxTypes' /\ cold' \in BOOLEAN /\ cursor' \in Nat \cup {Absent} /\ cursorFile' = cursorFile
        /\ (SeenOnce => SeenOnce')
    <3>1. CASE kind = "session"
      <4>1. WatchPayload(ack.from, ack.to)
        BY <1>4, <3>1 DEF AckArrives
      <4> QED
        BY <2>1, <2>2, <4>1, PayloadFacts
    <3>2. CASE kind # "session"
      <4>1. UNCHANGED cursorVars /\ UNCHANGED inboxVars
        BY <1>4, <3>2 DEF AckArrives
      <4> QED
        BY <1>a, <2>2, <4>1 DEF cursorVars, inboxVars, InboxTypes, SeenOnce
    <3> QED
      BY <3>1, <3>2
  <2>4. /\ ack' \in Requests /\ poll' \in Requests
        /\ UNCHANGED <<kind, posts, base, phase, socketUp, subscribed, pushes, orphans>>
    BY <1>4, RequestFacts DEF AckArrives, NoFallback, serverVars
  <2> QED
    BY <1>a, <2>3, <2>4 DEF MochatTypes, InboxTypes
<1>5. CASE AckTimesOut
  <2>1. ack.state = "asked" => ack.from \in Nat
    BY <1>a, RequestFacts
  <2>2. ack' \in Requests
    BY <1>5, <2>1, RequestFacts DEF AckTimesOut
  <2> QED
    BY <1>5, <1>a, <2>2 DEF AckTimesOut, Fallback, serverVars, inboxVars, MochatTypes, InboxTypes, SeenOnce
<1>6. CASE PushArrives
  <2>1. Head(pushes) \in Nat \ {0} /\ Tail(pushes) \in Seq(Nat \ {0})
    BY <1>6, <1>a, QueueShape DEF PushArrives
  <2>2. phase' = phase /\ pushes' \in Seq(Nat \ {0})
    BY <1>6, <2>1 DEF PushArrives
  <2>3. UNCHANGED <<kind, posts, base, socketUp, subscribed, ack, poll, orphans>>
    BY <1>6 DEF PushArrives, serverVars, workerVars
  <2>4. CASE kind = "session"
    <3>1. WatchPayload(Head(pushes) - 1, Head(pushes)) /\ Head(pushes) - 1 \in Nat
      BY <1>6, <2>1, <2>4 DEF PushArrives
    <3>2. /\ InboxTypes' /\ cold' \in BOOLEAN /\ cursor' \in Nat \cup {Absent} /\ cursorFile' = cursorFile
          /\ (SeenOnce => SeenOnce')
      BY <2>1, <2>2, <3>1, PayloadFacts
    <3> QED
      BY <1>a, <2>2, <2>3, <3>2 DEF MochatTypes, InboxTypes
  <2>5. CASE kind # "session"
    <3>1. PanelEvent(Head(pushes)) /\ UNCHANGED cursorVars
      BY <1>6, <2>5 DEF PushArrives
    <3>2. InboxTypes' /\ (SeenOnce => SeenOnce')
      BY <1>a, <2>1, <2>2, <3>1, PanelFacts
    <3> QED
      BY <1>a, <2>2, <2>3, <3>1, <3>2 DEF MochatTypes, InboxTypes, cursorVars
  <2> QED
    BY <2>4, <2>5
<1>7. ASSUME NEW m \in Noticed, InboxNotice(m) PROVE Result
  <2>1. m \in Nat
    BY <1>7, MochatAssumption
  <2>2. <<m>> \in Seq(Nat) /\ Distinct(<<m>>) /\ SessionEvents(<<m>>) /\ phase' = phase
    BY <1>7, <2>1, SingleFacts DEF InboxNotice
  <2>3. InboxTypes' /\ (SeenOnce => SeenOnce')
    BY <1>a, <2>2, SessionFacts
  <2>4. UNCHANGED <<kind, posts, base, phase, socketVars, workerVars, cursorVars, orphans>>
    BY <1>7 DEF InboxNotice, serverVars
  <2> QED
    BY <1>a, <2>3, <2>4 DEF MochatTypes, InboxTypes, socketVars, workerVars, cursorVars
<1>8. CASE Disconnect
  <2>1. ack' \in Requests
    BY <1>8, <1>a, RequestFacts DEF Disconnect
  <2> QED
    BY <1>8, <1>a, <1>c, <2>1
       DEF Disconnect, Fallback, serverVars, inboxVars, MochatTypes, InboxTypes, SeenOnce
<1>9. CASE PollAsked
  <2>1. poll' \in Requests
    BY <1>9, <1>c, RequestFacts DEF PollAsked
  <2> QED
    BY <1>9, <1>a, <2>1
       DEF PollAsked, serverVars, socketVars, cursorVars, inboxVars, MochatTypes, InboxTypes, SeenOnce
<1>10. CASE PollAnswered
  <2>1. poll.from \in Nat
    BY <1>10, <1>a, RequestFacts DEF PollAnswered
  <2>a. AnswerEnd(poll.from) \in Nat /\ (IF posts > WatchLimit THEN posts - WatchLimit ELSE 0) \in Nat
    BY <1>a, <2>1, MochatAssumption DEF AnswerEnd
  <2>2. poll' \in Requests
    BY <1>10, <1>a, <2>1, <2>a, RequestFacts DEF PollAnswered
  <2> QED
    BY <1>10, <1>a, <2>2
       DEF PollAnswered, serverVars, socketVars, cursorVars, inboxVars, MochatTypes, InboxTypes, SeenOnce
<1>11. CASE PollHandled
  <2>1. poll.from \in Nat /\ poll.to \in Nat
    BY <1>11, <1>a, RequestFacts DEF PollHandled
  <2>2. UNCHANGED <<kind, posts, base, phase, socketVars, orphans>>
    BY <1>11 DEF PollHandled, serverVars
  <2>3. CASE kind = "session"
    <3>1. WatchPayload(poll.from, poll.to) /\ phase' = phase /\ poll' = None
      BY <1>11, <2>2, <2>3 DEF PollHandled
    <3>2. /\ InboxTypes' /\ cold' \in BOOLEAN /\ cursor' \in Nat \cup {Absent} /\ cursorFile' = cursorFile
          /\ (SeenOnce => SeenOnce')
      BY <2>1, <3>1, PayloadFacts
    <3> QED
      BY <1>a, <2>2, <3>1, <3>2, RequestFacts DEF MochatTypes, InboxTypes, socketVars
  <2>4. CASE kind # "session" /\ poll.from < poll.to
    <3>1. /\ PanelEvent(poll.from + 1) /\ UNCHANGED cursorVars /\ phase' = phase
          /\ poll' = Answered(poll.from + 1, poll.to) /\ poll.from + 1 \in Nat
      BY <1>11, <2>1, <2>2, <2>4 DEF PollHandled
    <3>2. InboxTypes' /\ (SeenOnce => SeenOnce') /\ poll' \in Requests
      BY <1>a, <2>1, <3>1, PanelFacts, RequestFacts
    <3> QED
      BY <1>a, <2>2, <3>1, <3>2 DEF MochatTypes, InboxTypes, cursorVars, socketVars
  <2>5. CASE kind # "session" /\ ~(poll.from < poll.to)
    <3>1. UNCHANGED cursorVars /\ UNCHANGED inboxVars /\ poll' = None
      BY <1>11, <2>5 DEF PollHandled
    <3> QED
      BY <1>a, <2>2, <3>1, RequestFacts DEF MochatTypes, InboxTypes, SeenOnce, cursorVars, socketVars, inboxVars
  <2> QED
    BY <2>3, <2>4, <2>5
<1>12. CASE DelayOver
  <2>1. /\ heard' = heard \o entries /\ entries' = <<>> /\ timer' = FALSE /\ seen' = seen
        /\ UNCHANGED <<kind, posts, base, phase, socketVars, workerVars, cursorVars, orphans>>
    BY <1>12 DEF DelayOver, Dispatched, serverVars
  <2>2. /\ heard' \in Seq(Nat) /\ ToSet(heard') = ToSet(heard) \cup ToSet(entries)
        /\ Distinct(heard) /\ Distinct(entries) /\ ToSet(heard) \cap ToSet(entries) = {} => Distinct(heard')
    BY <1>b, <2>1, Joined
  <2>3. MochatTypes'
    BY <1>a, <1>b, <1>c, <2>1, <2>2 DEF MochatTypes, socketVars, workerVars, cursorVars
  <2>4. SeenOnce => SeenOnce'
    BY <1>d, <2>1, <2>2 DEF SeenOnce
  <2> QED
    BY <2>3, <2>4
<1>13. CASE OrphanDelayOver
  BY <1>13, <1>a, <1>c
     DEF OrphanDelayOver, serverVars, socketVars, workerVars, cursorVars, MochatTypes, InboxTypes, SeenOnce
<1>14. CASE SaveCursor
  BY <1>14, <1>a
     DEF SaveCursor, serverVars, socketVars, workerVars, inboxVars, MochatTypes, InboxTypes, SeenOnce
<1>15. CASE StopBegins
  BY <1>15, <1>a, <1>c, RequestFacts
     DEF StopBegins, NoFallback, serverVars, socketVars, cursorVars, MochatTypes, InboxTypes, SeenOnce
<1>16. CASE StopEnds
  BY <1>16, <1>a, <1>c, RequestFacts
     DEF StopEnds, serverVars, workerVars, inboxVars, MochatTypes, InboxTypes, SeenOnce
<1>17. CASE StartAgain
  <2>1. orphans \o entries \in Seq(Nat)
    BY <1>a, <1>b, Joined
  <2>2. /\ UNCHANGED <<kind, posts, base, cursorFile>> /\ phase' = "running"
        /\ socketUp' = FALSE /\ subscribed' = FALSE /\ pushes' = <<>> /\ ack' = None /\ poll' = None
        /\ cursor' = cursorFile /\ cold' \in BOOLEAN
        /\ seen' = {} /\ entries' = <<>> /\ timer' = FALSE /\ heard' = <<>>
        /\ orphans' \in {orphans \o entries, <<>>}
    BY <1>17 DEF StartAgain, serverVars
  <2>3. MochatTypes'
    BY <1>a, <1>c, <2>1, <2>2, RequestFacts DEF MochatTypes
  <2>4. SeenOnce'
    BY <1>d, <2>2 DEF SeenOnce
  <2> QED
    BY <2>3, <2>4
<1>18. CASE OldCallTimesOut
  BY <1>18, <1>a DEF OldCallTimesOut, Fallback, serverVars, cursorVars, inboxVars, MochatTypes, InboxTypes, SeenOnce
<1>19. CASE UNCHANGED mochatVars
  BY <1>19, <1>a DEF mochatVars, MochatTypes, InboxTypes, SeenOnce
<1> QED
  BY <1>1, <1>2, <1>3, <1>4, <1>5, <1>6, <1>7, <1>8, <1>9, <1>10, <1>11, <1>12, <1>13, <1>14, <1>15,
     <1>16, <1>17, <1>18, <1>19 DEF MochatNext


\* What is covered stays so as long as nothing is taken back.
LEMMA CoverGrows ==
  ASSUME base \in Nat, base' = base, everHeard \subseteq everHeard', missed \subseteq missed'
  PROVE  /\ \A m \in Nat : Covered(m) => Covered(m)'
         /\ \A n \in Nat : CoveredTo(n) => \A m \in 1..n : Covered(m)'
BY DEF Covered, CoveredTo

LEMMA CursorStep ==
  MochatTypes /\ CursorCovered /\ [MochatNext]_mochatVars => CursorCovered'
<1> SUFFICES ASSUME MochatTypes, CursorCovered, [MochatNext]_mochatVars, kind' = "session"
             PROVE  /\ CursorsAgree' /\ PushesFollow'
                    /\ seen' \subseteq everHeard'
                    /\ CoveredTo(CursorOr0)'
                    /\ From(ack)' /\ From(poll)'
  BY DEF CursorCovered
<1> DEFINE Result == /\ CursorsAgree' /\ PushesFollow'
                     /\ seen' \subseteq everHeard'
                     /\ CoveredTo(CursorOr0)'
                     /\ From(ack)' /\ From(poll)'
<1>a. kind = "session"
  BY DEF MochatNext, Post, Connect, ServerSubscribes, AckArrives, AckTimesOut, OldCallTimesOut, PushArrives, InboxNotice, Disconnect,
         PollAsked, PollAnswered, PollHandled, DelayOver, OrphanDelayOver, SaveCursor, StopBegins, StopEnds,
         StartAgain, serverVars, mochatVars
<1>b. /\ CursorsAgree /\ PushesFollow /\ seen \subseteq everHeard
      /\ CoveredTo(CursorOr0) /\ From(ack) /\ From(poll)
  BY <1>a DEF CursorCovered
<1>c. /\ posts \in Nat /\ subscribed \in BOOLEAN /\ cold \in BOOLEAN /\ socketUp \in BOOLEAN
      /\ ack \in Requests /\ poll \in Requests
      /\ cursor \in Nat \cup {Absent} /\ cursorFile \in Nat \cup {Absent} /\ base \in Nat
      /\ pushes \in Seq(Nat \ {0}) /\ CursorOr0 \in Nat
      /\ Len(pushes) \in Nat
  BY CursorFacts, LenProperties DEF MochatTypes
<1>d. PostsSent \in Nat
  BY <1>b DEF PushesFollow
\* What steps need that leave the cursor, or the pushes, alone.
<1>e. ASSUME UNCHANGED <<cursor, cursorFile, cold, base>>, everHeard \subseteq everHeard', missed \subseteq missed'
      PROVE  /\ CursorsAgree' /\ CoveredTo(CursorOr0)' /\ CursorOr0' = CursorOr0
             /\ \A m \in Nat : Covered(m) => Covered(m)'
  <2>1. CursorOr0' = CursorOr0
    BY <1>e DEF CursorOr0
  <2>2. \A m \in Nat : Covered(m) => Covered(m)'
    BY <1>c, <1>e, CoverGrows
  <2> QED
    BY <1>b, <1>c, <1>e, <2>1, <2>2 DEF CursorsAgree, CoveredTo
<1>f. ASSUME UNCHANGED <<posts, pushes, subscribed, socketUp, ack>>, \A m \in Nat : Covered(m) => Covered(m)'
      PROVE  PushesFollow'
  <2>1. PostsSent' = PostsSent
    BY <1>f DEF PostsSent
  <2>2. CoveredTo(PostsSent) => CoveredTo(PostsSent)'
    BY <1>d, <1>f, <2>1 DEF CoveredTo
  <2>3. ASSUME ack.state = "answered", \A m \in (ack.to + 1)..PostsSent : Covered(m)
        PROVE  \A m \in (ack.to + 1)..PostsSent : Covered(m)'
    BY <1>c, <1>d, <1>f, <2>3, RequestFacts
  <2> QED
    BY <1>b, <1>f, <2>1, <2>2, <2>3 DEF PushesFollow
<1>g. ASSUME UNCHANGED socketVars, UNCHANGED <<posts, poll, cursor, cursorFile, cold, base, missed>>, everHeard \subseteq everHeard',
             seen' \subseteq everHeard'
      PROVE  Result
  <2>1. UNCHANGED <<pushes, subscribed, socketUp, ack>>
    BY <1>g DEF socketVars
  <2>2. From(ack)' /\ From(poll)'
    BY <1>b, <1>e, <1>g, <2>1 DEF From
  <2> QED
    BY <1>e, <1>f, <1>g, <2>1, <2>2
<1>1. CASE Post
  <2>1. /\ UNCHANGED <<socketUp, subscribed, ack, poll, cursor, cursorFile, cold, base, seen, everHeard, missed>>
        /\ posts' = posts + 1
        /\ pushes' = IF subscribed THEN Append(pushes, posts + 1) ELSE pushes
    BY <1>1 DEF Post, workerVars, cursorVars, inboxVars
  <2>2. posts + 1 \in Nat \ {0}
    BY <1>c
  <2>3. /\ CursorsAgree' /\ CoveredTo(CursorOr0)' /\ CursorOr0' = CursorOr0
        /\ \A m \in Nat : Covered(m) => Covered(m)'
    BY <1>e, <2>1
  <2>4. CASE subscribed
    <3>1. /\ Len(pushes') = Len(pushes) + 1
          /\ \A i \in 1..Len(pushes) : pushes'[i] = pushes[i]
          /\ pushes'[Len(pushes) + 1] = posts + 1
      BY <1>c, <2>1, <2>2, <2>4, AppendProperties
    <3>2. PostsSent' = PostsSent
      BY <1>c, <2>1, <3>1 DEF PostsSent
    <3>3. ASSUME NEW i \in 1..Len(pushes') PROVE pushes'[i] = PostsSent' + i
      <4>1. CASE i = Len(pushes) + 1
        BY <1>c, <3>1, <3>2, <4>1 DEF PostsSent
      <4>2. CASE i # Len(pushes) + 1
        <5>1. i \in 1..Len(pushes)
          BY <1>c, <3>1, <4>2
        <5> QED
          BY <1>b, <3>1, <3>2, <5>1 DEF PushesFollow
      <4> QED
        BY <4>1, <4>2
    <3>4. CoveredTo(PostsSent) => CoveredTo(PostsSent)'
      BY <1>d, <2>3, <3>2 DEF CoveredTo
    <3>a. ASSUME ack.state = "answered", \A m \in (ack.to + 1)..PostsSent : Covered(m)
          PROVE  \A m \in (ack.to + 1)..PostsSent : Covered(m)'
      BY <1>c, <1>d, <2>3, <3>a, RequestFacts
    <3>5. PushesFollow'
      BY <1>b, <2>1, <2>4, <3>2, <3>3, <3>4, <3>a DEF PushesFollow
    <3> QED
      BY <1>b, <2>1, <2>3, <3>5 DEF From
  <2>5. CASE ~subscribed
    <3>1. pushes' = <<>> /\ Len(<<>>) = 0
      BY <1>b, <2>1, <2>5 DEF PushesFollow
    <3>2. PostsSent' = posts + 1
      <4>1. PostsSent' = posts' - Len(pushes') /\ posts' = posts + 1 /\ Len(pushes') = 0
        BY <2>1, <3>1 DEF PostsSent
      <4> QED
        BY <1>c, <4>1
    <3>3. PushesFollow'
      BY <1>b, <1>c, <2>1, <2>5, <3>1, <3>2 DEF PushesFollow
    <3> QED
      BY <1>b, <2>1, <2>3, <3>3 DEF From
  <2> QED
    BY <1>c, <2>4, <2>5
<1>2. CASE Connect
  <2>1. /\ ~socketUp /\ socketUp' = TRUE
        /\ cold' = (cold \/ cursor = Absent) /\ ack' = Asked(CursorOr0)
        /\ UNCHANGED <<subscribed, poll, posts, pushes, cursor, cursorFile, base, seen, everHeard, missed>>
    BY <1>2, <1>a DEF Connect, serverVars, inboxVars, workerVars
  <2>2. cold' = cold
    <3>1. cold <=> cursor = Absent
      BY <1>b DEF CursorsAgree
    <3> QED
      BY <1>c, <2>1, <3>1
  <2>3. /\ CursorsAgree' /\ CoveredTo(CursorOr0)' /\ CursorOr0' = CursorOr0
    BY <1>e, <2>1, <2>2
  <2>4. ~subscribed /\ PostsSent' = PostsSent /\ ack'.state = "asked" /\ ack'.from = CursorOr0
    BY <1>b, <2>1 DEF PushesFollow, PostsSent, Asked
  <2>5. PushesFollow'
    BY <1>b, <2>1, <2>4 DEF PushesFollow
  <2>6. From(ack)' /\ From(poll)'
    BY <1>b, <1>c, <2>1, <2>3, <2>4 DEF From
  <2> QED
    BY <1>b, <2>1, <2>3, <2>5, <2>6
<1>3. CASE ServerSubscribes
  <2>1. /\ socketUp /\ subscribed' = TRUE
        /\ UNCHANGED <<socketUp, posts, pushes, poll, cursor, cursorFile, cold, base, seen, everHeard>>
        /\ ack.state \in {"asked", "late"} /\ ack.from \in Nat
    BY <1>3, <1>c, RequestFacts DEF ServerSubscribes, serverVars, workerVars, inboxVars
  <2>a. PICK end \in Nat : end = AnswerEnd(ack.from) /\ end <= posts
    BY <1>a, <1>c, <2>1, MochatAssumption DEF AnswerEnd
  <2>2. /\ ack.state = "asked" => ack' = Answered(ack.from, end) /\ missed' = missed \cup (end + 1)..posts
        /\ ack.state = "late" => ack' = None /\ missed' = missed \cup (ack.from + 1)..posts
    BY <1>3, <1>a, <2>a DEF ServerSubscribes, After
  <2>3. missed \subseteq missed'
    BY <2>1, <2>2
  <2>4. /\ CursorsAgree' /\ CoveredTo(CursorOr0)' /\ CursorOr0' = CursorOr0
        /\ \A m \in Nat : Covered(m) => Covered(m)'
    BY <1>e, <2>1, <2>3
  <2>5. ~subscribed /\ pushes = <<>> /\ PostsSent = posts /\ PostsSent' = posts
    BY <1>b, <1>c, <2>1 DEF PushesFollow, PostsSent
  <2>6. ack.from <= CursorOr0
    BY <1>b, <2>1 DEF From
  <2>7. CASE ack.state = "asked"
    <3>1. ack'.state = "answered" /\ ack'.from = ack.from /\ ack'.to = end
      BY <2>2, <2>7 DEF Answered
    <3>a. \A m \in (end + 1)..posts : Covered(m)'
      BY <2>2, <2>7 DEF Covered
    <3>2. PushesFollow'
      BY <1>b, <1>c, <2>1, <2>5, <2>a, <3>1, <3>a DEF PushesFollow
    <3> QED
      BY <1>b, <2>1, <2>4, <2>6, <3>1, <3>2 DEF From
  <2>8. CASE ack.state = "late"
    <3>1. ack'.state = "none"
      BY <2>2, <2>8 DEF None
    <3>2. ASSUME NEW m \in 1..posts PROVE Covered(m)'
      <4>1. CASE m <= ack.from
        BY <1>b, <1>c, <2>1, <2>4, <2>6, <4>1 DEF CoveredTo
      <4>2. CASE ~(m <= ack.from)
        <5>1. m \in (ack.from + 1)..posts
          BY <2>1, <4>2
        <5> QED
          BY <2>2, <2>8, <5>1 DEF Covered
      <4> QED
        BY <4>1, <4>2
    <3>3. CoveredTo(PostsSent)'
      BY <2>5, <3>2 DEF CoveredTo
    <3>4. PushesFollow'
      BY <1>b, <2>1, <2>5, <3>1, <3>3 DEF PushesFollow
    <3> QED
      BY <1>b, <2>1, <2>4, <3>1, <3>4 DEF From
  <2> QED
    BY <2>1, <2>7, <2>8
<1>4. CASE AckArrives
  <2>1. /\ socketUp /\ ack.state = "answered" /\ ack' = None /\ WatchPayload(ack.from, ack.to)
        /\ poll' = None /\ UNCHANGED <<posts, base, socketUp, subscribed, pushes>>
        /\ ack.from \in Nat /\ ack.to \in Nat
    BY <1>4, <1>a, <1>c, RequestFacts DEF AckArrives, NoFallback, serverVars
  <2>2. PICK from \in Nat, to \in Nat : from = ack.from /\ to = ack.to
    BY <2>1
  <2>3. WatchPayload(from, to) /\ from <= CursorOr0
    BY <1>b, <2>1, <2>2 DEF From
  <2>4. CoveredTo(from)
    BY <1>b, <1>c, <2>3 DEF CoveredTo
  <2>5. /\ CursorsAgree' /\ seen' \subseteq everHeard'
        /\ CoveredTo(to)' /\ CoveredTo(CursorOr0)'
        /\ \A m \in Nat : Covered(m) => Covered(m)'
    BY <1>a, <1>b, <2>1, <2>3, <2>4, PayloadCovers
  <2>6. PostsSent' = PostsSent /\ ack'.state = "none" /\ poll'.state = "none"
    BY <2>1 DEF PostsSent, None
  <2>7. subscribed => to <= PostsSent /\ \A m \in (to + 1)..PostsSent : Covered(m)
    BY <1>b, <2>1, <2>2 DEF PushesFollow
  <2>8. ASSUME subscribed PROVE CoveredTo(PostsSent)'
    <3>1. \A m \in 1..to : Covered(m)'
      BY <2>5 DEF CoveredTo
    <3>2. \A m \in 1..PostsSent : m \in 1..to \/ m \in (to + 1)..PostsSent
      BY <1>d, <2>7, <2>8
    <3>3. \A m \in 1..PostsSent : m \in Nat
      OBVIOUS
    <3> QED
      BY <2>5, <2>6, <2>7, <2>8, <3>1, <3>2, <3>3 DEF CoveredTo
  <2>9. PushesFollow'
    BY <1>b, <2>1, <2>6, <2>8 DEF PushesFollow
  <2> QED
    BY <2>5, <2>6, <2>9 DEF From
<1>5. CASE AckTimesOut
  <2>1. /\ UNCHANGED <<posts, socketUp, subscribed, pushes, poll, cursor, cursorFile, cold, base, seen, everHeard>>
        /\ ack.state \in {"asked", "answered"}
        /\ ack.state = "asked" => ack' \in {None, Late(ack.from)} /\ missed' = missed
        /\ ack.state = "answered" => ack' = None /\ missed' = missed \cup (ack.from + 1)..ack.to
        /\ ack.from \in Nat
    BY <1>5, <1>a, <1>c, RequestFacts DEF AckTimesOut, Fallback, After, serverVars, inboxVars
  <2>2. missed \subseteq missed'
    BY <2>1
  <2>3. /\ CursorsAgree' /\ CoveredTo(CursorOr0)' /\ CursorOr0' = CursorOr0
        /\ \A m \in Nat : Covered(m) => Covered(m)'
    BY <1>e, <2>1, <2>2
  <2>4. PostsSent' = PostsSent
    BY <2>1 DEF PostsSent
  <2>5. ack.from <= CursorOr0
    BY <1>b, <2>1 DEF From
  <2>6. CASE ack.state = "asked"
    <3>1. ~subscribed /\ pushes = <<>>
      BY <1>b, <2>6 DEF PushesFollow
    <3>2. ack'.state \in {"none", "late"} /\ (ack'.state = "late" => ack'.from = ack.from)
      BY <2>1, <2>6 DEF None, Late
    <3>3. PushesFollow'
      BY <1>b, <2>1, <2>4, <3>1 DEF PushesFollow
    <3> QED
      BY <1>b, <2>1, <2>3, <2>5, <3>2, <3>3 DEF From
  <2>7. CASE ack.state = "answered"
    <3>1. ack'.state = "none" /\ ack.to \in Nat
      BY <1>c, <2>1, <2>7, RequestFacts DEF None
    <3>2. ASSUME NEW m \in 1..ack.to PROVE Covered(m)'
      <4>1. CASE m <= ack.from
        BY <1>b, <1>c, <2>1, <2>3, <2>5, <4>1 DEF CoveredTo
      <4>2. CASE ~(m <= ack.from)
        <5>1. m \in (ack.from + 1)..ack.to
          BY <2>1, <3>1, <4>2
        <5> QED
          BY <2>1, <2>7, <5>1 DEF Covered
      <4> QED
        BY <4>1, <4>2
    <3>3. subscribed => ack.to <= PostsSent /\ \A m \in (ack.to + 1)..PostsSent : Covered(m)
      BY <1>b, <2>7 DEF PushesFollow
    <3>4. ASSUME subscribed PROVE CoveredTo(PostsSent)'
      <4>1. \A m \in 1..PostsSent : m \in 1..ack.to \/ m \in (ack.to + 1)..PostsSent
        BY <1>d, <3>1, <3>3, <3>4
      <4>2. \A m \in 1..PostsSent : m \in Nat
        OBVIOUS
      <4> QED
        BY <2>3, <2>4, <3>2, <3>3, <3>4, <4>1, <4>2 DEF CoveredTo
    <3>5. PushesFollow'
      BY <1>b, <2>1, <2>4, <3>1, <3>4 DEF PushesFollow
    <3> QED
      BY <1>b, <2>1, <2>3, <3>1, <3>5 DEF From
  <2> QED
    BY <2>1, <2>6, <2>7
<1>6. CASE PushArrives
  <2>1. /\ pushes # <<>> /\ ack = None /\ pushes' = Tail(pushes) /\ WatchPayload(Head(pushes) - 1, Head(pushes))
        /\ UNCHANGED <<posts, base, socketUp, subscribed, ack, poll>>
    BY <1>6, <1>a DEF PushArrives, serverVars, workerVars
  <2>2. /\ Len(pushes) > 0 /\ Head(pushes) = pushes[1] /\ pushes[1] = PostsSent + 1
        /\ Tail(pushes) \in Seq(Nat \ {0}) /\ Len(Tail(pushes)) = Len(pushes) - 1
        /\ \A i \in 1..(Len(pushes) - 1) : Tail(pushes)[i] = pushes[i + 1]
    <3>1. Len(pushes) > 0 /\ Head(pushes) = pushes[1]
      BY <1>c, <2>1, QueueShape
    <3>2. Tail(pushes) \in Seq(Nat \ {0}) /\ Len(Tail(pushes)) = Len(pushes) - 1
          /\ \A i \in 1..Len(Tail(pushes)) : Tail(pushes)[i] = pushes[i + 1]
      BY <1>c, <2>1, HeadTailProperties
    <3>3. 1 \in 1..Len(pushes)
      BY <1>c, <3>1
    <3> QED
      BY <1>b, <3>1, <3>2, <3>3 DEF PushesFollow
  <2>3. PICK from \in Nat, to \in Nat : from = PostsSent /\ to = PostsSent + 1
    BY <1>d
  <2>4. WatchPayload(from, to)
    <3>1. Head(pushes) = to /\ Head(pushes) - 1 = from
      BY <1>d, <2>2, <2>3
    <3> QED
      BY <2>1, <3>1
  <2>5. subscribed /\ CoveredTo(from)
    BY <1>b, <2>1, <2>3 DEF PushesFollow, None
  <2>6. /\ CursorsAgree' /\ seen' \subseteq everHeard'
        /\ CoveredTo(to)' /\ CoveredTo(CursorOr0)'
        /\ CursorOr0 <= CursorOr0' /\ CursorOr0' \in Nat
    BY <1>a, <1>b, <2>1, <2>4, <2>5, PayloadCovers
  <2>7. PostsSent' = to
    <3>1. PostsSent' = posts' - Len(pushes') /\ posts' = posts /\ Len(pushes') = Len(pushes) - 1
      BY <2>1, <2>2 DEF PostsSent
    <3> QED
      BY <1>c, <2>3, <3>1 DEF PostsSent
  <2>8. ASSUME NEW i \in 1..Len(pushes') PROVE pushes'[i] = PostsSent' + i
    <3>1. i \in 1..(Len(pushes) - 1) /\ i + 1 \in 1..Len(pushes)
      BY <1>c, <2>1, <2>2
    <3>2. pushes'[i] = pushes[i + 1] /\ pushes[i + 1] = PostsSent + (i + 1)
      BY <1>b, <2>1, <2>2, <3>1 DEF PushesFollow
    <3> QED
      BY <1>d, <2>3, <2>7, <3>1, <3>2
  <2>9. PushesFollow'
    BY <1>b, <2>1, <2>3, <2>5, <2>6, <2>7, <2>8 DEF PushesFollow, CoveredTo, None
  <2>10. From(ack)' /\ From(poll)'
    <3>1. ack'.state = "none"
      BY <2>1 DEF None
    <3>2. poll.state # "none" => poll.from \in Nat /\ poll.from <= CursorOr0
      BY <1>b, <1>c, RequestFacts DEF From
    <3> QED
      BY <1>c, <2>1, <2>6, <3>1, <3>2 DEF From
  <2> QED
    BY <2>6, <2>9, <2>10
<1>7. ASSUME NEW m \in Noticed, InboxNotice(m) PROVE Result
  <2>1. m \in Nat
    BY <1>7, MochatAssumption
  <2>2. <<m>> \in Seq(Nat) /\ Distinct(<<m>>) /\ SessionEvents(<<m>>)
    BY <1>7, <2>1, SingleFacts DEF InboxNotice
  <2>3. seen' \subseteq everHeard' /\ everHeard \subseteq everHeard'
    BY <1>b, <2>2, SessionFacts, TypesSplit
  <2> QED
    BY <1>7, <1>g, <2>3 DEF InboxNotice, serverVars, workerVars, cursorVars
<1>8. CASE Disconnect
  <2>1. /\ subscribed' = FALSE /\ pushes' = <<>> /\ socketUp' = FALSE
        /\ ack' = None /\ missed' = {m \in missed : m <= CursorOr0}
        /\ UNCHANGED <<posts, poll, cursor, cursorFile, cold, base, seen, everHeard>>
    BY <1>8 DEF Disconnect, Fallback, StillMissed, serverVars, inboxVars
  <2>a. CursorOr0' = CursorOr0
    BY <2>1 DEF CursorOr0
  <2>2. CursorsAgree' /\ CoveredTo(CursorOr0)' /\ CursorOr0' = CursorOr0
    BY <1>b, <1>c, <2>1, <2>a DEF CursorsAgree, CoveredTo, Covered
  <2>3. Len(pushes') = 0 /\ PostsSent' = posts
    <3>1. Len(pushes') = 0 /\ PostsSent' = posts' - Len(pushes')
      BY <2>1 DEF PostsSent
    <3> QED
      BY <1>c, <2>1, <3>1
  <2>4. PushesFollow'
    BY <1>c, <2>1, <2>3 DEF PushesFollow
  <2>5. From(ack)' /\ From(poll)'
    BY <1>b, <2>1, <2>2 DEF From, None
  <2> QED
    BY <1>b, <2>1, <2>2, <2>4, <2>5
<1>9. CASE PollAsked
  <2>1. /\ poll' = Asked(CursorOr0)
        /\ UNCHANGED <<posts, pushes, subscribed, socketUp, ack, cursor, cursorFile, cold, base, seen, everHeard, missed>>
    BY <1>9, <1>a DEF PollAsked, serverVars, socketVars, cursorVars, inboxVars
  <2>2. /\ CursorsAgree' /\ CoveredTo(CursorOr0)' /\ CursorOr0' = CursorOr0
        /\ \A m \in Nat : Covered(m) => Covered(m)'
    BY <1>e, <2>1
  <2>3. poll'.from = CursorOr0
    BY <2>1 DEF Asked
  <2> QED
    BY <1>b, <1>c, <1>f, <2>1, <2>2, <2>3 DEF From
<1>10. CASE PollAnswered
  <2>1. /\ poll' \in {None, Answered(poll.from, AnswerEnd(poll.from))} /\ poll.state = "asked"
        /\ UNCHANGED <<posts, pushes, subscribed, socketUp, ack, cursor, cursorFile, cold, base, seen, everHeard, missed>>
    BY <1>10, <1>a DEF PollAnswered, serverVars, socketVars, cursorVars, inboxVars
  <2>2. /\ CursorsAgree' /\ CoveredTo(CursorOr0)' /\ CursorOr0' = CursorOr0
        /\ \A m \in Nat : Covered(m) => Covered(m)'
    BY <1>e, <2>1
  <2>3. poll'.state # "none" => poll'.from = poll.from
    BY <2>1 DEF Answered, None
  <2> QED
    BY <1>b, <1>c, <1>f, <2>1, <2>2, <2>3 DEF From
<1>11. CASE PollHandled
  <2>1. /\ poll.state = "answered" /\ poll' = None /\ WatchPayload(poll.from, poll.to)
        /\ UNCHANGED <<posts, base, socketUp, subscribed, pushes, ack>>
        /\ poll.from \in Nat /\ poll.to \in Nat
    BY <1>11, <1>a, <1>c, RequestFacts DEF PollHandled, serverVars, socketVars
  <2>2. PICK from \in Nat, to \in Nat : from = poll.from /\ to = poll.to
    BY <2>1
  <2>3. WatchPayload(from, to) /\ from <= CursorOr0
    BY <1>b, <2>1, <2>2 DEF From
  <2>4. CoveredTo(from)
    BY <1>b, <1>c, <2>3 DEF CoveredTo
  <2>5. /\ CursorsAgree' /\ seen' \subseteq everHeard'
        /\ CoveredTo(CursorOr0)' /\ CursorOr0 <= CursorOr0' /\ CursorOr0' \in Nat
        /\ \A m \in Nat : Covered(m) => Covered(m)'
    BY <1>a, <1>b, <2>1, <2>3, <2>4, PayloadCovers
  <2>6. PushesFollow'
    BY <1>f, <2>1, <2>5
  <2>7. From(ack)' /\ From(poll)'
    <3>1. poll'.state = "none"
      BY <2>1 DEF None
    <3>2. ack.state # "none" => ack.from \in Nat /\ ack.from <= CursorOr0
      BY <1>b, <1>c, RequestFacts DEF From
    <3> QED
      BY <1>c, <2>1, <2>5, <3>1, <3>2 DEF From
  <2> QED
    BY <2>5, <2>6, <2>7
<1>12. CASE DelayOver
  BY <1>12, <1>b, <1>g DEF DelayOver, Dispatched, serverVars, workerVars, cursorVars
<1>13. CASE OrphanDelayOver
  BY <1>13, <1>b, <1>g DEF OrphanDelayOver, serverVars, workerVars, cursorVars
<1>14. CASE SaveCursor
  <2>1. /\ cursorFile' = cursor
        /\ UNCHANGED <<posts, pushes, subscribed, socketUp, ack, poll, cursor, cold, base, seen, everHeard, missed>>
    BY <1>14 DEF SaveCursor, serverVars, socketVars, workerVars, inboxVars
  <2>2. CursorOr0' = CursorOr0 /\ \A m \in Nat : Covered(m) => Covered(m)'
    BY <1>c, <2>1, CoverGrows DEF CursorOr0
  <2>3. cursorFile' <= cursor'
    BY <1>c, <2>1 DEF Absent
  <2>4. CursorsAgree'
    BY <1>b, <2>1, <2>3 DEF CursorsAgree
  <2>5. CoveredTo(CursorOr0)'
    BY <1>b, <1>c, <2>2 DEF CoveredTo
  <2> QED
    BY <1>b, <1>f, <2>1, <2>2, <2>4, <2>5 DEF From
<1>15. CASE StopBegins
  <2>1. /\ poll' = None
        /\ UNCHANGED <<posts, pushes, subscribed, socketUp, ack, cursor, cursorFile, cold, base, seen, everHeard, missed>>
    BY <1>15 DEF StopBegins, NoFallback, serverVars, socketVars, cursorVars
  <2>2. /\ CursorsAgree' /\ CoveredTo(CursorOr0)' /\ CursorOr0' = CursorOr0
        /\ \A m \in Nat : Covered(m) => Covered(m)'
    BY <1>e, <2>1
  <2> QED
    BY <1>b, <1>f, <2>1, <2>2 DEF From, None
<1>16. CASE StopEnds
  <2>1. /\ socketUp' = FALSE /\ subscribed' = FALSE /\ pushes' = <<>> /\ ack' = None
        /\ cursorFile' = cursor /\ missed' = {m \in missed : m <= CursorOr0}
        /\ UNCHANGED <<posts, poll, cursor, cold, base, seen, everHeard>>
    BY <1>16 DEF StopEnds, StillMissed, serverVars, workerVars, inboxVars
  <2>2. CursorOr0' = CursorOr0
    BY <2>1 DEF CursorOr0
  <2>3. cursorFile' <= cursor'
    BY <1>c, <2>1 DEF Absent
  <2>4. CursorsAgree'
    BY <1>b, <2>1, <2>3 DEF CursorsAgree
  <2>5. CoveredTo(CursorOr0)'
    BY <1>b, <1>c, <2>1, <2>2 DEF CoveredTo, Covered
  <2>6. Len(pushes') = 0 /\ PostsSent' = posts
    <3>1. Len(pushes') = 0 /\ PostsSent' = posts' - Len(pushes')
      BY <2>1 DEF PostsSent
    <3> QED
      BY <1>c, <2>1, <3>1
  <2>7. PushesFollow'
    BY <1>c, <2>1, <2>6 DEF PushesFollow
  <2> QED
    BY <1>b, <2>1, <2>2, <2>4, <2>5, <2>7 DEF From, None
<1>17. CASE StartAgain
  <2>1. /\ socketUp' = FALSE /\ subscribed' = FALSE /\ pushes' = <<>> /\ ack' = None /\ poll' = None
        /\ cursor' = cursorFile /\ cold' = (kind = "session" /\ cursorFile = Absent)
        /\ missed' = {m \in missed : m <= (IF cursorFile = Absent THEN 0 ELSE cursorFile)}
        /\ seen' = {} /\ UNCHANGED <<posts, base, cursorFile, everHeard>>
    BY <1>17 DEF StartAgain, StillMissed, serverVars
  <2>2. cold' <=> cursorFile = Absent
    BY <1>a, <2>1
  <2>3. cursorFile <= cursor /\ (cursorFile # Absent => cursor # Absent)
    BY <1>b, <1>c DEF CursorsAgree, Absent
  <2>4. cursorFile' <= cursor'
    BY <1>c, <2>1 DEF Absent
  <2>5. CursorsAgree'
    BY <2>1, <2>2, <2>3, <2>4 DEF CursorsAgree
  <2>6. CoveredTo(CursorOr0)'
    <3>1. CASE cursorFile = Absent
      <4>1. CursorOr0' = 0
        BY <2>1, <3>1 DEF CursorOr0
      <4> QED
        BY <4>1 DEF CoveredTo
    <3>2. CASE cursorFile # Absent
      <4>1. CursorOr0' = cursorFile /\ cursorFile \in Nat /\ CursorOr0 = cursor /\ cursorFile <= CursorOr0
        BY <1>c, <2>1, <2>3, <3>2, CursorFacts DEF CursorOr0
      <4>2. missed' = {m \in missed : m <= cursorFile}
        BY <2>1, <3>2
      <4>3. \A m \in 1..cursorFile : Covered(m) /\ (Covered(m) => Covered(m)')
        BY <1>b, <1>c, <2>1, <4>1, <4>2 DEF CoveredTo, Covered
      <4> QED
        BY <4>1, <4>3 DEF CoveredTo
    <3> QED
      BY <3>1, <3>2
  <2>7. Len(pushes') = 0 /\ PostsSent' = posts
    <3>1. Len(pushes') = 0 /\ PostsSent' = posts' - Len(pushes')
      BY <2>1 DEF PostsSent
    <3> QED
      BY <1>c, <2>1, <3>1
  <2>8. PushesFollow'
    BY <1>c, <2>1, <2>7 DEF PushesFollow
  <2> QED
    BY <2>1, <2>5, <2>6, <2>8 DEF From, None
<1>18. CASE OldCallTimesOut
  <2>1. /\ UNCHANGED <<posts, pushes, subscribed, socketUp, ack, poll, cursor, cursorFile, cold, base, seen, everHeard, missed>>
    BY <1>18 DEF OldCallTimesOut, Fallback, serverVars, cursorVars, inboxVars
  <2>2. /\ CursorsAgree' /\ CoveredTo(CursorOr0)' /\ CursorOr0' = CursorOr0
        /\ \A m \in Nat : Covered(m) => Covered(m)'
    BY <1>e, <2>1
  <2> QED
    BY <1>b, <1>f, <2>1, <2>2 DEF From
<1>19. CASE UNCHANGED mochatVars
  BY <1>19, <1>b, <1>g DEF mochatVars, socketVars
<1> QED
  BY <1>1, <1>2, <1>3, <1>4, <1>5, <1>6, <1>7, <1>8, <1>9, <1>10, <1>11, <1>12, <1>13, <1>14, <1>15,
     <1>16, <1>17, <1>18, <1>19 DEF MochatNext

\* How often a message stands in a sequence without repetitions.
LEMMA Occurs ==
  ASSUME NEW s \in Seq(Nat), Distinct(s), NEW m
  PROVE  Cardinality({i \in DOMAIN s : s[i] = m}) = IF m \in ToSet(s) THEN 1 ELSE 0
<1>1. CASE m \in ToSet(s)
  <2>1. PICK i \in DOMAIN s : s[i] = m
    BY <1>1 DEF ToSet
  <2>2. {j \in DOMAIN s : s[j] = m} = {i}
    BY <2>1 DEF Distinct
  <2> QED
    BY <1>1, <2>2, FS_Singleton
<1>2. CASE m \notin ToSet(s)
  <2>1. {j \in DOMAIN s : s[j] = m} = {}
    BY <1>2 DEF ToSet
  <2> QED
    BY <1>2, <2>1, FS_EmptySet
<1> QED
  BY <1>1, <1>2

LEMMA MochatInvariance == MochatSpec => []MochatInv
<1>1. MochatInv /\ [MochatNext]_mochatVars => MochatInv'
  BY OnceStep, CursorStep DEF MochatInv
<1> QED
  BY <1>1, MochatStart, PTL DEF MochatSpec

\* The cursor of a session (channels/mochat.py) is never ahead of what the bus has from
\* the answers that were handled, over subscriptions, polls, pushes and notifications in
\* any order, time-outs and crashes; NothingSkipped names what no such answer carried.
THEOREM CursorsSkipNothing == MochatSpec => []NothingSkipped
<1>1. MochatInv => NothingSkipped
  <2> SUFFICES ASSUME MochatInv, kind = "session", NEW m \in 1..CursorOr0, m > base
               PROVE  m \in everHeard \cup missed
    BY DEF NothingSkipped
  <2>1. Covered(m)
    BY DEF MochatInv, CursorCovered, CoveredTo
  <2>2. base \in Int /\ m \in Int
    BY CursorFacts DEF MochatInv, MochatTypes
  <2> QED
    BY <2>1, <2>2 DEF Covered
<1> QED
  BY <1>1, MochatInvariance, PTL

\* The bus gets a message from an instance once, whichever ways it comes, and what is
\* kept back for a mention waits for a timer that is set.
THEOREM EachMessageOnce == MochatSpec => []SeenIsHeardOrWaits
<1>1. MochatInv => SeenIsHeardOrWaits
  <2> SUFFICES ASSUME MochatInv, phase = "running", NEW m \in seen
               PROVE  /\ Cardinality({i \in DOMAIN heard : heard[i] = m})
                           + Cardinality({i \in DOMAIN entries : entries[i] = m}) = 1
                      /\ m \in ToSet(entries) => timer
    BY DEF SeenIsHeardOrWaits
  <2>1. /\ Distinct(heard) /\ Distinct(entries) /\ ToSet(heard) \cap ToSet(entries) = {}
        /\ ToSet(heard) \cup ToSet(entries) = seen /\ (entries # <<>> => timer)
    BY DEF MochatInv, SeenOnce
  <2>2. heard \in Seq(Nat) /\ entries \in Seq(Nat)
    BY DEF MochatInv, MochatTypes
  <2>3. /\ Cardinality({i \in DOMAIN heard : heard[i] = m}) = IF m \in ToSet(heard) THEN 1 ELSE 0
        /\ Cardinality({i \in DOMAIN entries : entries[i] = m}) = IF m \in ToSet(entries) THEN 1 ELSE 0
    BY <2>1, <2>2, Occurs
  <2>4. m \in ToSet(entries) => entries # <<>>
    BY DEF ToSet
  <2> QED
    BY <2>1, <2>3, <2>4
<1> QED
  BY <1>1, MochatInvariance, PTL

-----------------------------------------------------------------------------
(* How a reply is cut into chunks *)

LEMMA SizeCounts ==
  ASSUME NEW c \in Seq(Nat)
  PROVE  \E f \in [0..Len(c) -> Nat] :
           /\ f[0] = 0 /\ \A k \in 1..Len(c) : f[k] = f[k - 1] + c[k] + 1
           /\ Size(c) = IF c = <<>> THEN 0 ELSE f[Len(c)] - 1
<1>1. PICK n \in Nat : n = Len(c) /\ \A k \in 1..n : c[k] \in Nat
  BY LenProperties
<1>2. PICK next : next = [k \in 1..n |-> [v \in Nat |-> v + c[k] + 1]]
  OBVIOUS
<1>3. next \in [1..n -> [Nat -> Nat]] /\ 0 \in Nat
  <2>1. \A k \in 1..n, v \in Nat : v + c[k] + 1 \in Nat
    BY <1>1
  <2> QED
    BY <1>2, <2>1
<1>4. PICK f \in [0..n -> Nat] : Recursive(f, 0, next, n)
  BY <1>3, Recursion
<1>5. ASSUME NEW k \in 1..n PROVE f[k] = f[k - 1] + c[k] + 1
  <2>1. k \in 0..n /\ k # 0 /\ k - 1 \in 0..n
    OBVIOUS
  <2>2. f[k] = next[k][f[k - 1]] /\ f[k - 1] \in Nat
    BY <1>4, <2>1 DEF Recursive
  <2> QED
    BY <1>2, <2>2
<1>6. f[0] = 0
  BY <1>4 DEF Recursive
<1>7. f = [k \in 0..n |-> IF k = 0 THEN 0 ELSE f[k - 1] + c[k] + 1]
  <2>1. \A k \in 0..n : k = 0 \/ k \in 1..n
    OBVIOUS
  <2>2. \A k \in 0..n : f[k] = IF k = 0 THEN 0 ELSE f[k - 1] + c[k] + 1
    BY <1>5, <1>6, <2>1
  <2> QED
    BY <2>2
<1>8. PICK h : /\ h = [k \in 0..n |-> IF k = 0 THEN 0 ELSE h[k - 1] + c[k] + 1]
               /\ Size(c) = IF c = <<>> THEN 0 ELSE h[n] - 1
  <2>1. \E h : h = [k \in 0..Len(c) |-> IF k = 0 THEN 0 ELSE h[k - 1] + c[k] + 1]
    BY <1>1, <1>7
  <2>2. \E h : /\ h = [k \in 0..Len(c) |-> IF k = 0 THEN 0 ELSE h[k - 1] + c[k] + 1]
               /\ Size(c) = IF c = <<>> THEN 0 ELSE h[Len(c)] - 1
    BY <2>1 DEF Size
  <2> QED
    BY <1>1, <2>2
<1>9. h[n] = f[n]
  <2>1. \A k \in 1..n : k \in 0..n /\ k # 0
    OBVIOUS
  <2>2. \A k \in 1..n : h[k] = h[k - 1] + c[k] + 1
    BY <1>8, <2>1
  <2>3. \A k \in 1..n : f[k - 1] = h[k - 1] => f[k] = h[k]
    BY <1>5, <2>2
  <2>4. f[0] = h[0]
    BY <1>6, <1>8
  <2>5. StepAlike(f, h, n)
    BY <2>3, <2>4 DEF StepAlike
  <2> QED
    BY <2>5, SameRecursion
<1> QED
  BY <1>1, <1>5, <1>6, <1>8, <1>9

LEMMA SizeAppended ==
  /\ Size(<<>>) = 0
  /\ \A c \in Seq(Nat), w \in Nat :
       /\ Size(c) \in Nat
       /\ Size(Append(c, w)) = IF c = <<>> THEN w ELSE Size(c) + w + 1
<1>1. Size(<<>>) = 0
  BY DEF Size
<1>2. ASSUME NEW c \in Seq(Nat), NEW w \in Nat
      PROVE  Size(c) \in Nat /\ Size(Append(c, w)) = IF c = <<>> THEN w ELSE Size(c) + w + 1
  <2>1. PICK n \in Nat : n = Len(c) /\ \A k \in 1..n : c[k] \in Nat
    BY LenProperties
  <2>2. PICK d \in Seq(Nat) : d = Append(c, w)
    BY AppendProperties
  <2>3. d # <<>> /\ Len(d) = n + 1 /\ d[n + 1] = w /\ \A k \in 1..n : d[k] = c[k]
    BY <2>1, <2>2, AppendProperties
  <2>4. PICK f \in [0..n -> Nat] : /\ f[0] = 0 /\ \A k \in 1..n : f[k] = f[k - 1] + c[k] + 1
                                   /\ Size(c) = IF c = <<>> THEN 0 ELSE f[n] - 1
    BY <2>1, SizeCounts
  <2>5. PICK g : /\ g[0] = 0 /\ \A k \in 1..(n + 1) : g[k] = g[k - 1] + d[k] + 1
                 /\ Size(d) = g[n + 1] - 1
    <3>1. \E g : /\ g[0] = 0 /\ \A k \in 1..Len(d) : g[k] = g[k - 1] + d[k] + 1
                 /\ Size(d) = g[Len(d)] - 1
      BY <2>3, SizeCounts
    <3> QED
      BY <2>3, <3>1
  <2>6. f[n] = g[n]
    <3>1. \A k \in 1..n : k \in 1..(n + 1)
      OBVIOUS
    <3>2. \A k \in 1..n : f[k - 1] = g[k - 1] => f[k] = g[k]
      BY <2>3, <2>4, <2>5, <3>1
    <3>3. n \in 0..n /\ f[0] = g[0]
      BY <2>4, <2>5
    <3>4. StepAlike(f, g, n)
      BY <3>2, <3>3 DEF StepAlike
    <3> QED
      BY <3>3, <3>4, SameRecursion
  <2>7. f[n] \in Nat /\ Size(d) = f[n] + w
    <3>1. n + 1 \in 1..(n + 1) /\ (n + 1) - 1 = n
      OBVIOUS
    <3>2. g[n + 1] = g[n] + d[n + 1] + 1
      BY <2>5, <3>1
    <3>3. f[n] \in Nat
      OBVIOUS
    <3> QED
      BY <2>3, <2>5, <2>6, <3>2, <3>3
  <2>8. CASE c = <<>>
    <3>1. n = 0
      BY <2>1, <2>8, EmptySeq
    <3> QED
      BY <2>2, <2>4, <2>7, <2>8, <3>1
  <2>9. CASE c # <<>>
    <3>1. n \in 1..n /\ n - 1 \in 0..n
      BY <2>1, <2>9, EmptySeq
    <3>2. f[n] = f[n - 1] + c[n] + 1 /\ f[n - 1] \in Nat /\ c[n] \in Nat
      BY <2>1, <2>4, <3>1
    <3>3. Size(c) = f[n] - 1
      BY <2>4, <2>9
    <3>4. f[n] - 1 \in Nat /\ f[n] + w = (f[n] - 1) + w + 1
      <4>1. PICK a \in Nat, b \in Nat, e \in Nat : a = f[n] /\ b = f[n - 1] /\ e = c[n]
        BY <2>7, <3>2
      <4>2. a = b + e + 1
        BY <3>2, <4>1
      <4>3. a - 1 \in Nat /\ a + w = (a - 1) + w + 1
        BY <4>2
      <4> QED
        BY <4>1, <4>3
    <3> QED
      BY <2>2, <2>7, <2>9, <3>3, <3>4
  <2> QED
    BY <2>8, <2>9
<1> QED
  BY <1>1, <1>2

LEMMA SpokenCounts ==
  ASSUME NEW c \in Seq(Nat)
  PROVE  \E f \in [0..Len(c) -> Seq(Nat)] :
           /\ f[0] = <<>>
           /\ \A k \in 1..Len(c) : f[k] = IF c[k] > 0 THEN Append(f[k - 1], c[k]) ELSE f[k - 1]
           /\ Spoken(c) = f[Len(c)]
<1>1. PICK n \in Nat : n = Len(c) /\ \A k \in 1..n : c[k] \in Nat
  BY LenProperties
<1>2. PICK V : V = Seq(Nat)
  OBVIOUS
<1>3. PICK next : next = [k \in 1..n |-> [v \in V |-> IF c[k] > 0 THEN Append(v, c[k]) ELSE v]]
  OBVIOUS
<1>4. next \in [1..n -> [V -> V]] /\ <<>> \in V
  <2>1. \A k \in 1..n, v \in V : Append(v, c[k]) \in V
    BY <1>1, <1>2, AppendProperties
  <2> QED
    BY <1>2, <1>3, <2>1, EmptySeq
<1>5. PICK f \in [0..n -> V] : Recursive(f, <<>>, next, n)
  BY <1>4, Recursion
<1>6. ASSUME NEW k \in 1..n PROVE f[k] = IF c[k] > 0 THEN Append(f[k - 1], c[k]) ELSE f[k - 1]
  <2>1. k \in 0..n /\ k # 0 /\ k - 1 \in 0..n
    OBVIOUS
  <2>2. f[k] = next[k][f[k - 1]] /\ f[k - 1] \in V
    BY <1>5, <2>1 DEF Recursive
  <2> QED
    BY <1>3, <2>2
<1>7. f[0] = <<>>
  BY <1>5 DEF Recursive
<1>8. f = [k \in 0..n |-> IF k = 0 THEN <<>> ELSE IF c[k] > 0 THEN Append(f[k - 1], c[k]) ELSE f[k - 1]]
  <2>1. \A k \in 0..n : k = 0 \/ k \in 1..n
    OBVIOUS
  <2>2. \A k \in 0..n : f[k] = IF k = 0 THEN <<>> ELSE IF c[k] > 0 THEN Append(f[k - 1], c[k]) ELSE f[k - 1]
    BY <1>6, <1>7, <2>1
  <2> QED
    BY <2>2
<1>9. PICK h : /\ h = [k \in 0..n |-> IF k = 0 THEN <<>> ELSE IF c[k] > 0 THEN Append(h[k - 1], c[k]) ELSE h[k - 1]]
               /\ Spoken(c) = h[n]
  <2>1. \E h : h = [k \in 0..Len(c) |-> IF k = 0 THEN <<>> ELSE IF c[k] > 0 THEN Append(h[k - 1], c[k]) ELSE h[k - 1]]
    BY <1>1, <1>8
  <2>2. \E h : /\ h = [k \in 0..Len(c) |-> IF k = 0 THEN <<>> ELSE IF c[k] > 0 THEN Append(h[k - 1], c[k]) ELSE h[k - 1]]
               /\ Spoken(c) = h[Len(c)]
    BY <2>1 DEF Spoken
  <2> QED
    BY <1>1, <2>2
<1>10. h[n] = f[n]
  <2>1. \A k \in 1..n : k \in 0..n /\ k # 0
    OBVIOUS
  <2>2. \A k \in 1..n : h[k] = IF c[k] > 0 THEN Append(h[k - 1], c[k]) ELSE h[k - 1]
    BY <1>9, <2>1
  <2>3. \A k \in 1..n : f[k - 1] = h[k - 1] => f[k] = h[k]
    BY <1>6, <2>2
  <2>4. f[0] = h[0]
    BY <1>7, <1>9
  <2>5. StepAlike(f, h, n)
    BY <2>3, <2>4 DEF StepAlike
  <2> QED
    BY <2>5, SameRecursion
<1> QED
  BY <1>1, <1>2, <1>6, <1>7, <1>9, <1>10

LEMMA SpokenAppended ==
  /\ Spoken(<<>>) = <<>>
  /\ \A c \in Seq(Nat), w \in Nat :
       /\ Spoken(c) \in Seq(Nat)
       /\ Spoken(Append(c, w)) = IF w > 0 THEN Append(Spoken(c), w) ELSE Spoken(c)
<1>1. Spoken(<<>>) = <<>>
  <2>1. PICK c \in Seq(Nat) : c = <<>> /\ Len(c) = 0
    BY EmptySeq
  <2> QED
    BY <2>1, SpokenCounts
<1>2. ASSUME NEW c \in Seq(Nat), NEW w \in Nat
      PROVE  Spoken(c) \in Seq(Nat) /\ Spoken(Append(c, w)) = IF w > 0 THEN Append(Spoken(c), w) ELSE Spoken(c)
  <2>1. PICK n \in Nat : n = Len(c)
    BY LenProperties
  <2>2. PICK d \in Seq(Nat) : d = Append(c, w)
    BY AppendProperties
  <2>3. Len(d) = n + 1 /\ d[n + 1] = w /\ \A k \in 1..n : d[k] = c[k]
    BY <2>1, <2>2, AppendProperties
  <2>4. PICK f \in [0..n -> Seq(Nat)] :
          /\ f[0] = <<>> /\ \A k \in 1..n : f[k] = IF c[k] > 0 THEN Append(f[k - 1], c[k]) ELSE f[k - 1]
          /\ Spoken(c) = f[n]
    BY <2>1, SpokenCounts
  <2>5. PICK g : /\ g[0] = <<>> /\ \A k \in 1..(n + 1) : g[k] = IF d[k] > 0 THEN Append(g[k - 1], d[k]) ELSE g[k - 1]
                 /\ Spoken(d) = g[n + 1]
    <3>1. \E g : /\ g[0] = <<>> /\ \A k \in 1..Len(d) : g[k] = IF d[k] > 0 THEN Append(g[k - 1], d[k]) ELSE g[k - 1]
                 /\ Spoken(d) = g[Len(d)]
      BY SpokenCounts
    <3> QED
      BY <2>3, <3>1
  <2>6. f[n] = g[n] /\ f[n] \in Seq(Nat)
    <3>1. \A k \in 1..n : k \in 1..(n + 1)
      OBVIOUS
    <3>2. \A k \in 1..n : f[k - 1] = g[k - 1] => f[k] = g[k]
      BY <2>3, <2>4, <2>5, <3>1
    <3>3. n \in 0..n /\ f[0] = g[0]
      BY <2>4, <2>5
    <3>4. StepAlike(f, g, n)
      BY <3>2, <3>3 DEF StepAlike
    <3> QED
      BY <3>3, <3>4, SameRecursion
  <2>7. n + 1 \in 1..(n + 1) /\ (n + 1) - 1 = n
    OBVIOUS
  <2>8. g[n + 1] = IF d[n + 1] > 0 THEN Append(g[n], d[n + 1]) ELSE g[n]
    BY <2>5, <2>7
  <2> QED
    BY <2>2, <2>3, <2>4, <2>5, <2>6, <2>8
<1> QED
  BY <1>1, <1>2

\* Of two chunks put together, the sizes add up and the words follow each other.
LEMMA JoinedChunks ==
  ASSUME NEW a \in Seq(Nat), NEW b \in Seq(Nat)
  PROVE  /\ a # <<>> /\ b # <<>> => Size(a \o b) = Size(a) + Size(b) + 1
         /\ Spoken(a \o b) = Spoken(a) \o Spoken(b)
<1>1. PICK T : T = {t \in Seq(Nat) : /\ a # <<>> /\ t # <<>> => Size(a \o t) = Size(a) + Size(t) + 1
                                    /\ Spoken(a \o t) = Spoken(a) \o Spoken(t)}
  OBVIOUS
<1>2. <<>> \in T
  <2>1. a \o <<>> = a /\ Spoken(a) \o <<>> = Spoken(a) /\ <<>> \in Seq(Nat)
    BY SpokenAppended, ConcatEmptySeq, EmptySeq
  <2> QED
    BY <1>1, <2>1, SpokenAppended
<1>3. ASSUME NEW t \in Seq(Nat), NEW w \in Nat, t \in T PROVE Append(t, w) \in T
  <2>1. PICK at \in Seq(Nat), tw \in Seq(Nat) : at = a \o t /\ tw = Append(t, w)
    BY ConcatProperties, AppendProperties
  <2>2. a \o tw = Append(at, w)
    <3>1. <<w>> \in Seq(Nat) /\ tw = t \o <<w>> /\ Append(at, w) = at \o <<w>>
      BY <2>1, AppendIsConcat
    <3> QED
      BY <2>1, <3>1, ConcatAssociative
  <2>3. tw # <<>>
    BY <2>1, AppendProperties
  <2>4. Spoken(a \o tw) = Spoken(a) \o Spoken(tw)
    <3>1. PICK sa \in Seq(Nat), st \in Seq(Nat), stw \in Seq(Nat) :
            sa = Spoken(a) /\ st = Spoken(t) /\ stw = Spoken(tw)
      BY SpokenAppended
    <3>2. Spoken(at) = sa \o st
      BY <1>1, <1>3, <2>1, <3>1
    <3>3. CASE w > 0
      <4>1. Spoken(a \o tw) = Append(sa \o st, w) /\ stw = Append(st, w)
        BY <2>1, <2>2, <3>1, <3>2, <3>3, SpokenAppended
      <4>0. <<w>> \in Seq(Nat)
        OBVIOUS
      <4>2. PICK one \in Seq(Nat), both \in Seq(Nat) : one = <<w>> /\ both = sa \o st
        BY <4>0, ConcatProperties
      <4>3. Append(both, w) = both \o one /\ Append(st, w) = st \o one
        BY <4>2, AppendIsConcat
      <4>4. (sa \o st) \o one = sa \o (st \o one)
        <5>1. Associate(sa, st, one)
          BY OneAfterAnother
        <5> QED
          BY <5>1 DEF Associate
      <4> QED
        BY <3>1, <4>1, <4>2, <4>3, <4>4
    <3>4. CASE ~(w > 0)
      <4>1. Spoken(Append(at, w)) = Spoken(at) /\ Spoken(tw) = Spoken(t)
        BY <2>1, <3>4, SpokenAppended
      <4> QED
        BY <2>2, <3>1, <3>2, <4>1
    <3> QED
      BY <3>3, <3>4
  <2>5. ASSUME a # <<>> PROVE Size(a \o tw) = Size(a) + Size(tw) + 1
    <3>1. at # <<>>
      BY <2>1, <2>5, ConcatEqualIffEmpty
    <3>2. PICK x \in Nat, y \in Nat, z \in Nat : x = Size(a) /\ y = Size(t) /\ z = Size(at)
      BY SizeAppended
    <3>3. Size(a \o tw) = z + w + 1
      BY <2>2, <3>1, <3>2, SizeAppended
    <3>4. CASE t = <<>>
      <4>1. at = a /\ Size(tw) = w
        BY <2>1, <3>4, ConcatEmptySeq, SizeAppended
      <4> QED
        BY <3>2, <3>3, <4>1
    <3>5. CASE t # <<>>
      <4>1. z = x + y + 1
        BY <1>1, <1>3, <2>1, <2>5, <3>2, <3>5
      <4>2. Size(tw) = y + w + 1
        BY <2>1, <3>2, <3>5, SizeAppended
      <4>3. z + w + 1 = x + (y + w + 1) + 1
        BY <4>1
      <4> QED
        BY <3>2, <3>3, <4>2, <4>3
    <3> QED
      BY <3>4, <3>5
  <2>6. tw \in T
    BY <1>1, <2>4, <2>5
  <2> QED
    BY <2>1, <2>6
<1>4. Seq(Nat) \subseteq T
  BY <1>2, <1>3, QueuesFromEmpty
<1>5. b \in T
  BY <1>4
<1> QED
  BY <1>1, <1>5

\* A chunk without length has no words; a chunk of one word is that word.
LEMMA SmallChunks ==
  /\ \A c \in Seq(Nat) : IsEmpty(c) => Spoken(c) = <<>>
  /\ \A w \in Nat : <<w>> \in Seq(Nat) /\ Size(<<w>>) = w /\ Len(<<w>>) = 1
<1>1. ASSUME NEW c \in Seq(Nat), IsEmpty(c) PROVE Spoken(c) = <<>>
  <2>1. CASE c = <<>>
    BY <2>1, SpokenAppended
  <2>2. CASE c # <<>>
    <3>1. PICK d \in Seq(Nat), w \in Nat : c = Append(d, w)
      BY <2>2, SequenceEmptyOrAppend
    <3>2. Size(c) = 0 /\ Size(d) \in Nat
      BY <1>1, SizeAppended DEF IsEmpty
    <3>3. Size(c) = IF d = <<>> THEN w ELSE Size(d) + w + 1
      BY <3>1, SizeAppended
    <3>4. d = <<>> /\ w = 0
      BY <3>2, <3>3
    <3>5. Spoken(c) = Spoken(d)
      <4>1. ~(w > 0)
        BY <3>4
      <4>2. Spoken(Append(d, w)) = IF w > 0 THEN Append(Spoken(d), w) ELSE Spoken(d)
        BY SpokenAppended
      <4> QED
        BY <3>1, <4>1, <4>2
    <3> QED
      BY <3>4, <3>5, SpokenAppended
  <2> QED
    BY <2>1, <2>2
<1>2. ASSUME NEW w \in Nat PROVE <<w>> \in Seq(Nat) /\ Size(<<w>>) = w /\ Len(<<w>>) = 1
  <2>1. PICK e \in Seq(Nat) : e = <<>>
    BY EmptySeq
  <2>2. Append(e, w) = <<w>>
    BY <2>1
  <2>3. Append(e, w) \in Seq(Nat) /\ Len(Append(e, w)) = 1
    BY <2>1, AppendProperties, EmptySeq
  <2>4. Size(Append(e, w)) = w
    BY <2>1, SizeAppended
  <2> QED
    BY <2>2, <2>3, <2>4
<1> QED
  BY <1>1, <1>2

\* The states of split_message, the words in them, and whether their chunks are short enough.
Cuts == [done : Seq(Seq(Nat)), chunk : Seq(Nat)]
Said(s) == Words(s.done) \o Spoken(s.chunk)
ShortEnough(max, c) == Size(c) <= max \/ Len(c) = 1
AllShort(max, s) == /\ \A k \in DOMAIN s.done : ShortEnough(max, s.done[k])
                    /\ ShortEnough(max, s.chunk)

\* Cutting off the chunk changes no words.
LEMMA CutFacts ==
  ASSUME NEW max \in Nat, NEW s \in Cuts, AllShort(max, s)
  PROVE  /\ Cut(s) \in Cuts /\ AllShort(max, Cut(s))
         /\ Words(Cut(s).done) = Said(s) /\ Said(Cut(s)) = Said(s) /\ Cut(s).chunk = <<>>
         /\ CutIfAny(s) \in Cuts /\ AllShort(max, CutIfAny(s)) /\ IsEmpty(CutIfAny(s).chunk)
         /\ Words(CutIfAny(s).done) = Said(s) /\ Said(CutIfAny(s)) = Said(s)
<1>1. s.done \in Seq(Seq(Nat)) /\ s.chunk \in Seq(Nat)
  BY DEF Cuts
<1>2. PICK done \in Seq(Seq(Nat)) : done = Append(s.done, s.chunk)
  BY <1>1, AppendProperties
<1>3. Cut(s) = [done |-> done, chunk |-> <<>>]
  BY <1>2 DEF Cut
<1>4. <<>> \in Seq(Nat) /\ Spoken(<<>>) = <<>> /\ Size(<<>>) = 0
  BY EmptySeq, SpokenAppended, SizeAppended
<1>5. PICK f \in Seq(Nat) : f = FlattenSeq(s.done)
  BY <1>1, FlattenAppended
<1>6. FlattenSeq(done) = f \o s.chunk
  BY <1>1, <1>2, <1>5, FlattenAppended
<1>7. Words(done) = Said(s)
  BY <1>1, <1>5, <1>6, JoinedChunks DEF Said, Words
<1>8. Said(s) \in Seq(Nat)
  <2>1. f \o s.chunk \in Seq(Nat)
    BY <1>1, <1>5, ConcatProperties
  <2> QED
    BY <1>6, <1>7, <2>1, SpokenAppended DEF Words
<1>9. Said(Cut(s)) = Said(s)
  <2>1. Cut(s).done = done /\ Cut(s).chunk = <<>>
    BY <1>3
  <2>2. Said(Cut(s)) = Words(done) \o <<>>
    BY <1>4, <2>1 DEF Said
  <2> QED
    BY <1>7, <1>8, <2>2, ConcatEmptySeq
<1>10. AllShort(max, Cut(s))
  <2>1. PICK n \in Nat : n = Len(s.done) /\ DOMAIN s.done = 1..n
    BY <1>1, LenProperties
  <2>2. DOMAIN done = 1..(n + 1) /\ done[n + 1] = s.chunk /\ \A k \in 1..n : done[k] = s.done[k]
    BY <1>1, <1>2, <2>1, AppendProperties, LenProperties
  <2>3. \A k \in 1..(n + 1) : k = n + 1 \/ k \in 1..n
    OBVIOUS
  <2>4. \A k \in DOMAIN done : ShortEnough(max, done[k])
    BY <2>1, <2>2, <2>3 DEF AllShort
  <2>5. ShortEnough(max, <<>>)
    BY <1>4 DEF ShortEnough
  <2> QED
    BY <1>3, <2>4, <2>5 DEF AllShort
<1>11. CASE IsEmpty(s.chunk)
  <2>1. CutIfAny(s) = s
    BY <1>11 DEF CutIfAny
  <2>2. Spoken(s.chunk) = <<>>
    BY <1>1, <1>11, SmallChunks
  <2>3. Words(s.done) \in Seq(Nat)
    BY <1>5, SpokenAppended DEF Words
  <2>4. Words(s.done) = Said(s)
    BY <2>2, <2>3, ConcatEmptySeq DEF Said
  <2> QED
    BY <1>3, <1>4, <1>7, <1>9, <1>10, <1>11, <2>1, <2>4 DEF Cuts
<1>12. CASE ~IsEmpty(s.chunk)
  <2>1. CutIfAny(s) = Cut(s) /\ IsEmpty(<<>>)
    BY <1>4, <1>12 DEF CutIfAny, IsEmpty
  <2> QED
    BY <1>3, <1>4, <1>7, <1>9, <1>10, <2>1 DEF Cuts
<1> QED
  BY <1>11, <1>12

\* Words that fit are added to the chunk.
LEMMA FilledFacts ==
  ASSUME NEW max \in Nat, NEW s \in Cuts, AllShort(max, s), NEW words \in Seq(Nat),
         ShortEnough(max, words),
         IsEmpty(s.chunk) \/ Size(s.chunk) + Size(words) + 1 <= max
  PROVE  /\ Filled(s, words) \in Cuts /\ AllShort(max, Filled(s, words))
         /\ Said(Filled(s, words)) = Said(s) \o Spoken(words)
<1>1. s.done \in Seq(Seq(Nat)) /\ s.chunk \in Seq(Nat) /\ s = [done |-> s.done, chunk |-> s.chunk]
  BY DEF Cuts
<1>2. Words(s.done) \in Seq(Nat) /\ Spoken(s.chunk) \in Seq(Nat) /\ Spoken(words) \in Seq(Nat)
  BY <1>1, FlattenAppended, SpokenAppended DEF Words
<1>3. CASE IsEmpty(s.chunk)
  <2>1. Filled(s, words) = [done |-> s.done, chunk |-> words]
    BY <1>1, <1>3 DEF Filled
  <2>2. Spoken(s.chunk) = <<>>
    BY <1>1, <1>3, SmallChunks
  <2>3. Said(s) = Words(s.done) /\ Said(Filled(s, words)) = Words(s.done) \o Spoken(words)
    BY <1>2, <2>1, <2>2, ConcatEmptySeq DEF Said
  <2> QED
    BY <1>1, <2>1, <2>3 DEF Cuts, AllShort
<1>4. CASE ~IsEmpty(s.chunk)
  <2>1. PICK both \in Seq(Nat) : both = s.chunk \o words
    BY <1>1, ConcatProperties
  <2>2. Filled(s, words) = [done |-> s.done, chunk |-> both]
    <3>1. Filled(s, words) = [s EXCEPT !.chunk = s.chunk \o words]
      BY <1>4 DEF Filled
    <3> QED
      BY <1>1, <2>1, <3>1
  <2>3. s.chunk # <<>>
    BY <1>4, SizeAppended DEF IsEmpty
  <2>4. ShortEnough(max, both)
    <3>1. CASE words = <<>>
      BY <1>1, <2>1, <3>1, ConcatEmptySeq DEF AllShort
    <3>2. CASE words # <<>>
      BY <1>1, <1>4, <2>1, <2>3, <3>2, JoinedChunks DEF ShortEnough
    <3> QED
      BY <3>1, <3>2
  <2>5. Spoken(both) = Spoken(s.chunk) \o Spoken(words)
    BY <1>1, <2>1, JoinedChunks
  <2>6. Said(Filled(s, words)) = Words(s.done) \o (Spoken(s.chunk) \o Spoken(words))
    <3>1. Filled(s, words).done = s.done /\ Filled(s, words).chunk = both
      BY <2>2
    <3> QED
      BY <2>5, <3>1 DEF Said
  <2>7. Said(Filled(s, words)) = Said(s) \o Spoken(words)
    <3>1. PICK x \in Seq(Nat), y \in Seq(Nat), z \in Seq(Nat) :
            x = Words(s.done) /\ y = Spoken(s.chunk) /\ z = Spoken(words)
      BY <1>2
    <3>2. Associate(x, y, z)
      BY OneAfterAnother
    <3>3. (x \o y) \o z = x \o (y \o z)
      BY <3>2 DEF Associate
    <3> QED
      BY <2>6, <3>1, <3>3 DEF Said
  <2> QED
    BY <1>1, <2>2, <2>4, <2>7 DEF Cuts, AllShort
<1> QED
  BY <1>3, <1>4

LEMMA SaidIsWords ==
  ASSUME NEW s \in Cuts
  PROVE  Said(s) \in Seq(Nat)
<1>1. s.done \in Seq(Seq(Nat)) /\ s.chunk \in Seq(Nat)
  BY DEF Cuts
<1>2. Words(s.done) \in Seq(Nat) /\ Spoken(s.chunk) \in Seq(Nat)
  BY <1>1, FlattenAppended, SpokenAppended DEF Words
<1> QED
  BY <1>2, ConcatProperties DEF Said

\* What Spoken makes of one more word.
LEMMA OneMoreWord ==
  ASSUME NEW words \in Seq(Nat), NEW w \in Nat
  PROVE  (IF w > 0 THEN Append(words, w) ELSE words) = words \o Spoken(<<w>>)
<1>1. PICK e \in Seq(Nat) : e = <<>>
  BY EmptySeq
<1>2. Append(e, w) = <<w>>
  BY <1>1
<1>3. Spoken(<<w>>) = IF w > 0 THEN <<w>> ELSE <<>>
  BY <1>1, <1>2, SpokenAppended
<1>4. Append(words, w) = words \o <<w>> /\ words \o <<>> = words
  BY AppendIsConcat, ConcatEmptySeq
<1> QED
  BY <1>3, <1>4

LEMMA WithWordFacts ==
  ASSUME NEW max \in Nat, NEW s \in Cuts, AllShort(max, s), NEW w \in Nat
  PROVE  /\ WithWord(max, s, w) \in Cuts /\ AllShort(max, WithWord(max, s, w))
         /\ Said(WithWord(max, s, w)) = Said(s) \o Spoken(<<w>>)
<1>1. PICK one \in Seq(Nat) : one = <<w>> /\ Size(one) = w /\ Len(one) = 1
  BY SmallChunks
<1>2. ShortEnough(max, one)
  BY <1>1 DEF ShortEnough
<1>3. CASE Size(s.chunk) + w + 1 > max
  <2>1. PICK t \in Cuts : t = Cut(s)
    BY CutFacts
  <2>2. AllShort(max, t) /\ Words(t.done) = Said(s)
    BY <2>1, CutFacts
  <2>3. WithWord(max, s, w) = [t EXCEPT !.chunk = one]
    BY <1>1, <1>3, <2>1 DEF WithWord
  <2>4. t.done \in Seq(Seq(Nat)) /\ WithWord(max, s, w) = [done |-> t.done, chunk |-> one]
    BY <2>3 DEF Cuts
  <2>5. WithWord(max, s, w).done = t.done /\ WithWord(max, s, w).chunk = one
    BY <2>4
  <2> QED
    BY <1>1, <1>2, <2>2, <2>4, <2>5 DEF Cuts, AllShort, Said
<1>4. CASE ~(Size(s.chunk) + w + 1 > max)
  <2>1. WithWord(max, s, w) = Filled(s, one)
    BY <1>1, <1>4 DEF WithWord
  <2>2. s.chunk \in Seq(Nat)
    BY DEF Cuts
  <2>3. Size(s.chunk) \in Nat
    BY <2>2, SizeAppended
  <2>4. Size(s.chunk) + Size(one) + 1 <= max
    BY <1>1, <1>4, <2>3
  <2> QED
    BY <1>1, <1>2, <2>1, <2>4, FilledFacts
<1> QED
  BY <1>3, <1>4

\* Word by word, nothing is lost and each chunk is short enough.
LEMMA WordByWordFacts ==
  ASSUME NEW max \in Nat, NEW s \in Cuts, AllShort(max, s), NEW p \in Seq(Nat)
  PROVE  /\ WordByWord(max, s, p) \in Cuts /\ AllShort(max, WordByWord(max, s, p))
         /\ Said(WordByWord(max, s, p)) = Said(s) \o Spoken(p)
<1>1. PICK n \in Nat : n = Len(p) /\ \A k \in 1..n : p[k] \in Nat
  BY LenProperties
<1>2. PICK V : V = {t \in Cuts : AllShort(max, t)}
  OBVIOUS
<1>3. PICK next : next = [k \in 1..n |-> [t \in V |-> WithWord(max, t, p[k])]]
  OBVIOUS
<1>4. s \in V /\ next \in [1..n -> [V -> V]]
  <2>1. \A k \in 1..n, t \in V : WithWord(max, t, p[k]) \in V
    BY <1>1, <1>2, WithWordFacts
  <2> QED
    BY <1>2, <1>3, <2>1
<1>5. PICK f \in [0..n -> V] : Recursive(f, s, next, n)
  BY <1>4, Recursion
<1>6. ASSUME NEW k \in 1..n PROVE f[k] = WithWord(max, f[k - 1], p[k]) /\ f[k - 1] \in V
  <2>1. k \in 0..n /\ k # 0 /\ k - 1 \in 0..n
    OBVIOUS
  <2>2. f[k] = next[k][f[k - 1]] /\ f[k - 1] \in V
    BY <1>5, <2>1 DEF Recursive
  <2> QED
    BY <1>3, <2>2
<1>7. f[0] = s
  BY <1>5 DEF Recursive
<1>8. f = [k \in 0..n |-> IF k = 0 THEN s ELSE WithWord(max, f[k - 1], p[k])]
  <2>1. \A k \in 0..n : k = 0 \/ k \in 1..n
    OBVIOUS
  <2>2. \A k \in 0..n : f[k] = IF k = 0 THEN s ELSE WithWord(max, f[k - 1], p[k])
    BY <1>6, <1>7, <2>1
  <2> QED
    BY <2>2
<1>9. PICK h : /\ h = [k \in 0..n |-> IF k = 0 THEN s ELSE WithWord(max, h[k - 1], p[k])]
               /\ WordByWord(max, s, p) = h[n]
  <2>1. \E h : h = [k \in 0..Len(p) |-> IF k = 0 THEN s ELSE WithWord(max, h[k - 1], p[k])]
    BY <1>1, <1>8
  <2>2. \E h : /\ h = [k \in 0..Len(p) |-> IF k = 0 THEN s ELSE WithWord(max, h[k - 1], p[k])]
               /\ WordByWord(max, s, p) = h[Len(p)]
    BY <2>1 DEF WordByWord
  <2> QED
    BY <1>1, <2>2
<1>10. h[n] = f[n]
  <2>1. \A k \in 1..n : k \in 0..n /\ k # 0
    OBVIOUS
  <2>2. \A k \in 1..n : h[k] = WithWord(max, h[k - 1], p[k])
    BY <1>9, <2>1
  <2>3. \A k \in 1..n : f[k - 1] = h[k - 1] => f[k] = h[k]
    BY <1>6, <2>2
  <2>4. f[0] = h[0]
    BY <1>7, <1>9
  <2>5. StepAlike(f, h, n)
    BY <2>3, <2>4 DEF StepAlike
  <2> QED
    BY <2>5, SameRecursion
<1>11. PICK g \in [0..n -> Seq(Nat)] :
         /\ g[0] = <<>> /\ \A k \in 1..n : g[k] = IF p[k] > 0 THEN Append(g[k - 1], p[k]) ELSE g[k - 1]
         /\ Spoken(p) = g[n]
  BY <1>1, SpokenCounts
<1>12. Said(s) \in Seq(Nat)
  BY SaidIsWords
<1>13. PICK R : R = {k \in 0..n : Said(f[k]) = Said(s) \o g[k]}
  OBVIOUS
<1>14. 0 \in R
  BY <1>7, <1>11, <1>12, <1>13, ConcatEmptySeq
<1>15. ASSUME NEW i \in 0..(n - 1), i \in R PROVE i + 1 \in R
  <2>1. i + 1 \in 1..n /\ i + 1 \in 0..n /\ (i + 1) - 1 = i /\ i \in 0..n
    OBVIOUS
  <2>2. PICK w \in Nat : w = p[i + 1]
    BY <1>1, <2>1
  <2>3. f[i + 1] = WithWord(max, f[i], w) /\ f[i] \in Cuts /\ AllShort(max, f[i])
    BY <1>2, <1>6, <2>1, <2>2
  <2>4. Said(f[i + 1]) = Said(f[i]) \o Spoken(<<w>>)
    <3>1. PICK t \in Cuts : t = f[i] /\ AllShort(max, t)
      BY <2>3
    <3>2. Said(WithWord(max, t, w)) = Said(t) \o Spoken(<<w>>)
      BY <3>1, WithWordFacts
    <3> QED
      BY <2>3, <3>1, <3>2
  <2>5. PICK a \in Seq(Nat), b \in Seq(Nat), c \in Seq(Nat) : a = Said(s) /\ b = g[i] /\ c = Spoken(<<w>>)
    <3>1. g[i] \in Seq(Nat) /\ Spoken(<<w>>) \in Seq(Nat)
      BY <2>1, SmallChunks, SpokenAppended
    <3> QED
      BY <1>12, <3>1
  <2>6. g[i + 1] = b \o c
    <3>1. g[i + 1] = IF p[i + 1] > 0 THEN Append(g[(i + 1) - 1], p[i + 1]) ELSE g[(i + 1) - 1]
      BY <1>11, <2>1
    <3>2. g[i + 1] = IF w > 0 THEN Append(b, w) ELSE b
      BY <2>1, <2>2, <2>5, <3>1
    <3>3. (IF w > 0 THEN Append(b, w) ELSE b) = b \o Spoken(<<w>>)
      BY <2>2, <2>5, OneMoreWord
    <3> QED
      BY <2>5, <3>2, <3>3
  <2>7. Said(f[i]) = a \o b
    BY <1>13, <1>15, <2>5
  <2>8. Associate(a, b, c)
    BY OneAfterAnother
  <2> QED
    BY <1>13, <2>1, <2>4, <2>5, <2>6, <2>7, <2>8 DEF Associate
<1>16. 0..n \subseteq R
  BY <1>14, <1>15, CountingUp
<1>17. n \in R /\ f[n] \in V
  BY <1>16
<1> QED
  BY <1>2, <1>9, <1>10, <1>11, <1>13, <1>17


\* A paragraph is added whole, or word by word when it is too long by itself.
LEMMA WithParagraphFacts ==
  ASSUME NEW max \in Nat, NEW s \in Cuts, AllShort(max, s), NEW p \in Seq(Nat)
  PROVE  /\ WithParagraph(max, s, p) \in Cuts /\ AllShort(max, WithParagraph(max, s, p))
         /\ Said(WithParagraph(max, s, p)) = Said(s) \o Spoken(p)
<1>1. PICK cut : cut = IF Size(s.chunk) + Size(p) + 1 > max THEN CutIfAny(s) ELSE s
  OBVIOUS
<1>2. cut \in Cuts /\ AllShort(max, cut) /\ Said(cut) = Said(s)
  BY <1>1, CutFacts
<1>3. WithParagraph(max, s, p) = IF Size(p) > max THEN WordByWord(max, CutIfAny(cut), p) ELSE Filled(cut, p)
  BY <1>1 DEF WithParagraph
<1>4. CASE Size(p) > max
  <2>1. PICK t \in Cuts : t = CutIfAny(cut)
    BY <1>2, CutFacts
  <2>2. AllShort(max, t) /\ Said(t) = Said(s)
    BY <1>2, <2>1, CutFacts
  <2>3. WithParagraph(max, s, p) = WordByWord(max, t, p)
    BY <1>3, <1>4, <2>1
  <2> QED
    BY <2>2, <2>3, WordByWordFacts
<1>5. CASE ~(Size(p) > max)
  <2>1. WithParagraph(max, s, p) = Filled(cut, p)
    BY <1>3, <1>5
  <2>2. s.chunk \in Seq(Nat)
    BY DEF Cuts
  <2>3. PICK a \in Nat, b \in Nat : a = Size(s.chunk) /\ b = Size(p)
    BY <2>2, SizeAppended
  <2>4. ShortEnough(max, p)
    BY <1>5, <2>3 DEF ShortEnough
  <2>5. IsEmpty(cut.chunk) \/ Size(cut.chunk) + Size(p) + 1 <= max
    <3>1. CASE a + b + 1 > max
      BY <1>1, <2>3, <3>1, CutFacts
    <3>2. CASE ~(a + b + 1 > max)
      BY <1>1, <2>3, <3>2
    <3> QED
      BY <3>1, <3>2
  <2> QED
    BY <1>2, <2>1, <2>4, <2>5, FilledFacts
<1> QED
  BY <1>4, <1>5

\* Paragraph by paragraph, too.
LEMMA ParagraphsFacts ==
  ASSUME NEW max \in Nat, NEW text \in Seq(Seq(Nat))
  PROVE  /\ Paragraphs(max, text) \in Cuts /\ AllShort(max, Paragraphs(max, text))
         /\ Said(Paragraphs(max, text)) = Words(text)
<1>1. PICK n \in Nat : n = Len(text) /\ \A k \in 1..n : text[k] \in Seq(Nat)
  BY LenProperties
<1>2. PICK V : V = {t \in Cuts : AllShort(max, t)}
  OBVIOUS
<1>3. PICK s : s = [done |-> <<>>, chunk |-> <<>>]
  OBVIOUS
<1>4. s \in V /\ Said(s) = <<>>
  <2>1. s.done = <<>> /\ s.chunk = <<>> /\ DOMAIN s.done = {}
    BY <1>3
  <2>2. <<>> \in Seq(Seq(Nat)) /\ <<>> \in Seq(Nat)
    BY EmptySeq
  <2>3. ShortEnough(max, <<>>)
    BY SizeAppended DEF ShortEnough
  <2>4. s \in Cuts /\ AllShort(max, s)
    BY <1>3, <2>1, <2>2, <2>3 DEF Cuts, AllShort
  <2>5. Words(<<>>) = <<>> /\ Spoken(<<>>) = <<>> /\ <<>> \o <<>> = <<>>
    BY <2>2, FlattenAppended, SpokenAppended, ConcatEmptySeq DEF Words
  <2> QED
    BY <1>2, <2>1, <2>4, <2>5 DEF Said
<1>5. PICK next : next = [k \in 1..n |-> [t \in V |-> WithParagraph(max, t, text[k])]]
  OBVIOUS
<1>6. next \in [1..n -> [V -> V]]
  <2>1. \A k \in 1..n, t \in V : WithParagraph(max, t, text[k]) \in V
    BY <1>1, <1>2, WithParagraphFacts
  <2> QED
    BY <1>5, <2>1
<1>7. PICK f \in [0..n -> V] : Recursive(f, s, next, n)
  BY <1>4, <1>6, Recursion
<1>8. ASSUME NEW k \in 1..n PROVE f[k] = WithParagraph(max, f[k - 1], text[k]) /\ f[k - 1] \in V
  <2>1. k \in 0..n /\ k # 0 /\ k - 1 \in 0..n
    OBVIOUS
  <2>2. f[k] = next[k][f[k - 1]] /\ f[k - 1] \in V
    BY <1>7, <2>1 DEF Recursive
  <2> QED
    BY <1>5, <2>2
<1>9. f[0] = s
  BY <1>7 DEF Recursive
<1>10. f = [k \in 0..n |-> IF k = 0 THEN s ELSE WithParagraph(max, f[k - 1], text[k])]
  <2>1. \A k \in 0..n : k = 0 \/ k \in 1..n
    OBVIOUS
  <2>2. \A k \in 0..n : f[k] = IF k = 0 THEN s ELSE WithParagraph(max, f[k - 1], text[k])
    BY <1>8, <1>9, <2>1
  <2> QED
    BY <2>2
<1>11. PICK h : /\ h = [k \in 0..n |-> IF k = 0 THEN s ELSE WithParagraph(max, h[k - 1], text[k])]
                /\ Paragraphs(max, text) = h[n]
  <2>1. \E h : h = [k \in 0..Len(text) |->
                      IF k = 0 THEN [done |-> <<>>, chunk |-> <<>>] ELSE WithParagraph(max, h[k - 1], text[k])]
    BY <1>1, <1>3, <1>10
  <2>2. \E h : /\ h = [k \in 0..Len(text) |->
                         IF k = 0 THEN [done |-> <<>>, chunk |-> <<>>] ELSE WithParagraph(max, h[k - 1], text[k])]
               /\ Paragraphs(max, text) = h[Len(text)]
    BY <2>1 DEF Paragraphs
  <2> QED
    BY <1>1, <1>3, <2>2
<1>12. h[n] = f[n]
  <2>1. \A k \in 1..n : k \in 0..n /\ k # 0
    OBVIOUS
  <2>2. \A k \in 1..n : h[k] = WithParagraph(max, h[k - 1], text[k])
    BY <1>11, <2>1
  <2>3. \A k \in 1..n : f[k - 1] = h[k - 1] => f[k] = h[k]
    BY <1>8, <2>2
  <2>4. f[0] = h[0]
    BY <1>9, <1>11
  <2>5. StepAlike(f, h, n)
    BY <2>3, <2>4 DEF StepAlike
  <2> QED
    BY <2>5, SameRecursion
<1>13. CASE text = <<>>
  <2>1. n = 0 /\ Words(text) = <<>>
    BY <1>1, <1>13, EmptySeq, FlattenAppended, SpokenAppended DEF Words
  <2> QED
    BY <1>2, <1>4, <1>9, <1>11, <1>12, <2>1
<1>14. CASE text # <<>>
  <2>1. PICK g \in [1..n -> Seq(Nat)] :
          /\ g[1] = text[1] /\ \A i \in 2..n : g[i] = g[i - 1] \o text[i]
          /\ FlattenSeq(text) = g[n]
    BY <1>1, <1>14, Flattened
  <2>2. n \in 1..n /\ 1 \in 1..n /\ n \in Nat \ {0}
    BY <1>1, <1>14, EmptySeq
  <2>3. PICK R : R = {k \in 0..n : k # 0 => Said(f[k]) = Spoken(g[k])}
    OBVIOUS
  <2>4. 0 \in R
    BY <2>3
  <2>5. ASSUME NEW i \in 0..(n - 1), i \in R PROVE i + 1 \in R
    <3>1. i + 1 \in 1..n /\ i + 1 \in 0..n /\ (i + 1) - 1 = i /\ i \in 0..n
      OBVIOUS
    <3>2. PICK p \in Seq(Nat) : p = text[i + 1]
      BY <1>1, <3>1
    <3>3. PICK t \in Cuts : t = f[i] /\ AllShort(max, t)
      BY <1>2, <3>1
    <3>4. Said(f[i + 1]) = Said(t) \o Spoken(p)
      <4>1. f[i + 1] = WithParagraph(max, t, p)
        BY <1>8, <3>1, <3>2, <3>3
      <4>2. Said(WithParagraph(max, t, p)) = Said(t) \o Spoken(p)
        BY <3>3, WithParagraphFacts
      <4> QED
        BY <4>1, <4>2
    <3>5. CASE i = 0
      <4>1. Said(t) = <<>> /\ Spoken(p) \in Seq(Nat) /\ g[i + 1] = p
        BY <1>4, <1>9, <2>1, <3>2, <3>3, <3>5, SpokenAppended
      <4>2. Said(f[i + 1]) = Spoken(g[i + 1])
        BY <3>4, <4>1, ConcatEmptySeq
      <4> QED
        BY <2>3, <3>1, <4>2
    <3>6. CASE i # 0
      <4>1. i + 1 \in 2..n /\ i \in 1..n
        BY <3>6
      <4>2. PICK u \in Seq(Nat) : u = g[i]
        BY <2>1, <4>1
      <4>3. g[i + 1] = u \o p
        BY <2>1, <3>1, <3>2, <4>1, <4>2
      <4>4. Said(t) = Spoken(u)
        BY <2>3, <2>5, <3>3, <3>6, <4>2
      <4>5. Spoken(u \o p) = Spoken(u) \o Spoken(p)
        BY JoinedChunks
      <4>6. Said(f[i + 1]) = Spoken(g[i + 1])
        BY <3>4, <4>3, <4>4, <4>5
      <4> QED
        BY <2>3, <3>1, <4>6
    <3> QED
      BY <3>5, <3>6
  <2>6. 0..n \subseteq R
    BY <2>4, <2>5, CountingUp
  <2>7. n \in R /\ f[n] \in V
    BY <2>6
  <2> QED
    BY <1>2, <1>11, <1>12, <2>1, <2>2, <2>3, <2>7 DEF Words
<1> QED
  BY <1>13, <1>14

\* The chunks of a reply have its words, all of them in order, and none is
\* longer than the platform accepts unless it is one single word.
THEOREM SplitMessageKeepsTheWords ==
  ASSUME NEW max \in Nat, NEW text \in Seq(Seq(Nat))
  PROVE  /\ SplitMessage(max, text) \in Seq(Seq(Nat))
         /\ Words(SplitMessage(max, text)) = Words(text)
         /\ \A k \in DOMAIN SplitMessage(max, text) : ShortEnough(max, SplitMessage(max, text)[k])
<1>1. PICK whole \in Seq(Nat) : whole = FlattenSeq(text)
  BY FlattenAppended
<1>2. CASE Size(whole) <= max
  <2>1. SplitMessage(max, text) = <<whole>>
    BY <1>1, <1>2 DEF SplitMessage
  <2>2. PICK e \in Seq(Seq(Nat)) : e = <<>>
    BY EmptySeq
  <2>3. Append(e, whole) = <<whole>> /\ <<whole>> \in Seq(Seq(Nat))
    BY <2>2
  <2>4. FlattenSeq(<<whole>>) = whole
    <3>1. FlattenSeq(Append(e, whole)) = FlattenSeq(e) \o whole /\ FlattenSeq(e) = <<>>
      BY <2>2, FlattenAppended
    <3> QED
      BY <2>3, <3>1, ConcatEmptySeq
  <2>5. \A k \in DOMAIN <<whole>> : <<whole>>[k] = whole
    OBVIOUS
  <2>6. ShortEnough(max, whole)
    BY <1>2 DEF ShortEnough
  <2> QED
    BY <1>1, <2>1, <2>3, <2>4, <2>5, <2>6 DEF Words
<1>3. CASE ~(Size(whole) <= max)
  <2>1. PICK s \in Cuts : s = Paragraphs(max, text) /\ AllShort(max, s) /\ Said(s) = Words(text)
    BY ParagraphsFacts
  <2>2. SplitMessage(max, text) = CutIfAny(s).done
    BY <1>1, <1>3, <2>1 DEF SplitMessage
  <2>3. PICK t \in Cuts : t = CutIfAny(s) /\ AllShort(max, t) /\ Words(t.done) = Said(s)
    BY <2>1, CutFacts
  <2> QED
    BY <2>1, <2>2, <2>3 DEF Cuts, AllShort
<1> QED
  BY <1>2, <1>3
-----------------------------------------------------------------------------
(* What the Telegram chat shows *)

Tried == [reply : 1..Len(Replies), chunk : Nat \ {0}, mode : {"file", "html", "plain"}, attempt : 1..MaxAttempts]
Spot == Nat \X Nat
Before(a, b) == a[1] < b[1] \/ (a[1] = b[1] /\ a[2] < b[2])

SpeechTypes ==
  /\ outgoing \in 0..Len(Replies) /\ timeouts \in 0..MaxTimeouts
  /\ sending \in Tried \cup {Nothing} /\ (Sending => sending.reply = outgoing)
  /\ (Sending /\ sending.mode = "file" => sending.chunk = 1)
  /\ chat \in Seq(Spot)

\* What has been shown comes before a spot, or is there by a call that failed.
ShownBefore(spot) == \A i \in DOMAIN chat : Before(chat[i], spot) \/ (chat[i] = spot /\ spot \in uncertain)
ShownTo(spot) == \A i \in DOMAIN chat : Before(chat[i], spot) \/ chat[i] = spot
ShownOf(r) == \A i \in DOMAIN chat : chat[i][1] <= r

ChatInOrder ==
  \A i, j \in DOMAIN chat : i < j => Before(chat[i], chat[j]) \/ (chat[i] = chat[j] /\ chat[i] \in uncertain)

SpeechInv ==
  /\ SpeechTypes /\ ChatInOrder
  /\ IF Sending THEN ShownBefore(This) ELSE ShownOf(outgoing)

LEMMA TriedIsSomething == \A t \in Tried : t # Nothing /\ t.mode # "none"
<1>1. ASSUME NEW t \in Tried PROVE t # Nothing /\ t.mode # "none"
  <2>1. t.mode \in {"file", "html", "plain"}
    BY DEF Tried
  <2>2. Nothing.mode = "none"
    BY DEF Nothing
  <2> QED
    BY <2>1, <2>2
<1> QED
  BY <1>1

LEMMA TryIsTried ==
  ASSUME NEW r \in 1..Len(Replies), NEW k \in Nat \ {0}, NEW mode \in {"file", "html", "plain"}
  PROVE  Try(r, k, mode) \in Tried /\ Try(r, k, mode).reply = r /\ Try(r, k, mode).chunk = k /\ Try(r, k, mode).mode = mode
<1>1. 1 \in 1..MaxAttempts
  BY TelegramAssumption
<1> QED
  BY <1>1 DEF Try, Tried

\* A text that is shown where the dispatcher is keeps the chat in order.
LEMMA ChatGrows ==
  ASSUME chat \in Seq(Spot), ChatInOrder, NEW spot \in Spot, ShownBefore(spot),
         chat' = chat \/ chat' = Append(chat, spot), uncertain \subseteq uncertain'
  PROVE  chat' \in Seq(Spot) /\ ChatInOrder' /\ ShownTo(spot)'
<1>1. PICK n \in Nat : n = Len(chat) /\ DOMAIN chat = 1..n /\ \A i \in 1..n : chat[i] \in Spot
  BY QueueShape
<1>2. CASE chat' = chat
  BY <1>2 DEF ChatInOrder, ShownBefore, ShownTo
<1>3. CASE chat' = Append(chat, spot)
  <2>1. /\ DOMAIN chat' = 1..(n + 1) /\ chat'[n + 1] = spot /\ \A i \in 1..n : chat'[i] = chat[i]
        /\ chat' \in Seq(Spot)
    BY <1>1, <1>3, QueueShape
  <2>2. ASSUME NEW i \in 1..(n + 1), NEW j \in 1..(n + 1), i < j
        PROVE  Before(chat'[i], chat'[j]) \/ (chat'[i] = chat'[j] /\ chat'[i] \in uncertain')
    <3>1. i \in 1..n /\ (j \in 1..n \/ j = n + 1)
      BY <2>2
    <3>2. CASE j \in 1..n
      BY <1>1, <2>1, <2>2, <3>1, <3>2 DEF ChatInOrder
    <3>3. CASE j = n + 1
      BY <1>1, <2>1, <3>1, <3>3 DEF ShownBefore
    <3> QED
      BY <3>1, <3>2, <3>3
  <2>3. ASSUME NEW i \in 1..(n + 1) PROVE Before(chat'[i], spot) \/ chat'[i] = spot
    <3>1. i \in 1..n \/ i = n + 1
      OBVIOUS
    <3> QED
      BY <1>1, <2>1, <3>1 DEF ShownBefore
  <2> QED
    BY <2>1, <2>2, <2>3 DEF ChatInOrder, ShownTo
<1> QED
  BY <1>2, <1>3

LEMMA SpotsInOrder ==
  ASSUME NEW a \in Spot, NEW r \in Nat, NEW k \in Nat
  PROVE  /\ <<r, k>> \in Spot
         /\ Before(a, <<r, k>>) => a[1] <= r /\ \A l \in Nat : k < l => Before(a, <<r, l>>)
         /\ \A s \in Nat : a[1] < s => Before(a, <<s, k>>)
         /\ a = <<r, k>> => a[1] <= r /\ \A l \in Nat : k < l => Before(a, <<r, l>>)
<1>1. PICK x \in Nat, y \in Nat : a = <<x, y>> /\ a[1] = x /\ a[2] = y
  BY DEF Spot
<1>2. /\ <<r, k>> \in Spot /\ \A l \in Nat, s \in Nat : <<s, l>>[1] = s /\ <<s, l>>[2] = l
  BY DEF Spot
<1>3. a = <<r, k>> => x = r /\ y = k
  BY <1>1, <1>2
<1> QED
  BY <1>1, <1>2, <1>3 DEF Before

\* The chunk is done: the next one, or the next reply.
LEMMA MovesOn ==
  ASSUME NEW t \in Tried, sending = t, t.reply = outgoing, outgoing' = outgoing, timeouts' \in 0..MaxTimeouts,
         NextChunk, chat' \in Seq(Spot), ChatInOrder', ShownTo(<<t.reply, t.chunk>>)'
  PROVE  SpeechInv'
<1>1. PICK r \in 1..Len(Replies), k \in Nat \ {0} : r = t.reply /\ k = t.chunk /\ r \in Nat
  BY TelegramAssumption, LenProperties DEF Tried
<1>2. \A i \in DOMAIN chat' : chat'[i] \in Spot
  BY QueueShape
<1>3. ShownOf(r)'
  <2>1. ASSUME NEW i \in DOMAIN chat' PROVE chat'[i][1] <= r
    <3>1. PICK a \in Spot : a = chat'[i]
      BY <1>2
    <3>2. Before(a, <<r, k>>) \/ a = <<r, k>>
      BY <1>1, <3>1 DEF ShownTo
    <3> QED
      BY <1>1, <3>1, <3>2, SpotsInOrder
  <2> QED
    BY <2>1 DEF ShownOf
<1>4. ShownBefore(<<r, k + 1>>)'
  <2>1. ASSUME NEW i \in DOMAIN chat' PROVE Before(chat'[i], <<r, k + 1>>)
    <3>1. PICK a \in Spot : a = chat'[i]
      BY <1>2
    <3>2. Before(a, <<r, k>>) \/ a = <<r, k>>
      BY <1>1, <3>1 DEF ShownTo
    <3>3. k + 1 \in Nat /\ k < k + 1
      OBVIOUS
    <3> QED
      BY <1>1, <3>1, <3>2, <3>3, SpotsInOrder
  <2> QED
    BY <2>1 DEF ShownBefore
<1>5. outgoing' \in 0..Len(Replies) /\ outgoing' = r
  BY <1>1
<1>6. sending' = Try(r, k + 1, "html") \/ sending' = Nothing
  BY <1>1 DEF NextChunk
<1>7. CASE sending' = Try(r, k + 1, "html")
  <2>1. sending' \in Tried /\ sending'.reply = r /\ sending'.chunk = k + 1 /\ sending'.mode = "html"
    BY <1>7, TryIsTried
  <2>2. Sending' /\ This' = <<r, k + 1>>
    BY <2>1, TriedIsSomething DEF Sending, This
  <2>3. ShownBefore(This)'
    BY <1>4, <2>2 DEF ShownBefore
  <2> QED
    BY <1>5, <2>1, <2>2, <2>3 DEF SpeechInv, SpeechTypes
<1>8. CASE sending' = Nothing
  <2>1. ~Sending'
    BY <1>8 DEF Sending
  <2>2. ShownOf(outgoing)'
    BY <1>3, <1>5 DEF ShownOf
  <2> QED
    BY <1>5, <1>8, <2>1, <2>2 DEF SpeechInv, SpeechTypes
<1> QED
  BY <1>6, <1>7, <1>8

\* The chunk is tried again.
LEMMA StaysThere ==
  ASSUME NEW t \in Tried, t.reply = outgoing, outgoing' = outgoing, timeouts' \in 0..MaxTimeouts,
         sending' \in Tried, sending'.reply = t.reply, sending'.chunk = t.chunk,
         sending'.mode = "file" => t.chunk = 1,
         chat' \in Seq(Spot), ChatInOrder', ShownBefore(<<t.reply, t.chunk>>)'
  PROVE  SpeechInv'
<1>1. PICK r \in 1..Len(Replies), k \in Nat \ {0} : r = t.reply /\ k = t.chunk /\ r \in Nat
  BY TelegramAssumption, LenProperties DEF Tried
<1>2. outgoing' \in 0..Len(Replies) /\ outgoing' = r
  BY <1>1
<1>3. Sending' /\ This' = <<r, k>>
  BY <1>1, TriedIsSomething DEF Sending, This
<1>4. ShownBefore(This)'
  BY <1>1, <1>3 DEF ShownBefore
<1> QED
  BY <1>1, <1>2, <1>3, <1>4 DEF SpeechInv, SpeechTypes

LEMMA FallsBack ==
  ASSUME NEW t \in Tried, sending = t, t.reply = outgoing, outgoing' = outgoing, timeouts' \in 0..MaxTimeouts,
         FallBack, chat' \in Seq(Spot), ChatInOrder', ShownBefore(<<t.reply, t.chunk>>)'
  PROVE  SpeechInv'
<1>1. CASE sending.mode = "html"
  <2>1. t.reply \in 1..Len(Replies) /\ t.chunk \in Nat \ {0}
    BY DEF Tried
  <2>2. sending' = Try(t.reply, t.chunk, "plain")
    BY <1>1 DEF FallBack
  <2>3. sending' \in Tried /\ sending'.reply = t.reply /\ sending'.chunk = t.chunk /\ sending'.mode = "plain"
    BY <2>1, <2>2, TryIsTried
  <2> QED
    BY <2>3, StaysThere
<1>2. CASE sending.mode # "html"
  <2>1. NextChunk
    BY <1>2 DEF FallBack
  <2>2. ShownTo(<<t.reply, t.chunk>>)'
    BY DEF ShownBefore, ShownTo
  <2> QED
    BY <2>1, <2>2, MovesOn
<1> QED
  BY <1>1, <1>2

\* A call that failed keeps the chat in order, whether it was carried out or not.
LEMMA ChatMayGrow ==
  ASSUME chat \in Seq(Spot), ChatInOrder, NEW spot \in Spot, spot = This, ShownBefore(spot), ShownOrNot
  PROVE  chat' \in Seq(Spot) /\ ChatInOrder' /\ ShownBefore(spot)'
<1>1. CASE UNCHANGED <<chat, uncertain>>
  BY <1>1 DEF ChatInOrder, ShownBefore
<1>2. CASE chat' = Append(chat, spot) /\ uncertain' = uncertain \cup {spot}
  <2>1. chat' \in Seq(Spot) /\ ChatInOrder' /\ ShownTo(spot)'
    BY <1>2, ChatGrows
  <2> QED
    BY <1>2, <2>1 DEF ShownTo, ShownBefore
<1> QED
  BY <1>1, <1>2 DEF ShownOrNot

LEMMA SpeechStart == TelegramInit => SpeechInv
<1> SUFFICES ASSUME TelegramInit PROVE SpeechInv
  OBVIOUS
<1>1. outgoing = 0 /\ sending = Nothing /\ chat = <<>> /\ timeouts = 0 /\ ~Sending
  BY DEF TelegramInit, Sending
<1>2. Len(Replies) \in Nat /\ MaxTimeouts \in Nat
  BY TelegramAssumption, LenProperties
<1>3. chat \in Seq(Spot) /\ DOMAIN chat = {}
  BY <1>1, EmptySeq
<1> QED
  BY <1>1, <1>2, <1>3 DEF SpeechInv, SpeechTypes, ChatInOrder, ShownOf

LEMMA SpeechStep == SpeechInv /\ [TelegramNext]_telegramVars => SpeechInv'
<1> SUFFICES ASSUME SpeechInv, [TelegramNext]_telegramVars PROVE SpeechInv'
  OBVIOUS
<1>0. SpeechTypes /\ ChatInOrder /\ Len(Replies) \in Nat /\ MaxTimeouts \in Nat
  BY TelegramAssumption, LenProperties DEF SpeechInv
<1>1. CASE UNCHANGED outboundVars
  <2>1. UNCHANGED <<outgoing, sending, chat, uncertain, timeouts>>
    BY <1>1 DEF outboundVars
  <2>2. Sending' = Sending /\ This' = This /\ ChatInOrder' /\ SpeechTypes'
    BY <1>0, <2>1 DEF Sending, This, ChatInOrder, SpeechTypes
  <2>3. CASE Sending
    <3>1. ShownBefore(This)'
      BY <2>1, <2>2, <2>3 DEF SpeechInv, ShownBefore
    <3> QED
      BY <2>2, <2>3, <3>1 DEF SpeechInv
  <2>4. CASE ~Sending
    <3>1. ShownOf(outgoing)'
      BY <2>1, <2>2, <2>4 DEF SpeechInv, ShownOf
    <3> QED
      BY <2>2, <2>4, <3>1 DEF SpeechInv
  <2> QED
    BY <2>3, <2>4
<1>2. ASSUME NEW media \in BOOLEAN, SendReply(media) PROVE SpeechInv'
  <2>1. ~Sending /\ outgoing' = outgoing + 1 /\ outgoing < Len(Replies) /\ UNCHANGED <<chat, uncertain, timeouts>>
    BY <1>2 DEF SendReply
  <2>2. PICK r \in 1..Len(Replies) : r = outgoing + 1 /\ outgoing' = r /\ r \in Nat /\ r \in 0..Len(Replies)
    BY <1>0, <2>1 DEF SpeechTypes
  <2>3. ShownOf(outgoing)
    BY <2>1 DEF SpeechInv
  <2>4. chat' \in Seq(Spot) /\ ChatInOrder'
    BY <1>0, <2>1 DEF SpeechTypes, ChatInOrder
  <2>5. \A i \in DOMAIN chat : chat[i] \in Spot
    BY <1>0, QueueShape DEF SpeechTypes
  <2>6. ASSUME NEW i \in DOMAIN chat PROVE chat[i][1] <= r /\ Before(chat[i], <<r, 1>>)
    <3>1. PICK a \in Spot, x \in Nat : a = chat[i] /\ x = a[1]
      BY <2>5 DEF Spot
    <3>2. x <= outgoing /\ outgoing \in Nat
      BY <1>0, <2>3, <3>1 DEF ShownOf, SpeechTypes
    <3>3. x < r
      BY <2>2, <3>2
    <3>4. Before(a, <<r, 1>>)
      BY <2>2, <3>1, <3>3, SpotsInOrder
    <3> QED
      BY <2>2, <3>1, <3>3, <3>4
  <2>7. ShownOf(r)' /\ ShownBefore(<<r, 1>>)'
    BY <2>1, <2>6 DEF ShownOf, ShownBefore
  <2>8. CASE bot = "stopped"
    <3>1. sending' = Nothing
      BY <1>2, <2>1, <2>8 DEF SendReply, Sending
    <3>2. ~Sending' /\ ShownOf(outgoing)'
      BY <2>2, <2>7, <3>1 DEF Sending, ShownOf
    <3>3. SpeechTypes'
      BY <1>0, <2>1, <2>2, <2>4, <3>1, <3>2 DEF SpeechTypes
    <3> QED
      BY <2>4, <3>2, <3>3 DEF SpeechInv
  <2>9. CASE bot # "stopped"
    <3>1. sending' = Try(r, 1, IF media THEN "file" ELSE "html")
      BY <1>2, <2>2, <2>9 DEF SendReply
    <3>2. PICK mode \in {"file", "html", "plain"} : sending' = Try(r, 1, mode)
      BY <3>1
    <3>3. sending' \in Tried /\ sending'.reply = r /\ sending'.chunk = 1
      BY <3>2, TryIsTried
    <3>4. Sending' /\ This' = <<r, 1>>
      BY <3>3, TriedIsSomething DEF Sending, This
    <3>5. ShownBefore(This)'
      BY <2>7, <3>4 DEF ShownBefore
    <3>6. SpeechTypes'
      BY <1>0, <2>1, <2>2, <2>4, <3>3 DEF SpeechTypes
    <3> QED
      BY <2>4, <3>4, <3>5, <3>6 DEF SpeechInv
  <2> QED
    BY <2>8, <2>9
<1>3. ASSUME Sending, outgoing' = outgoing, SendFile \/ SendText \/ TextFails \/ TextTimesOut PROVE SpeechInv'
  <2>1. PICK t \in Tried : t = sending
    BY <1>0, <1>3 DEF Sending, SpeechTypes
  <2>2. t.reply = outgoing /\ t.reply \in 1..Len(Replies) /\ t.chunk \in Nat \ {0} /\ t.attempt \in 1..MaxAttempts
    BY <1>0, <1>3, <2>1 DEF SpeechTypes, Tried
  <2>3. PICK spot \in Spot : spot = <<t.reply, t.chunk>> /\ spot = This
    <3>1. t.reply \in Nat /\ t.chunk \in Nat
      BY <1>0, <2>2
    <3> QED
      BY <2>1, <3>1 DEF This, Spot
  <2>4. ShownBefore(spot) /\ chat \in Seq(Spot)
    BY <1>0, <1>3, <2>3 DEF SpeechInv, SpeechTypes
  <2>5. CASE SendFile
    <3>1. UNCHANGED <<chat, uncertain, timeouts>> /\ sending' \in {Try(t.reply, 1, "html"), Nothing}
      BY <2>1, <2>5 DEF SendFile
    <3>2. t.chunk = 1
      BY <1>0, <1>3, <2>1, <2>5 DEF SpeechTypes, SendFile
    <3>3. chat' \in Seq(Spot) /\ ChatInOrder' /\ timeouts' \in 0..MaxTimeouts /\ ShownBefore(<<t.reply, t.chunk>>)'
      BY <1>0, <2>3, <2>4, <3>1 DEF ShownBefore, ChatInOrder, SpeechTypes
    <3>4. CASE sending' = Try(t.reply, 1, "html")
      <4>1. sending' \in Tried /\ sending'.reply = t.reply /\ sending'.chunk = 1 /\ sending'.mode = "html"
        BY <2>2, <3>4, TryIsTried
      <4> QED
        BY <1>3, <2>2, <3>2, <3>3, <4>1, StaysThere
    <3>5. CASE sending' = Nothing
      <4>1. ~Sending'
        BY <3>5 DEF Sending
      <4>2. ASSUME NEW i \in DOMAIN chat' PROVE chat'[i][1] <= outgoing'
        <5>1. PICK a \in Spot, r \in Nat, k \in Nat : a = chat'[i] /\ r = t.reply /\ k = t.chunk
          BY <1>0, <2>2, <3>3, QueueShape
        <5>2. Before(a, <<r, k>>) \/ a = <<r, k>>
          BY <3>3, <5>1 DEF ShownBefore
        <5>3. a[1] <= r
          BY <5>2, SpotsInOrder
        <5> QED
          BY <1>3, <2>2, <5>1, <5>3
      <4>3. ShownOf(outgoing)'
        BY <4>2 DEF ShownOf
      <4>4. outgoing' \in 0..Len(Replies)
        BY <1>0, <1>3 DEF SpeechTypes
      <4> QED
        BY <3>3, <3>5, <4>1, <4>3, <4>4 DEF SpeechInv, SpeechTypes
    <3> QED
      BY <3>1, <3>4, <3>5
  <2>6. CASE SendText
    <3>1. NextChunk /\ chat' = Append(chat, spot) /\ UNCHANGED <<uncertain, timeouts>>
      BY <2>3, <2>6 DEF SendText
    <3>2. chat' \in Seq(Spot) /\ ChatInOrder' /\ ShownTo(spot)'
      BY <1>0, <2>4, <3>1, ChatGrows
    <3>3. ShownTo(<<t.reply, t.chunk>>)' /\ timeouts' \in 0..MaxTimeouts
      BY <1>0, <2>3, <3>1, <3>2 DEF SpeechTypes
    <3> QED
      BY <1>3, <2>1, <2>2, <3>1, <3>2, <3>3, MovesOn
  <2>7. CASE TextFails
    <3>1. FallBack /\ timeouts' \in 0..MaxTimeouts /\ ShownOrNot
      BY <1>0, <2>7 DEF TextFails, SpeechTypes
    <3>2. ShownBefore(<<t.reply, t.chunk>>)' /\ ChatInOrder' /\ chat' \in Seq(Spot)
      BY <1>0, <2>3, <2>4, <3>1, ChatMayGrow
    <3> QED
      BY <1>3, <2>1, <2>2, <3>1, <3>2, FallsBack
  <2>8. CASE TextTimesOut
    <3>0. timeouts < MaxTimeouts /\ timeouts' = timeouts + 1
      BY <2>8 DEF TextTimesOut
    <3>1. timeouts' \in 0..MaxTimeouts /\ ShownOrNot
      BY <1>0, <2>8, <3>0 DEF TextTimesOut, SpeechTypes
    <3>2. chat' \in Seq(Spot) /\ ChatInOrder' /\ ShownBefore(spot)'
      BY <1>0, <2>3, <2>4, <3>1, ChatMayGrow
    <3>3. ShownBefore(<<t.reply, t.chunk>>)'
      BY <2>3, <3>2
    <3>4. CASE sending.attempt < MaxAttempts
      <4>1. sending' = [t EXCEPT !.attempt = t.attempt + 1]
        BY <2>1, <2>8, <3>4 DEF TextTimesOut
      <4>2. t.attempt + 1 \in 1..MaxAttempts
        BY <2>1, <2>2, <3>4, TelegramAssumption
      <4>3. sending' \in Tried /\ sending'.reply = t.reply /\ sending'.chunk = t.chunk /\ sending'.mode # "file"
        BY <2>1, <2>8, <4>1, <4>2 DEF Tried, TextTimesOut
      <4> QED
        BY <1>3, <2>2, <3>1, <3>2, <3>3, <4>3, StaysThere
    <3>5. CASE ~(sending.attempt < MaxAttempts)
      <4>1. FallBack
        BY <2>8, <3>5 DEF TextTimesOut
      <4> QED
        BY <1>3, <2>1, <2>2, <3>1, <3>2, <3>3, <4>1, FallsBack
    <3> QED
      BY <3>4, <3>5
  <2> QED
    BY <1>3, <2>5, <2>6, <2>7, <2>8
<1>4. ASSUME SendFile \/ SendText \/ TextFails \/ TextTimesOut PROVE Sending /\ outgoing' = outgoing
  BY <1>4 DEF SendFile, SendText, TextFails, TextTimesOut
<1>5. ASSUME Hears \/ Shuts PROVE UNCHANGED outboundVars
  BY <1>5 DEF Hears, Shuts, Arrive, TakeUpdate, HandleSingle, BufferPart, FlushAlbum, StopTelegram, TelegramStopped
<1>6. ASSUME UNCHANGED telegramVars PROVE UNCHANGED outboundVars
  BY <1>6 DEF telegramVars
<1> QED
  BY <1>1, <1>2, <1>3, <1>4, <1>5, <1>6 DEF TelegramNext, Speaks

\* The Telegram chat shows the texts of replies and their chunks in order, one
\* twice only after a call that failed though it was carried out, and the chunks
\* hold all words of the reply.
THEOREM RepliesStayRead == TelegramSpec => []RepliesRead
<1>1. SpeechInv => RepliesRead
  <2> SUFFICES ASSUME SpeechInv PROVE RepliesRead
    OBVIOUS
  <2>1. SpeechTypes /\ ChatInOrder
    BY DEF SpeechInv
  <2>2. \A i, j \in DOMAIN chat : i < j =>
          \/ chat[i][1] < chat[j][1]
          \/ chat[i][1] = chat[j][1] /\ chat[i][2] < chat[j][2]
          \/ chat[i] = chat[j] /\ chat[i] \in uncertain
    BY <2>1 DEF ChatInOrder, Before
  <2>3. ASSUME NEW r \in 1..outgoing
        PROVE  /\ Words(ReplyChunks[r]) = Words(Replies[r])
               /\ \A k \in DOMAIN ReplyChunks[r] :
                    Size(ReplyChunks[r][k]) <= MaxChunk \/ Len(ReplyChunks[r][k]) = 1
    <3>1. r \in DOMAIN Replies
      <4>1. Replies \in Seq(Seq(Seq(Nat))) /\ Len(Replies) \in Nat /\ DOMAIN Replies = 1..Len(Replies)
        BY TelegramAssumption, LenProperties
      <4> QED
        BY <2>1, <4>1 DEF SpeechTypes
    <3>2. PICK text \in Seq(Seq(Nat)) : text = Replies[r]
      BY <3>1, TelegramAssumption, ElementOfSeq, LenProperties
    <3>3. MaxChunk \in Nat
      BY TelegramAssumption
    <3>4. PICK chunks : chunks = SplitMessage(MaxChunk, text) /\ chunks = ReplyChunks[r]
      BY <3>1, <3>2 DEF ReplyChunks
    <3>5. Words(chunks) = Words(text) /\ \A k \in DOMAIN chunks : ShortEnough(MaxChunk, chunks[k])
      BY <3>3, <3>4, SplitMessageKeepsTheWords
    <3> QED
      BY <3>2, <3>4, <3>5 DEF ShortEnough
  <2> QED
    BY <2>2, <2>3 DEF RepliesRead
<1> QED
  BY <1>1, SpeechStart, SpeechStep, PTL DEF TelegramSpec
-----------------------------------------------------------------------------
(* How a text becomes cards *)

\* A queue that is not empty, and what Front and Last take of it.
LEMMA FrontAndLast ==
  ASSUME NEW S, NEW s \in Seq(S), s # <<>>
  PROVE  /\ Front(s) \in Seq(S) /\ Last(s) \in S /\ s = Append(Front(s), Last(s))
         /\ \A e : Front(s) \o <<e>> = Append(Front(s), e)
<1>1. PICK r \in Seq(S), x \in S : s = Append(r, x)
  BY SequenceEmptyOrAppend
<1>2. PICK n \in Nat : n = Len(r) /\ DOMAIN r = 1..n
  BY LenProperties
<1>3. Len(s) = n + 1 /\ s[n + 1] = x /\ \A i \in 1..n : s[i] = r[i]
  BY <1>1, <1>2, AppendProperties
<1>4. Last(s) = x
  BY <1>3 DEF Last
<1>5. Front(s) = r
  <2>1. Front(s) = SubSeq(s, 1, n)
    BY <1>2, <1>3 DEF Front
  <2>2. SubSeq(s, 1, n) = [i \in 1..n |-> s[i]]
    BY <1>2
  <2>3. SubSeq(s, 1, n) = r
    BY <1>2, <1>3, <2>2
  <2> QED
    BY <2>1, <2>3
<1>6. ASSUME NEW e PROVE r \o <<e>> = Append(r, e)
  <2>1. PICK T : T = S \cup {e}
    OBVIOUS
  <2>2. r \in Seq(T) /\ e \in T
    BY <1>2, <2>1, ElementOfSeq, IsASeq
  <2> QED
    BY <2>2, AppendIsConcat
<1> QED
  BY <1>1, <1>4, <1>5, <1>6

CardElement == [tag : {"table", "head", "markdown"}, lines : Seq(Nat)]
Tags == {"table", "head", "markdown"}

LEMMA LineTags == ASSUME NEW c, NEW l PROVE LineTag(c, l) \in Tags
BY DEF LineTag, Tags

\* The lines of some elements, one after the other.
LinesOf(es) == FlattenSeq([i \in DOMAIN es |-> es[i].lines])

\* A line adds an element, or extends the last one.
WithLineOf(es, tag, l, next) ==
  \/ next = Append(es, Element(tag, <<l>>))
  \/ /\ es # <<>> /\ tag # "head" /\ Last(es).tag = tag
     /\ next = Append(Front(es), Element(tag, Append(Last(es).lines, l)))

LEMMA WithLineIs ==
  ASSUME NEW es \in Seq(CardElement), NEW tag \in Tags, NEW l \in Nat
  PROVE  WithLineOf(es, tag, l, WithLine(es, tag, l)) /\ WithLine(es, tag, l) \in Seq(CardElement)
<1>1. CASE tag # "head" /\ es # <<>> /\ Last(es).tag = tag
  <2>1. PICK p, x, e : p = Front(es) /\ x = Last(es) /\ e = Element(tag, Append(x.lines, l))
    OBVIOUS
  <2>2. p \in Seq(CardElement) /\ x \in CardElement /\ p \o <<e>> = Append(p, e)
    BY <1>1, <2>1, FrontAndLast
  <2>3. e \in CardElement
    <3>1. Append(x.lines, l) \in Seq(Nat)
      BY <2>2, AppendProperties DEF CardElement
    <3> QED
      BY <2>1, <3>1 DEF CardElement, Element, Tags
  <2>4. Append(p, e) \in Seq(CardElement)
    BY <2>2, <2>3, AppendProperties
  <2>5. WithLine(es, tag, l) = Append(p, e)
    BY <1>1, <2>1, <2>2 DEF WithLine
  <2> QED
    BY <1>1, <2>1, <2>4, <2>5 DEF WithLineOf
<1>2. CASE ~(tag # "head" /\ es # <<>> /\ Last(es).tag = tag)
  <2>1. PICK e : e = Element(tag, <<l>>)
    OBVIOUS
  <2>2. <<l>> \in Seq(Nat)
    OBVIOUS
  <2>3. e \in CardElement
    BY <2>1, <2>2 DEF CardElement, Element, Tags
  <2>4. Append(es, e) \in Seq(CardElement)
    BY <2>3, AppendProperties
  <2>5. WithLine(es, tag, l) = Append(es, e)
    BY <1>2, <2>1 DEF WithLine
  <2> QED
    BY <2>1, <2>4, <2>5 DEF WithLineOf
<1> QED
  BY <1>1, <1>2

\* The elements are built line by line.
LEMMA ElementsByLine ==
  ASSUME NEW c, NEW n \in Nat, n = Len(c)
  PROVE  \E f \in [0..n -> Seq(CardElement)] :
           /\ f[0] = <<>> /\ \A l \in 1..n : f[l] = WithLine(f[l - 1], LineTag(c, l), l)
           /\ CardElements(c) = f[n]
<1>1. PICK V : V = Seq(CardElement)
  OBVIOUS
<1>2. PICK next : next = [l \in 1..n |-> [v \in V |-> WithLine(v, LineTag(c, l), l)]]
  OBVIOUS
<1>3. next \in [1..n -> [V -> V]] /\ <<>> \in V
  <2>1. \A l \in 1..n, v \in V : WithLine(v, LineTag(c, l), l) \in V
    <3>1. ASSUME NEW l \in 1..n, NEW v \in V PROVE WithLine(v, LineTag(c, l), l) \in V
      <4>1. l \in Nat /\ LineTag(c, l) \in Tags
        BY LineTags
      <4> QED
        BY <1>1, <4>1, WithLineIs
    <3> QED
      BY <3>1
  <2>2. <<>> \in V
    BY <1>1, EmptySeq
  <2> QED
    BY <1>2, <2>1, <2>2
<1>4. PICK f \in [0..n -> V] : Recursive(f, <<>>, next, n)
  BY <1>3, Recursion
<1>5. ASSUME NEW l \in 1..n PROVE f[l] = WithLine(f[l - 1], LineTag(c, l), l)
  <2>1. l \in 0..n /\ l # 0 /\ l - 1 \in 0..n
    OBVIOUS
  <2>2. f[l] = next[l][f[l - 1]] /\ f[l - 1] \in V
    BY <1>4, <2>1 DEF Recursive
  <2> QED
    BY <1>2, <2>2
<1>6. f[0] = <<>>
  BY <1>4 DEF Recursive
<1>7. f = [l \in 0..n |-> IF l = 0 THEN <<>> ELSE WithLine(f[l - 1], LineTag(c, l), l)]
  <2>1. \A l \in 0..n : l = 0 \/ l \in 1..n
    OBVIOUS
  <2>2. \A l \in 0..n : f[l] = IF l = 0 THEN <<>> ELSE WithLine(f[l - 1], LineTag(c, l), l)
    BY <1>5, <1>6, <2>1
  <2> QED
    BY <2>2
<1>8. PICK h : /\ h = [l \in 0..n |-> IF l = 0 THEN <<>> ELSE WithLine(h[l - 1], LineTag(c, l), l)]
               /\ CardElements(c) = h[n]
  <2>1. \E h : h = [l \in 0..Len(c) |-> IF l = 0 THEN <<>> ELSE WithLine(h[l - 1], LineTag(c, l), l)]
    BY <1>7
  <2>2. \E h : /\ h = [l \in 0..Len(c) |-> IF l = 0 THEN <<>> ELSE WithLine(h[l - 1], LineTag(c, l), l)]
               /\ CardElements(c) = h[Len(c)]
    BY <2>1 DEF CardElements
  <2> QED
    BY <2>2
<1>9. h[n] = f[n]
  <2>1. \A l \in 1..n : l \in 0..n /\ l # 0
    OBVIOUS
  <2>2. \A l \in 1..n : h[l] = WithLine(h[l - 1], LineTag(c, l), l)
    BY <1>8, <2>1
  <2>3. \A l \in 1..n : f[l - 1] = h[l - 1] => f[l] = h[l]
    BY <1>5, <2>2
  <2>4. f[0] = h[0]
    BY <1>6, <1>8
  <2>5. StepAlike(f, h, n)
    BY <2>3, <2>4 DEF StepAlike
  <2> QED
    BY <2>5, SameRecursion
<1> QED
  BY <1>1, <1>5, <1>6, <1>8, <1>9

LEMMA LinesAppended ==
  /\ LinesOf(<<>>) = <<>>
  /\ \A es \in Seq(CardElement), e \in CardElement :
       LinesOf(es) \in Seq(Nat) /\ LinesOf(Append(es, e)) = LinesOf(es) \o e.lines
<1>1. LinesOf(<<>>) = <<>>
  <2>1. [i \in DOMAIN <<>> |-> <<>>[i].lines] = <<>>
    BY EmptySeq
  <2> QED
    BY <2>1, FlattenAppended DEF LinesOf
<1>2. ASSUME NEW es \in Seq(CardElement), NEW e \in CardElement
      PROVE  LinesOf(es) \in Seq(Nat) /\ LinesOf(Append(es, e)) = LinesOf(es) \o e.lines
  <2>1. PICK n \in Nat : n = Len(es) /\ DOMAIN es = 1..n /\ \A i \in 1..n : es[i] \in CardElement
    BY LenProperties
  <2>2. PICK m : m = [i \in DOMAIN es |-> es[i].lines]
    OBVIOUS
  <2>3. m \in Seq(Seq(Nat)) /\ Len(m) = n /\ DOMAIN m = 1..n
    <3>1. m \in [1..n -> Seq(Nat)]
      BY <2>1, <2>2 DEF CardElement
    <3> QED
      BY <3>1, IsASeq, LenProperties
  <2>4. e.lines \in Seq(Nat)
    BY DEF CardElement
  <2>5. PICK d \in Seq(CardElement) : d = Append(es, e)
    BY AppendProperties
  <2>6. Len(d) = n + 1 /\ DOMAIN d = 1..(n + 1) /\ d[n + 1] = e /\ \A i \in 1..n : d[i] = es[i]
    BY <2>1, <2>5, AppendProperties, LenProperties
  <2>7. PICK a \in Seq(Seq(Nat)) : a = Append(m, e.lines)
    BY <2>3, <2>4, AppendProperties
  <2>8. Len(a) = n + 1 /\ DOMAIN a = 1..(n + 1) /\ a[n + 1] = e.lines /\ \A i \in 1..n : a[i] = m[i]
    BY <2>3, <2>4, <2>7, AppendProperties, LenProperties
  <2>9. [i \in DOMAIN d |-> d[i].lines] = a
    <3>1. \A i \in 1..(n + 1) : i \in 1..n \/ i = n + 1
      OBVIOUS
    <3>2. \A i \in 1..(n + 1) : d[i].lines = a[i]
      BY <2>1, <2>2, <2>6, <2>8, <3>1
    <3>3. a = [i \in 1..(n + 1) |-> a[i]]
      BY <2>7, <2>8, LenProperties
    <3> QED
      BY <2>6, <3>2, <3>3
  <2>10. FlattenSeq(a) = FlattenSeq(m) \o e.lines /\ FlattenSeq(m) \in Seq(Nat)
    BY <2>3, <2>4, <2>7, FlattenAppended
  <2> QED
    BY <2>2, <2>5, <2>9, <2>10 DEF LinesOf
<1> QED
  BY <1>1, <1>2

\* A line that is added comes after the others.
LEMMA LineComesLast ==
  ASSUME NEW es \in Seq(CardElement), NEW tag \in Tags, NEW l \in Nat
  PROVE  LinesOf(WithLine(es, tag, l)) = LinesOf(es) \o <<l>>
<1>1. PICK d : d = WithLine(es, tag, l) /\ WithLineOf(es, tag, l, d)
  BY WithLineIs
<1>2. CASE d = Append(es, Element(tag, <<l>>))
  <2>1. PICK e : e = Element(tag, <<l>>)
    OBVIOUS
  <2>2. <<l>> \in Seq(Nat)
    OBVIOUS
  <2>3. e \in CardElement /\ e.lines = <<l>>
    BY <2>1, <2>2 DEF CardElement, Element, Tags
  <2> QED
    BY <1>1, <1>2, <2>1, <2>3, LinesAppended
<1>3. CASE es # <<>> /\ d = Append(Front(es), Element(tag, Append(Last(es).lines, l)))
  <2>1. PICK p, x, e : p = Front(es) /\ x = Last(es) /\ e = Element(tag, Append(x.lines, l))
    OBVIOUS
  <2>a. p \in Seq(CardElement) /\ x \in CardElement /\ es = Append(p, x)
    BY <1>3, <2>1, FrontAndLast
  <2>2. p \in Seq(CardElement) /\ x \in CardElement /\ es = Append(p, x) /\ x.lines \in Seq(Nat)
    BY <2>a DEF CardElement
  <2>3. PICK y \in Seq(Nat) : y = Append(x.lines, l) /\ y = x.lines \o <<l>>
    <3>1. Append(x.lines, l) \in Seq(Nat) /\ Append(x.lines, l) = x.lines \o <<l>>
      BY <2>2, AppendProperties, AppendIsConcat
    <3> QED
      BY <3>1
  <2>4. e \in CardElement /\ e.lines = y
    BY <2>1, <2>3 DEF CardElement, Element, Tags
  <2>5. LinesOf(d) = LinesOf(p) \o (x.lines \o <<l>>) /\ LinesOf(p) \in Seq(Nat)
    BY <1>3, <2>1, <2>2, <2>3, <2>4, LinesAppended
  <2>6. LinesOf(es) = LinesOf(p) \o x.lines
    BY <2>2, LinesAppended
  <2>7. Associate(LinesOf(p), x.lines, <<l>>)
    <3>1. <<l>> \in Seq(Nat)
      OBVIOUS
    <3> QED
      BY <2>2, <2>5, <3>1, OneAfterAnother
  <2> QED
    BY <1>1, <2>5, <2>6, <2>7 DEF Associate
<1> QED
  BY <1>1, <1>2, <1>3 DEF WithLineOf

\* A heading is one line that is taken for a heading.
HeadOf(c, e, k) == e.tag = "head" => \E l \in 1..k : e.lines = <<l>> /\ LineTag(c, l) = "head"
HeadsOf(c, es, k) == \A i \in DOMAIN es : HeadOf(c, es[i], k)

LEMMA HeadsAppended ==
  ASSUME NEW c, NEW k, NEW es \in Seq(CardElement), HeadsOf(c, es, k), NEW e \in CardElement, HeadOf(c, e, k)
  PROVE  HeadsOf(c, Append(es, e), k)
<1>1. PICK n \in Nat : n = Len(es) /\ DOMAIN es = 1..n
  BY LenProperties
<1>2. PICK d \in Seq(CardElement) : d = Append(es, e)
  BY AppendProperties
<1>3. DOMAIN d = 1..(n + 1) /\ d[n + 1] = e /\ \A i \in 1..n : d[i] = es[i]
  BY <1>1, <1>2, AppendProperties, LenProperties
<1>4. \A i \in 1..(n + 1) : i \in 1..n \/ i = n + 1
  OBVIOUS
<1> QED
  BY <1>1, <1>2, <1>3, <1>4 DEF HeadsOf

LEMMA HeadsKept ==
  ASSUME NEW c, NEW l \in Nat \ {0}, NEW es \in Seq(CardElement), HeadsOf(c, es, l - 1)
  PROVE  HeadsOf(c, WithLine(es, LineTag(c, l), l), l)
<1>1. PICK tag \in Tags : tag = LineTag(c, l)
  BY LineTags
<1>2. PICK d : d = WithLine(es, tag, l) /\ WithLineOf(es, tag, l, d)
  BY <1>1, WithLineIs
<1>3. \A k \in 1..(l - 1) : k \in 1..l
  OBVIOUS
<1>4. HeadsOf(c, es, l)
  BY <1>3 DEF HeadsOf, HeadOf
<1>5. CASE d = Append(es, Element(tag, <<l>>))
  <2>1. PICK e : e = Element(tag, <<l>>)
    OBVIOUS
  <2>2. <<l>> \in Seq(Nat) /\ l \in 1..l
    OBVIOUS
  <2>3. e \in CardElement /\ e.tag = tag /\ e.lines = <<l>>
    BY <2>1, <2>2 DEF CardElement, Element, Tags
  <2>4. HeadOf(c, e, l)
    BY <1>1, <2>2, <2>3 DEF HeadOf
  <2> QED
    BY <1>1, <1>2, <1>4, <1>5, <2>1, <2>3, <2>4, HeadsAppended
<1>6. CASE es # <<>> /\ tag # "head" /\ d = Append(Front(es), Element(tag, Append(Last(es).lines, l)))
  <2>1. PICK p, x, e : p = Front(es) /\ x = Last(es) /\ e = Element(tag, Append(x.lines, l))
    OBVIOUS
  <2>a. p \in Seq(CardElement) /\ x \in CardElement /\ es = Append(p, x)
    BY <1>6, <2>1, FrontAndLast
  <2>2. Append(x.lines, l) \in Seq(Nat)
    BY <2>a, AppendProperties DEF CardElement
  <2>3. e \in CardElement /\ e.tag = tag
    BY <2>1, <2>2 DEF CardElement, Element, Tags
  <2>4. HeadOf(c, e, l)
    BY <1>6, <2>3 DEF HeadOf
  <2>5. HeadsOf(c, p, l)
    <3>1. PICK n \in Nat : n = Len(p) /\ DOMAIN p = 1..n
      BY <2>a, LenProperties
    <3>2. DOMAIN es = 1..(n + 1) /\ \A i \in 1..n : es[i] = p[i]
      BY <2>a, <3>1, AppendProperties, LenProperties
    <3>3. \A i \in 1..n : i \in 1..(n + 1)
      OBVIOUS
    <3> QED
      BY <1>4, <3>1, <3>2, <3>3 DEF HeadsOf
  <2> QED
    BY <1>1, <1>2, <1>6, <2>1, <2>a, <2>3, <2>4, <2>5, HeadsAppended
<1> QED
  BY <1>2, <1>5, <1>6 DEF WithLineOf

UpTo(n) == [l \in 1..n |-> l]

LEMMA OneMoreLine == ASSUME NEW n \in Nat PROVE UpTo(n + 1) = UpTo(n) \o <<n + 1>> /\ UpTo(0) = <<>>
<1>1. UpTo(0) = <<>>
  BY EmptySeq DEF UpTo
<1>2. UpTo(n) \in Seq(Nat) /\ Len(UpTo(n)) = n /\ UpTo(n + 1) \in Seq(Nat) /\ Len(UpTo(n + 1)) = n + 1
      /\ (\A l \in 1..n : UpTo(n)[l] = l) /\ \A l \in 1..(n + 1) : UpTo(n + 1)[l] = l
  <2>1. \A m \in Nat : UpTo(m) \in [1..m -> Nat] /\ \A l \in 1..m : UpTo(m)[l] = l
    BY DEF UpTo
  <2>2. \A m \in Nat : UpTo(m) \in Seq(Nat) /\ Len(UpTo(m)) = m
    BY <2>1, IsASeq, LenProperties
  <2> QED
    BY <2>1, <2>2
<1>3. PICK u \in Seq(Nat), v \in Seq(Nat) : u = UpTo(n) /\ v = UpTo(n + 1)
  BY <1>2
<1>4. Append(u, n + 1) \in Seq(Nat) /\ Len(Append(u, n + 1)) = n + 1
      /\ Append(u, n + 1)[n + 1] = n + 1 /\ \A l \in 1..n : Append(u, n + 1)[l] = l
  BY <1>2, <1>3, AppendProperties
<1>5. \A l \in 1..(n + 1) : l \in 1..n \/ l = n + 1
  OBVIOUS
<1>6. \A l \in 1..(n + 1) : Append(u, n + 1)[l] = v[l]
  BY <1>2, <1>3, <1>4, <1>5
<1>7. Append(u, n + 1) = v
  BY <1>2, <1>3, <1>4, <1>6, SeqEqual
<1>8. Append(u, n + 1) = u \o <<n + 1>>
  BY <1>3, AppendIsConcat
<1> QED
  BY <1>1, <1>3, <1>7, <1>8

\* The elements hold the lines in order, and their headings are headings.
LEMMA ElementsHold ==
  ASSUME NEW c \in Seq(LineKinds), NEW n \in Nat, n = Len(c)
  PROVE  CardElements(c) \in Seq(CardElement) /\ LinesOf(CardElements(c)) = UpTo(n) /\ HeadsOf(c, CardElements(c), n)
<1>1. PICK f \in [0..n -> Seq(CardElement)] :
        /\ f[0] = <<>> /\ \A l \in 1..n : f[l] = WithLine(f[l - 1], LineTag(c, l), l)
        /\ CardElements(c) = f[n]
  BY ElementsByLine
<1>2. PICK E : E = {l \in 0..n : LinesOf(f[l]) = UpTo(l) /\ HeadsOf(c, f[l], l)}
  OBVIOUS
<1>3. 0 \in E
  <2>1. LinesOf(f[0]) = UpTo(0)
    BY <1>1, LinesAppended, OneMoreLine
  <2>2. HeadsOf(c, f[0], 0)
    BY <1>1, EmptySeq DEF HeadsOf
  <2> QED
    BY <1>2, <2>1, <2>2
<1>4. ASSUME NEW k \in 0..(n - 1), k \in E PROVE k + 1 \in E
  <2>1. PICK l \in 1..n : l = k + 1 /\ l - 1 = k /\ l \in Nat \ {0} /\ k \in Nat /\ k \in 0..n /\ l \in 0..n
    OBVIOUS
  <2>2. PICK es \in Seq(CardElement) : es = f[k] /\ f[l] = WithLine(es, LineTag(c, l), l)
    BY <1>1, <2>1
  <2>3. LinesOf(es) = UpTo(k) /\ HeadsOf(c, es, l - 1)
    BY <1>2, <1>4, <2>1, <2>2
  <2>4. LineTag(c, l) \in Tags
    BY LineTags
  <2>5. LinesOf(f[l]) = UpTo(l)
    <3>1. LinesOf(WithLine(es, LineTag(c, l), l)) = LinesOf(es) \o <<l>>
      BY <2>1, <2>4, LineComesLast
    <3>2. UpTo(k + 1) = UpTo(k) \o <<k + 1>>
      BY <2>1, OneMoreLine
    <3> QED
      BY <2>1, <2>2, <2>3, <3>1, <3>2, Zenon
  <2>6. HeadsOf(c, f[l], l)
    BY <2>1, <2>2, <2>3, HeadsKept
  <2> QED
    BY <1>2, <2>1, <2>5, <2>6
<1>5. n \in E
  <2>1. 0..n \subseteq E
    BY <1>3, <1>4, CountingUp
  <2> QED
    BY <2>1
<1> QED
  BY <1>1, <1>2, <1>5

\* At most one of the elements is a table.
OneTable(card) == \A i, j \in DOMAIN card : card[i].tag = "table" /\ card[j].tag = "table" => i = j
OneTableEach(cards) == \A i \in DOMAIN cards : OneTable(cards[i])

WithElementOf(cards, e, next) ==
  \/ next = Append(cards, <<e>>)
  \/ /\ cards # <<>> /\ (e.tag # "table" \/ ~HasTable(Last(cards)))
     /\ next = Append(Front(cards), Append(Last(cards), e))

LEMMA WithElementIs ==
  ASSUME NEW cards \in Seq(Seq(CardElement)), NEW e \in CardElement
  PROVE  WithElementOf(cards, e, WithElement(cards, e)) /\ WithElement(cards, e) \in Seq(Seq(CardElement))
<1>1. PICK V : V = Seq(CardElement)
  OBVIOUS
<1>2. <<e>> \in V
  BY <1>1
<1>3. CASE cards = <<>> \/ (e.tag = "table" /\ HasTable(Last(cards)))
  <2>1. Append(cards, <<e>>) \in Seq(V)
    BY <1>1, <1>2, AppendProperties
  <2> QED
    BY <1>1, <1>3, <2>1 DEF WithElement, WithElementOf
<1>4. CASE ~(cards = <<>> \/ (e.tag = "table" /\ HasTable(Last(cards))))
  <2>1. PICK p, x : p = Front(cards) /\ x = Last(cards)
    OBVIOUS
  <2>2. p \in Seq(V) /\ x \in V /\ \A y : p \o <<y>> = Append(p, y)
    BY <1>1, <1>4, <2>1, FrontAndLast
  <2>3. Append(x, e) \in V
    BY <1>1, <2>2, AppendProperties
  <2>4. Append(p, Append(x, e)) \in Seq(V)
    BY <2>2, <2>3, AppendProperties
  <2>5. WithElement(cards, e) = Append(p, Append(x, e))
    BY <1>4, <2>1, <2>2 DEF WithElement
  <2> QED
    BY <1>1, <1>4, <2>1, <2>4, <2>5 DEF WithElementOf
<1> QED
  BY <1>3, <1>4

LEMMA CardsByElement ==
  ASSUME NEW elements \in Seq(CardElement), NEW n \in Nat, n = Len(elements)
  PROVE  \E f \in [0..n -> Seq(Seq(CardElement))] :
           /\ f[0] = <<>> /\ \A k \in 1..n : f[k] = WithElement(f[k - 1], elements[k])
           /\ SplitByTable(elements) = f[n]
<1>1. PICK V : V = Seq(Seq(CardElement))
  OBVIOUS
<1>2. PICK next : next = [k \in 1..n |-> [v \in V |-> WithElement(v, elements[k])]]
  OBVIOUS
<1>3. next \in [1..n -> [V -> V]] /\ <<>> \in V
  <2>1. \A k \in 1..n, v \in V : WithElement(v, elements[k]) \in V
    <3>1. ASSUME NEW k \in 1..n, NEW v \in V PROVE WithElement(v, elements[k]) \in V
      <4>1. elements[k] \in CardElement
        BY ElementOfSeq
      <4> QED
        BY <1>1, <4>1, WithElementIs
    <3> QED
      BY <3>1
  <2>2. <<>> \in V
    BY <1>1, EmptySeq
  <2> QED
    BY <1>2, <2>1, <2>2
<1>4. PICK f \in [0..n -> V] : Recursive(f, <<>>, next, n)
  BY <1>3, Recursion
<1>5. ASSUME NEW k \in 1..n PROVE f[k] = WithElement(f[k - 1], elements[k])
  <2>1. k \in 0..n /\ k # 0 /\ k - 1 \in 0..n
    OBVIOUS
  <2>2. f[k] = next[k][f[k - 1]] /\ f[k - 1] \in V
    BY <1>4, <2>1 DEF Recursive
  <2> QED
    BY <1>2, <2>2
<1>6. f[0] = <<>>
  BY <1>4 DEF Recursive
<1>7. f = [k \in 0..n |-> IF k = 0 THEN <<>> ELSE WithElement(f[k - 1], elements[k])]
  <2>1. \A k \in 0..n : k = 0 \/ k \in 1..n
    OBVIOUS
  <2>2. \A k \in 0..n : f[k] = IF k = 0 THEN <<>> ELSE WithElement(f[k - 1], elements[k])
    BY <1>5, <1>6, <2>1
  <2> QED
    BY <2>2
<1>8. PICK h : /\ h = [k \in 0..n |-> IF k = 0 THEN <<>> ELSE WithElement(h[k - 1], elements[k])]
               /\ SplitByTable(elements) = h[n]
  <2>1. \E h : h = [k \in 0..Len(elements) |-> IF k = 0 THEN <<>> ELSE WithElement(h[k - 1], elements[k])]
    BY <1>7
  <2>2. \E h : /\ h = [k \in 0..Len(elements) |-> IF k = 0 THEN <<>> ELSE WithElement(h[k - 1], elements[k])]
               /\ SplitByTable(elements) = h[Len(elements)]
    BY <2>1 DEF SplitByTable
  <2> QED
    BY <2>2
<1>9. h[n] = f[n]
  <2>1. \A k \in 1..n : k \in 0..n /\ k # 0
    OBVIOUS
  <2>2. \A k \in 1..n : h[k] = WithElement(h[k - 1], elements[k])
    BY <1>8, <2>1
  <2>3. \A k \in 1..n : f[k - 1] = h[k - 1] => f[k] = h[k]
    BY <1>5, <2>2
  <2>4. f[0] = h[0]
    BY <1>6, <1>8
  <2>5. StepAlike(f, h, n)
    BY <2>3, <2>4 DEF StepAlike
  <2> QED
    BY <2>5, SameRecursion
<1> QED
  BY <1>1, <1>5, <1>6, <1>8, <1>9

\* A card that gets no second table, and a list that gets one more card.
LEMMA OneTableKept ==
  ASSUME NEW card \in Seq(CardElement), OneTable(card), NEW e \in CardElement,
         e.tag # "table" \/ ~HasTable(card)
  PROVE  OneTable(Append(card, e))
<1>1. PICK n \in Nat : n = Len(card) /\ DOMAIN card = 1..n
  BY LenProperties
<1>2. PICK d \in Seq(CardElement) : d = Append(card, e)
  BY AppendProperties
<1>3. DOMAIN d = 1..(n + 1) /\ d[n + 1] = e /\ \A i \in 1..n : d[i] = card[i]
  BY <1>1, <1>2, AppendProperties, LenProperties
<1>4. \A i \in 1..(n + 1) : i \in 1..n \/ i = n + 1
  OBVIOUS
<1>5. e.tag = "table" => \A i \in 1..n : card[i].tag # "table"
  BY <1>1 DEF HasTable
<1>6. ASSUME NEW i \in 1..(n + 1), NEW j \in 1..(n + 1), d[i].tag = "table", d[j].tag = "table" PROVE i = j
  <2>1. CASE i \in 1..n /\ j \in 1..n
    BY <1>1, <1>3, <1>6, <2>1 DEF OneTable
  <2>2. CASE i \in 1..n /\ j = n + 1
    BY <1>3, <1>5, <1>6, <2>2
  <2>3. CASE i = n + 1 /\ j \in 1..n
    BY <1>3, <1>5, <1>6, <2>3
  <2> QED
    BY <1>4, <2>1, <2>2, <2>3
<1> QED
  BY <1>2, <1>3, <1>6 DEF OneTable

LEMMA OneMoreCard ==
  ASSUME NEW cards \in Seq(Seq(CardElement)), OneTableEach(cards), NEW card \in Seq(CardElement), OneTable(card)
  PROVE  OneTableEach(Append(cards, card))
<1>1. PICK V : V = Seq(CardElement)
  OBVIOUS
<1>2. PICK n \in Nat : n = Len(cards) /\ DOMAIN cards = 1..n
  BY LenProperties
<1>3. PICK d \in Seq(V) : d = Append(cards, card)
  BY <1>1, AppendProperties
<1>4. DOMAIN d = 1..(n + 1) /\ d[n + 1] = card /\ \A i \in 1..n : d[i] = cards[i]
  BY <1>1, <1>2, <1>3, AppendProperties, LenProperties
<1>5. \A i \in 1..(n + 1) : i \in 1..n \/ i = n + 1
  OBVIOUS
<1> QED
  BY <1>2, <1>3, <1>4, <1>5 DEF OneTableEach

LEMMA FewerCards ==
  ASSUME NEW cards \in Seq(Seq(CardElement)), NEW card \in Seq(CardElement), OneTableEach(Append(cards, card))
  PROVE  OneTableEach(cards) /\ OneTable(card)
<1>1. PICK V : V = Seq(CardElement)
  OBVIOUS
<1>2. PICK n \in Nat : n = Len(cards) /\ DOMAIN cards = 1..n
  BY LenProperties
<1>3. PICK d \in Seq(V) : d = Append(cards, card)
  BY <1>1, AppendProperties
<1>4. DOMAIN d = 1..(n + 1) /\ d[n + 1] = card /\ \A i \in 1..n : d[i] = cards[i]
  BY <1>1, <1>2, <1>3, AppendProperties, LenProperties
<1>5. n + 1 \in 1..(n + 1) /\ \A i \in 1..n : i \in 1..(n + 1)
  OBVIOUS
<1> QED
  BY <1>2, <1>3, <1>4, <1>5 DEF OneTableEach

\* What a card of its own, or the last card, does with an element.
LEMMA ElementComesLast ==
  ASSUME NEW cards \in Seq(Seq(CardElement)), OneTableEach(cards), NEW e \in CardElement
  PROVE  /\ FlattenSeq(WithElement(cards, e)) = Append(FlattenSeq(cards), e)
         /\ OneTableEach(WithElement(cards, e))
<1>1. PICK d : d = WithElement(cards, e) /\ WithElementOf(cards, e, d)
  BY WithElementIs
<1>2. PICK o \in Seq(CardElement) : o = <<e>>
  <2>1. <<e>> \in Seq(CardElement)
    OBVIOUS
  <2> QED
    BY <2>1
<1>3. \A q \in Seq(CardElement) : q \o o = Append(q, e)
  BY <1>2, AppendIsConcat
<1>4. FlattenSeq(cards) \in Seq(CardElement)
  BY FlattenAppended
<1>5. CASE d = Append(cards, <<e>>)
  <2>1. FlattenSeq(d) = FlattenSeq(cards) \o o
    BY <1>2, <1>5, FlattenAppended
  <2>2. OneTable(o)
    BY <1>2 DEF OneTable
  <2>3. OneTableEach(d)
    BY <1>2, <1>5, <2>2, OneMoreCard
  <2> QED
    BY <1>1, <1>3, <1>4, <2>1, <2>3
<1>6. CASE /\ cards # <<>> /\ (e.tag # "table" \/ ~HasTable(Last(cards)))
           /\ d = Append(Front(cards), Append(Last(cards), e))
  <2>1. PICK p, x, y : p = Front(cards) /\ x = Last(cards) /\ y = Append(x, e)
    OBVIOUS
  <2>2. p \in Seq(Seq(CardElement)) /\ x \in Seq(CardElement) /\ cards = Append(p, x)
    BY <1>6, <2>1, FrontAndLast
  <2>3. y \in Seq(CardElement) /\ y = x \o o
    BY <1>3, <2>1, <2>2, AppendProperties
  <2>4. OneTableEach(p) /\ OneTable(x)
    BY <2>2, FewerCards
  <2>5. OneTable(y)
    BY <1>6, <2>1, <2>2, <2>4, OneTableKept
  <2>6. OneTableEach(d)
    BY <1>6, <2>1, <2>2, <2>3, <2>4, <2>5, OneMoreCard
  <2>7. FlattenSeq(d) = FlattenSeq(p) \o (x \o o) /\ FlattenSeq(p) \in Seq(CardElement)
    BY <1>6, <2>1, <2>2, <2>3, FlattenAppended
  <2>8. FlattenSeq(cards) = FlattenSeq(p) \o x
    BY <2>2, FlattenAppended
  <2>9. Associate(FlattenSeq(p), x, o)
    BY <2>2, <2>7, OneAfterAnother
  <2> QED
    BY <1>1, <1>3, <1>4, <2>6, <2>7, <2>8, <2>9 DEF Associate
<1> QED
  BY <1>1, <1>5, <1>6 DEF WithElementOf

Beginning(s, n) == [i \in 1..n |-> s[i]]

LEMMA OneMoreFirst ==
  ASSUME NEW S, NEW s \in Seq(S), NEW k \in 0..(Len(s) - 1)
  PROVE  Beginning(s, k + 1) = Append(Beginning(s, k), s[k + 1]) /\ Beginning(s, 0) = <<>> /\ Beginning(s, Len(s)) = s
<1>1. PICK n \in Nat : n = Len(s) /\ s \in [1..n -> S]
  BY LenProperties
<1>2. k \in Nat /\ k + 1 \in 1..n /\ \A i \in 1..k : i \in 1..n
  BY <1>1
<1>3. Beginning(s, k) \in [1..k -> S] /\ Beginning(s, k + 1) \in [1..(k + 1) -> S]
  <2>1. \A i \in 1..(k + 1) : i \in 1..n
    BY <1>2
  <2> QED
    BY <1>1, <1>2, <2>1 DEF Beginning
<1>4. PICK p \in Seq(S), q \in Seq(S) : p = Beginning(s, k) /\ q = Beginning(s, k + 1) /\ Len(p) = k /\ Len(q) = k + 1
  <2>1. Beginning(s, k) \in Seq(S) /\ Len(Beginning(s, k)) = k
    BY <1>2, <1>3, IsASeq, LenProperties
  <2>2. Beginning(s, k + 1) \in Seq(S) /\ Len(Beginning(s, k + 1)) = k + 1
    BY <1>2, <1>3, IsASeq, LenProperties
  <2> QED
    BY <2>1, <2>2
<1>5. PICK x \in S : x = s[k + 1]
  BY <1>1, <1>2
<1>6. PICK r \in Seq(S) : r = Append(p, x)
  BY AppendProperties
<1>7. Len(r) = k + 1 /\ r[k + 1] = x /\ \A i \in 1..k : r[i] = p[i]
  BY <1>2, <1>4, <1>6, AppendProperties
<1>8. \A i \in 1..(k + 1) : i \in 1..k \/ i = k + 1
  BY <1>2
<1>9. \A i \in 1..(k + 1) : r[i] = q[i]
  <2>1. (\A i \in 1..k : p[i] = s[i]) /\ \A i \in 1..(k + 1) : q[i] = s[i]
    BY <1>4 DEF Beginning
  <2> QED
    BY <1>5, <1>7, <1>8, <2>1
<1>10. r = q
  BY <1>4, <1>7, <1>9, SeqEqual
<1>11. Beginning(s, 0) = <<>>
  BY EmptySeq DEF Beginning
<1>12. Beginning(s, n) = s
  BY <1>1 DEF Beginning
<1> QED
  BY <1>1, <1>4, <1>5, <1>6, <1>10, <1>11, <1>12

\* The cards hold the elements in order, and at most one table each.
LEMMA SplitHolds ==
  ASSUME NEW elements \in Seq(CardElement)
  PROVE  /\ SplitByTable(elements) \in Seq(Seq(CardElement)) /\ FlattenSeq(SplitByTable(elements)) = elements
         /\ OneTableEach(SplitByTable(elements))
<1>1. PICK n \in Nat : n = Len(elements)
  BY LenProperties
<1>2. PICK f \in [0..n -> Seq(Seq(CardElement))] :
        /\ f[0] = <<>> /\ \A k \in 1..n : f[k] = WithElement(f[k - 1], elements[k])
        /\ SplitByTable(elements) = f[n]
  BY <1>1, CardsByElement
<1>3. PICK E : E = {k \in 0..n : FlattenSeq(f[k]) = Beginning(elements, k) /\ OneTableEach(f[k])}
  OBVIOUS
<1>4. 0 \in E
  <2>1. FlattenSeq(f[0]) = <<>>
    BY <1>2, FlattenAppended
  <2>2. Beginning(elements, 0) = <<>>
    BY EmptySeq DEF Beginning
  <2>3. OneTableEach(f[0])
    BY <1>2, EmptySeq DEF OneTableEach
  <2> QED
    BY <1>3, <2>1, <2>2, <2>3
<1>5. ASSUME NEW k \in 0..(n - 1), k \in E PROVE k + 1 \in E
  <2>1. PICK l \in 1..n : l = k + 1 /\ l - 1 = k /\ k \in 0..n /\ l \in 0..n
    OBVIOUS
  <2>2. PICK e \in CardElement : e = elements[l]
    BY <1>1, ElementOfSeq
  <2>3. PICK cards \in Seq(Seq(CardElement)) : cards = f[k] /\ f[l] = WithElement(cards, e)
    BY <1>2, <2>1, <2>2
  <2>4. FlattenSeq(cards) = Beginning(elements, k) /\ OneTableEach(cards)
    BY <1>3, <1>5, <2>3
  <2>5. Beginning(elements, l) = Append(Beginning(elements, k), e)
    BY <1>1, <2>1, <2>2, OneMoreFirst
  <2>6. FlattenSeq(f[l]) = Beginning(elements, l) /\ OneTableEach(f[l])
    BY <2>3, <2>4, <2>5, ElementComesLast
  <2> QED
    BY <1>3, <2>1, <2>6
<1>6. n \in E
  <2>1. 0..n \subseteq E
    BY <1>4, <1>5, CountingUp
  <2> QED
    BY <2>1
<1>7. Beginning(elements, n) = elements
  <2>1. elements \in [1..n -> CardElement]
    BY <1>1, LenProperties
  <2> QED
    BY <2>1 DEF Beginning
<1> QED
  BY <1>2, <1>3, <1>6, <1>7

\* Of some numbers up to a bound there is a greatest.
LEMMA GreatestOf ==
  ASSUME NEW b \in Nat, NEW T \in SUBSET (0..b), T # {}
  PROVE  \E k \in T : \A q \in T : q <= k
<1>1. PICK D \in SUBSET Nat : D = {b - q : q \in T} /\ D # {}
  <2>1. PICK D : D = {b - q : q \in T}
    OBVIOUS
  <2>2. \A q \in T : b - q \in Nat
    OBVIOUS
  <2>3. D \in SUBSET Nat /\ D # {}
    BY <2>1, <2>2
  <2> QED
    BY <2>1, <2>3
<1>2. PICK d \in D : \A x \in D : d <= x
  BY <1>1, LeastOf
<1>3. PICK k \in T : d = b - k
  BY <1>1, <1>2
<1>4. ASSUME NEW q \in T PROVE q <= k
  <2>1. b - q \in D /\ q \in Nat /\ k \in Nat
    BY <1>1
  <2>2. b - k <= b - q
    BY <1>2, <1>3, <2>1
  <2> QED
    BY <2>1, <2>2
<1> QED
  BY <1>4

\* The lines of a table are no fences.
LEMMA TablesHaveNoFence == ASSUME NEW c, NEW l \in Nat, InTable(c, l) PROVE c[l] # "fence" /\ l # 0
<1>1. PICK i \in 1..l : \A k \in i..l : c[k] \in Barred
  BY DEF InTable
<1>2. l \in i..l /\ l # 0
  BY <1>1
<1> QED
  BY <1>1, <1>2 DEF Barred

Odd(T) == Cardinality(T) % 2 = 1

LEMMA OddPart ==
  ASSUME NEW A, NEW B, IsFiniteSet(A), IsFiniteSet(B), A \cap B = {}, Odd(A \cup B), ~Odd(B)
  PROVE  Odd(A)
<1>1. Cardinality(A \cup B) = Cardinality(A) + Cardinality(B) - Cardinality({})
  BY FS_Union
<1>2. PICK a \in Nat, b \in Nat : a = Cardinality(A) /\ b = Cardinality(B)
  BY FS_CardinalityType
<1>3. Cardinality({}) = 0
  BY FS_EmptySet
<1>4. (a + b) % 2 = 1 /\ b % 2 # 1
  BY <1>1, <1>2, <1>3 DEF Odd
<1>5. a % 2 = 1
  BY <1>2, <1>4
<1> QED
  BY <1>2, <1>5 DEF Odd

(* A line that is code in the whole text but not between its tables: a     *)
(* table before it or after it is within code.                             *)
LEMMA TornByATable ==
  ASSUME NEW c \in Seq(LineKinds), NEW l \in DOMAIN c, ~InTable(c, l),
         InCode(c, DOMAIN c, l), ~InCode(c, Segment(c, l), l)
  PROVE  \E t \in DOMAIN c : TableStarts(c, t) /\ InCode(c, DOMAIN c, t)
<1>1. PICK n \in Nat : n = Len(c) /\ DOMAIN c = 1..n /\ l \in 1..n
  BY LenProperties
<1>2. PICK W : W = {k \in 1..n : c[k] = "fence"}
  OBVIOUS
<1>3. PICK before : before = {k \in W : k < l}
  OBVIOUS
<1>4. c[l] # "fence" /\ Odd(before) /\ \E k \in W : k > l
  BY <1>1, <1>2, <1>3 DEF InCode, Fences, Odd
<1>5. PICK f \in 1..n : f \in W /\ f > l
  BY <1>2, <1>4
<1>6. \A T \in SUBSET W : IsFiniteSet(T)
  <2>1. IsFiniteSet(1..n)
    BY FS_Interval
  <2> QED
    BY <1>2, <2>1, FS_Subset
<1>7. ASSUME NEW t \in 1..n, TableStarts(c, t), Odd({k \in W : k < t}), f > t
      PROVE  InCode(c, DOMAIN c, t)
  <2>1. c[t] # "fence"
    BY <1>7, TablesHaveNoFence DEF TableStarts
  <2>2. Fences(c, DOMAIN c) = W
    BY <1>1, <1>2 DEF Fences
  <2> QED
    BY <1>5, <1>7, <2>1, <2>2 DEF InCode, Odd
<1>8. PICK S : S = Segment(c, l)
  OBVIOUS
<1>9. PICK near : near = {k \in Fences(c, S) : k < l}
  OBVIOUS
<1>10. ~Odd(near) \/ ~\E k \in Fences(c, S) : k > l
  BY <1>4, <1>8, <1>9 DEF InCode, Odd
<1>11. ASSUME NEW k \in 1..n, \A j \in (k..l) \cup (l..k) : ~InTable(c, j) PROVE k \in S
  BY <1>1, <1>8, <1>11 DEF Segment
<1>12. S \subseteq 1..n /\ \A k \in S : \A j \in (k..l) \cup (l..k) : ~InTable(c, j)
  BY <1>1, <1>8 DEF Segment
<1>13. CASE ~Odd(near)
  <2>1. PICK T : T = {k \in 1..l : InTable(c, k)}
    OBVIOUS
  <2>2. CASE T = {}
    <3>1. ASSUME NEW k \in 1..l PROVE k \in S
      <4>1. \A j \in (k..l) \cup (l..k) : j \in 1..l
        BY <1>1, <3>1
      <4>2. k \in 1..n
        BY <1>1, <3>1
      <4> QED
        BY <1>11, <2>1, <2>2, <4>1, <4>2
    <3>2. before = near
      <4>1. \A k \in 1..n : k < l => k \in 1..l
        BY <1>1
      <4> QED
        BY <1>2, <1>3, <1>9, <1>12, <3>1, <4>1 DEF Fences
    <3> QED
      BY <1>4, <1>13, <3>2
  <2>3. CASE T # {}
    <3>1. PICK m \in T : \A q \in T : q <= m
      <4>1. l \in Nat /\ T \in SUBSET (0..l)
        BY <1>1, <2>1
      <4> QED
        BY <2>3, <4>1, GreatestOf
    <3>2. m \in 1..l /\ InTable(c, m) /\ m # l
      BY <2>1, <3>1
    <3>3. \A j \in 1..l : j > m => ~InTable(c, j)
      BY <1>1, <2>1, <3>1, <3>2
    <3>4. PICK U : U = {k \in 1..m : \A j \in k..m : InTable(c, j)}
      OBVIOUS
    <3>5. m \in U
      BY <3>2, <3>4
    <3>6. PICK t \in U : \A q \in U : t <= q
      <4>1. U \in SUBSET Nat
        BY <1>1, <3>2, <3>4
      <4> QED
        BY <3>5, <4>1, LeastOf
    <3>7. t \in 1..m /\ (\A j \in t..m : InTable(c, j)) /\ t \in 1..n /\ m \in 1..n /\ t < l /\ m < l
      BY <1>1, <3>2, <3>4, <3>6
    <3>8. ~InTable(c, t - 1)
      <4>1. CASE t = 1
        <5>1. ASSUME InTable(c, 0) PROVE FALSE
          BY <5>1, TablesHaveNoFence
        <5> QED
          BY <4>1, <5>1
      <4>2. CASE t # 1
        <5>1. ASSUME InTable(c, t - 1) PROVE FALSE
          <6>1. t - 1 \in 1..m /\ \A j \in (t - 1)..m : j = t - 1 \/ j \in t..m
            BY <3>7, <4>2
          <6>2. t - 1 \in U
            BY <3>4, <3>7, <5>1, <6>1
          <6> QED
            BY <3>6, <3>7, <6>2
        <5> QED
          BY <5>1
      <4> QED
        BY <4>1, <4>2
    <3>9. TableStarts(c, t)
      <4>1. t \in t..m
        BY <3>7
      <4> QED
        BY <3>7, <3>8, <4>1 DEF TableStarts
    <3>10. PICK A : A = {k \in W : k < t}
      OBVIOUS
    <3>11. ASSUME NEW k \in before PROVE k \in A \/ k \in near
      <4>1. k \in 1..n /\ c[k] = "fence" /\ k < l /\ k \in W
        BY <1>2, <1>3, <3>11
      <4>2. CASE k < t
        BY <3>10, <4>1, <4>2
      <4>3. CASE k \in t..m
        BY <3>7, <4>1, <4>3, TablesHaveNoFence
      <4>4. CASE k > m
        <5>1. \A j \in (k..l) \cup (l..k) : j \in 1..l /\ j > m
          BY <1>1, <3>7, <4>1, <4>4
        <5>2. k \in S
          BY <1>11, <3>3, <4>1, <5>1
        <5> QED
          BY <1>9, <4>1, <5>2 DEF Fences
      <4> QED
        BY <1>1, <3>7, <4>1, <4>2, <4>3, <4>4
    <3>12. ASSUME NEW k \in near PROVE k \in before /\ k \notin A
      <4>1. k \in S /\ c[k] = "fence" /\ k < l /\ k \in 1..n
        BY <1>9, <1>12, <3>12 DEF Fences
      <4>2. k > m
        <5>1. ASSUME ~(k > m) PROVE FALSE
          <6>1. m \in k..l
            BY <1>1, <3>7, <4>1, <5>1
          <6> QED
            BY <1>12, <3>2, <4>1, <6>1
        <5> QED
          BY <5>1
      <4>3. ~(k < t)
        BY <3>7, <4>1, <4>2
      <4> QED
        BY <1>2, <1>3, <3>10, <4>1, <4>3
    <3>13. A \subseteq before
      BY <1>1, <1>2, <1>3, <3>7, <3>10
    <3>14. Odd(A)
      <4>1. A \cup near = before /\ A \cap near = {}
        BY <3>11, <3>12, <3>13
      <4>2. A \in SUBSET W /\ near \in SUBSET W
        BY <1>3, <3>10, <3>12
      <4>3. IsFiniteSet(A) /\ IsFiniteSet(near)
        BY <1>6, <4>2
      <4> QED
        BY <1>4, <1>13, <4>1, <4>3, OddPart
    <3>15. f > t
      BY <1>1, <1>5, <3>7
    <3> QED
      BY <1>1, <1>7, <3>7, <3>9, <3>10, <3>14, <3>15
  <2> QED
    BY <2>2, <2>3
<1>14. CASE ~\E k \in Fences(c, S) : k > l
  <2>1. PICK T \in SUBSET Nat : T = {k \in l..f : InTable(c, k)}
    <3>1. l..f \subseteq Nat
      BY <1>1
    <3> QED
      BY <3>1
  <2>2. T # {}
    <3>1. ASSUME T = {} PROVE FALSE
      <4>1. \A j \in (f..l) \cup (l..f) : j \in l..f
        BY <1>1, <1>5
      <4>2. f \in S
        BY <1>11, <2>1, <3>1, <4>1
      <4> QED
        BY <1>2, <1>5, <1>14, <4>2 DEF Fences
    <3> QED
      BY <3>1
  <2>3. PICK t \in T : \A q \in T : t <= q
    BY <2>2, LeastOf
  <2>4. t \in l..f /\ InTable(c, t) /\ t # l
    BY <2>1, <2>3
  <2>5. t \in 1..n /\ l < t /\ t <= f /\ t - 1 \in l..f
    BY <1>1, <1>5, <2>4
  <2>6. \A j \in l..f : j < t => ~InTable(c, j)
    BY <1>1, <2>1, <2>3, <2>5
  <2>7. TableStarts(c, t)
    <3>1. t - 1 < t
      BY <2>5
    <3> QED
      BY <2>4, <2>5, <2>6, <3>1 DEF TableStarts
  <2>8. f > t
    <3>1. f # t
      BY <1>2, <1>5, <2>4, <2>5, TablesHaveNoFence
    <3> QED
      BY <1>1, <1>5, <2>5, <3>1
  <2>9. ASSUME NEW k \in W, k < t PROVE k < l
    <3>1. k \in 1..n /\ c[k] = "fence"
      BY <1>2, <2>9
    <3>2. ASSUME ~(k < l) PROVE FALSE
      <4>1. k > l
        BY <1>1, <1>4, <3>1, <3>2
      <4>2. \A j \in (k..l) \cup (l..k) : j \in l..f /\ j < t
        BY <1>1, <2>5, <2>9, <3>1, <4>1
      <4>3. k \in S
        BY <1>11, <2>6, <3>1, <4>2
      <4> QED
        BY <1>14, <3>1, <4>1, <4>3 DEF Fences
    <3> QED
      BY <3>2
  <2>10. {k \in W : k < t} = before
    <3>1. \A k \in W : k < l => k < t
      BY <1>1, <1>2, <2>5
    <3> QED
      BY <1>3, <2>9, <3>1
  <2> QED
    BY <1>1, <1>4, <1>7, <2>5, <2>7, <2>8, <2>10
<1> QED
  BY <1>10, <1>13, <1>14

LEMMA CardsOfIs ==
  ASSUME NEW c \in Seq(LineKinds)
  PROVE  /\ CardsOf(c) \in Seq(Seq(CardElement)) /\ OneTableEach(CardsOf(c))
         /\ LinesOf(FlattenSeq(CardsOf(c))) = UpTo(Len(c))
         /\ FlattenSeq(CardsOf(c)) \in Seq(CardElement)
         /\ HeadsOf(c, FlattenSeq(CardsOf(c)), Len(c))
<1>1. PICK n \in Nat : n = Len(c) /\ DOMAIN c = 1..n
  BY LenProperties
<1>2. CASE c = <<>>
  <2>1. CardsOf(c) = <<>> /\ n = 0
    BY <1>1, <1>2, EmptySeq DEF CardsOf
  <2>2. FlattenSeq(<<>>) = <<>>
    BY FlattenAppended
  <2>3. <<>> \in Seq(CardElement) /\ <<>> \in Seq(Seq(CardElement)) /\ DOMAIN <<>> = {}
    BY EmptySeq
  <2>4. LinesOf(<<>>) = UpTo(0)
    BY LinesAppended, OneMoreLine
  <2>5. OneTableEach(<<>>) /\ HeadsOf(c, <<>>, n)
    BY <2>3 DEF OneTableEach, HeadsOf
  <2> QED
    BY <1>1, <2>1, <2>2, <2>3, <2>4, <2>5
<1>3. CASE c # <<>> /\ NeedsCard(c)
  <2>1. CardsOf(c) = SplitByTable(CardElements(c))
    BY <1>3 DEF CardsOf
  <2>2. CardElements(c) \in Seq(CardElement) /\ LinesOf(CardElements(c)) = UpTo(n) /\ HeadsOf(c, CardElements(c), n)
    BY <1>1, ElementsHold
  <2> QED
    BY <1>1, <2>1, <2>2, SplitHolds
<1>4. CASE c # <<>> /\ ~NeedsCard(c)
  <2>1. PICK e : e = Element("markdown", UpTo(n))
    OBVIOUS
  <2>2. UpTo(n) \in Seq(Nat)
    <3>1. UpTo(n) \in [1..n -> Nat]
      BY DEF UpTo
    <3> QED
      BY <3>1, IsASeq
  <2>3. e \in CardElement /\ e.tag = "markdown" /\ e.lines = UpTo(n)
    BY <2>1, <2>2 DEF CardElement, Element
  <2>4. PICK card \in Seq(CardElement) : card = <<e>> /\ DOMAIN card = 1..1 /\ card[1] = e
    <3>1. <<e>> \in Seq(CardElement) /\ DOMAIN <<e>> = 1..1 /\ <<e>>[1] = e
      BY <2>3
    <3> QED
      BY <3>1
  <2>5. PICK cards \in Seq(Seq(CardElement)) : cards = <<card>> /\ DOMAIN cards = 1..1 /\ cards[1] = card
    <3>1. <<card>> \in Seq(Seq(CardElement)) /\ DOMAIN <<card>> = 1..1 /\ <<card>>[1] = card
      BY <2>4
    <3> QED
      BY <3>1
  <2>6. CardsOf(c) = cards
    <3>1. WholeText(c) = card
      BY <1>1, <2>1, <2>4 DEF WholeText, UpTo
    <3> QED
      BY <1>4, <2>5, <3>1 DEF CardsOf
  <2>7. FlattenSeq(cards) = card
    <3>1. <<>> \in Seq(Seq(CardElement)) /\ <<>> \in Seq(CardElement)
      BY EmptySeq
    <3>2. cards = Append(<<>>, card)
      BY <2>5
    <3>3. FlattenSeq(cards) = <<>> \o card
      BY <2>4, <3>1, <3>2, FlattenAppended
    <3> QED
      BY <2>4, <3>3, ConcatEmptySeq
  <2>8. LinesOf(card) = UpTo(n)
    <3>1. <<>> \in Seq(CardElement) /\ card = Append(<<>>, e)
      BY <2>4, EmptySeq
    <3>2. LinesOf(card) = <<>> \o UpTo(n)
      BY <2>3, <3>1, LinesAppended
    <3> QED
      BY <2>2, <3>2, ConcatEmptySeq
  <2>9. OneTableEach(cards)
    BY <2>3, <2>4, <2>5 DEF OneTableEach, OneTable
  <2>10. HeadsOf(c, card, n)
    BY <2>3, <2>4 DEF HeadsOf, HeadOf
  <2> QED
    BY <1>1, <2>4, <2>5, <2>6, <2>7, <2>8, <2>9, <2>10
<1> QED
  BY <1>2, <1>3, <1>4

LEMMA CardsAreCounted == \A c \in Seq(LineKinds) : Len(CardsOf(c)) \in Nat
BY CardsOfIs, LenProperties

(* Feishu's cards hold every line of a text once and in order, each card   *)
(* has one table at most, and no heading is taken out of a code block that *)
(* no table tears apart, whatever the text.                                *)
THEOREM CardsHoldEveryText == \A c \in Seq(LineKinds) : CardsHold(c)
<1> SUFFICES ASSUME NEW c \in Seq(LineKinds) PROVE CardsHold(c)
  OBVIOUS
<1>1. PICK n \in Nat : n = Len(c) /\ DOMAIN c = 1..n
  BY LenProperties
<1>2. PICK cards \in Seq(Seq(CardElement)) : cards = CardsOf(c) /\ OneTableEach(cards)
  BY CardsOfIs
<1>3. PICK elements \in Seq(CardElement) :
        elements = FlattenSeq(cards) /\ LinesOf(elements) = UpTo(n) /\ HeadsOf(c, elements, n)
  BY <1>1, <1>2, CardsOfIs
<1>4. FlattenSeq([i \in DOMAIN elements |-> elements[i].lines]) = [l \in DOMAIN c |-> l]
  BY <1>1, <1>3 DEF LinesOf, UpTo
<1>5. ASSUME NEW i \in DOMAIN cards
      PROVE  Cardinality({k \in DOMAIN cards[i] : cards[i][k].tag = "table"}) <= 1
  <2>1. PICK T : T = {k \in DOMAIN cards[i] : cards[i][k].tag = "table"}
    OBVIOUS
  <2>2. \A j, k \in T : j = k
    BY <1>2, <2>1 DEF OneTableEach, OneTable
  <2>3. CASE T = {}
    <3>1. Cardinality(T) = 0
      BY <2>3, FS_EmptySet
    <3> QED
      BY <2>1, <3>1
  <2>4. CASE T # {}
    <3>1. PICK k \in T : TRUE
      BY <2>4
    <3>2. T = {k}
      BY <2>2, <3>1
    <3>3. Cardinality(T) = 1
      BY <3>2, FS_Singleton
    <3> QED
      BY <2>1, <3>3
  <2> QED
    BY <2>3, <2>4
<1>6. ASSUME \A l \in DOMAIN c : TableStarts(c, l) => ~InCode(c, DOMAIN c, l),
             NEW i \in DOMAIN elements, elements[i].tag = "head"
      PROVE  ~InCode(c, DOMAIN c, elements[i].lines[1])
  <2>1. PICK l \in 1..n : elements[i].lines = <<l>> /\ LineTag(c, l) = "head"
    BY <1>3, <1>6 DEF HeadsOf, HeadOf
  <2>2. ~InTable(c, l) /\ ~InCode(c, Segment(c, l), l)
    BY <2>1 DEF LineTag
  <2>3. ~InCode(c, DOMAIN c, l)
    BY <1>1, <1>6, <2>2, TornByATable
  <2> QED
    BY <2>1, <2>3
<1> QED
  BY <1>2, <1>3, <1>4, <1>5, <1>6 DEF CardsHold
-----------------------------------------------------------------------------
(* What the other chats show *)

OutKinds == {"reply", "texts", "reaction", "empty", "file", "text", "notice"}
Hows == {"send", "post", "texts", "chunk", "markdown", "url", "read", "upload", "image", "file", "notice",
         "do_send", "reply", "create", "text", "message", "reaction"}
OutCall == [how : Hows, what : OutKinds \X Nat, tries : 1..SendTries]
FileHows == {"post", "url", "read", "upload", "image", "file"}
Single == {"dingtalk", "slack"}
Half == MaxFiles + MaxTexts

Parcel == [files : Seq(FileKinds), texts : Nat, quotes : BOOLEAN, content : Seq(LineKinds)]

\* What a call of each kind may be about.
Meant(c) ==
  /\ c.how \in FileHows => c.what[1] = "file"
  /\ c.how = "notice" => c.what[1] = "notice"
  /\ (c.how = "send" => c.what[1] = "reply") /\ (c.how = "texts" => c.what[1] = "texts")
  /\ c.how \in {"send", "texts", "reaction"} <=> c.what[1] \in {"reply", "texts", "reaction"}
  /\ c.what[1] = "file" \/ c.how = "notice" => c.what[2] \in DOMAIN parcel.files
  /\ c.what[1] = "empty" => c.how = "chunk" /\ parcel.texts = 0

\* The place of a call's subject for an adapter, as Place has it for the chat.
InTexts(who, what) == what[1] \in {"text", "empty"}
Where(who, what) ==
  IF what[1] = "reply" THEN 0
  ELSE IF what[1] = "texts" THEN Half
  ELSE IF what[1] = "reaction" THEN Half + Half + 1
  ELSE what[2] + (IF InTexts(who, what) = (who \in Single) THEN 0 ELSE Half)
CallPlace(j) == Where(sender, todo[j].what)

OutTypes ==
  /\ sender \in Senders
  /\ parcel \in Parcel /\ Len(parcel.files) <= MaxFiles /\ (sender \in Single => parcel.texts <= 1)
  /\ todo \in Seq(OutCall) /\ (\A j \in DOMAIN todo : Meant(todo[j]))
  /\ shown \in Seq(OutKinds \X Nat) /\ (\A s \in DOMAIN shown : shown[s][1] \in {"file", "text", "notice"})
  /\ unsure \subseteq Range(shown) /\ undelivered \cup named \subseteq DOMAIN parcel.files

\* A call that is expanded is the last one, and nothing has happened before the first.
Starting ==
  \A j \in DOMAIN todo :
    /\ todo[j].how \in {"send", "texts"} => j = Len(todo)
    /\ todo[j].how = "send" => /\ j = 1 /\ shown = <<>> /\ unsure = {}
                               /\ undelivered = {} /\ named = {} /\ refused = {}

InLine == \A i, j \in DOMAIN todo : i < j => CallPlace(i) < CallPlace(j)
Comes(what, p) == Where(sender, what) < p \/ (Where(sender, what) = p /\ what \in unsure)
ShownFirst == \A s \in DOMAIN shown, j \in DOMAIN todo : Comes(shown[s], CallPlace(j))
ShownInOrder == \A s, t \in DOMAIN shown : s < t => Comes(shown[s], Where(sender, shown[t]))

\* Discord: each text follows the one before it.
TextsFollow ==
  sender = "discord" =>
    /\ \A k \in 2..parcel.texts : Text(k) \in Range(shown) => Text(k - 1) \in Range(shown)
    /\ \A j \in DOMAIN todo, k \in 2..parcel.texts : todo[j].what = Text(k) =>
         IF j = 1 THEN Text(k - 1) \in Range(shown) ELSE todo[j - 1].what = Text(k - 1)

DingTalkNames ==
  sender = "dingtalk" /\ refused = {} => \A i \in undelivered :
    i \in named \/ \E j \in DOMAIN todo : todo[j].how = "notice" /\ todo[j].what = <<"notice", i>>

MatrixNames ==
  sender = "matrix" =>
    /\ todo # <<>> => Last(todo).how \in {"send", "text"}
    /\ todo = <<>> /\ refused = {} => undelivered \subseteq named

OutboxInv ==
  /\ OutTypes /\ Starting /\ InLine /\ ShownFirst /\ ShownInOrder
  /\ TextsFollow /\ DingTalkNames /\ MatrixNames

LEMMA FirstOfQueue ==
  ASSUME NEW S, NEW q \in Seq(S), q # <<>>
  PROVE  /\ q[1] \in S /\ 1 \in DOMAIN q /\ Len(q) \in Nat \ {0} /\ DOMAIN q = 1..Len(q)
         /\ Tail(q) \in Seq(S) /\ Len(Tail(q)) = Len(q) - 1 /\ DOMAIN Tail(q) = 1..(Len(q) - 1)
         /\ \A j \in 1..(Len(q) - 1) : Tail(q)[j] = q[j + 1]
         /\ Len(q) # 1 => Tail(q) # <<>> /\ Last(Tail(q)) = Last(q)
<1>1. PICK n \in Nat : n = Len(q) /\ DOMAIN q = 1..n
  BY LenProperties
<1>2. n # 0 /\ 1 \in 1..n /\ q[1] \in S
  BY <1>1, EmptySeq, ElementOfSeq
<1>3. PICK t \in Seq(S) : /\ t = Tail(q) /\ Len(t) = n - 1 /\ \A j \in 1..(n - 1) : t[j] = q[j + 1]
  <2>1. Tail(q) \in Seq(S) /\ Len(Tail(q)) = n - 1 /\ \A j \in 1..(n - 1) : Tail(q)[j] = q[j + 1]
    BY <1>1, HeadTailProperties
  <2> QED
    BY <2>1
<1>4. DOMAIN t = 1..(n - 1)
  BY <1>3, LenProperties
<1>5. ASSUME n # 1 PROVE t # <<>> /\ Last(t) = Last(q)
  <2>1. n - 1 \in 1..(n - 1) /\ (n - 1) + 1 = n
    BY <1>2, <1>5
  <2>2. t # <<>>
    BY <1>3, <1>5, EmptySeq
  <2>3. t[n - 1] = q[n]
    BY <1>3, <2>1
  <2> QED
    BY <1>1, <1>3, <2>2, <2>3 DEF Last
<1> QED
  BY <1>1, <1>2, <1>3, <1>4, <1>5

LEMMA HeadInstead ==
  ASSUME NEW S, NEW q \in Seq(S), q # <<>>, NEW c \in S
  PROVE  /\ <<c>> \o Tail(q) \in Seq(S) /\ Len(<<c>> \o Tail(q)) = Len(q) /\ <<c>> \o Tail(q) # <<>>
         /\ (<<c>> \o Tail(q))[1] = c /\ \A j \in 2..Len(q) : (<<c>> \o Tail(q))[j] = q[j]
         /\ Last(<<c>> \o Tail(q)) = IF Len(q) = 1 THEN c ELSE Last(q)
<1>1. PICK n \in Nat \ {0} : n = Len(q)
  BY FirstOfQueue
<1>2. PICK t \in Seq(S) : t = Tail(q) /\ Len(t) = n - 1 /\ \A j \in 1..(n - 1) : t[j] = q[j + 1]
  BY <1>1, FirstOfQueue
<1>3. PICK o \in Seq(S) : o = <<c>> /\ Len(o) = 1 /\ o[1] = c
  <2>1. <<c>> \in Seq(S) /\ Len(<<c>>) = 1 /\ <<c>>[1] = c
    OBVIOUS
  <2> QED
    BY <2>1
<1>4. PICK r \in Seq(S) : r = o \o t
  BY ConcatProperties
<1>5. Len(r) = n /\ r[1] = c
  BY <1>2, <1>3, <1>4, ConcatProperties
<1>6. ASSUME NEW j \in 2..n PROVE r[j] = q[j]
  <2>1. j \in 1..n /\ j > Len(o) /\ j - 1 \in 1..(n - 1) /\ (j - 1) + 1 = j
    BY <1>3
  <2>2. r[j] = t[j - 1]
    BY <1>2, <1>3, <1>4, <2>1, ConcatProperties
  <2> QED
    BY <1>2, <2>1, <2>2
<1>7. r # <<>>
  BY <1>5, EmptySeq
<1>8. Last(r) = IF n = 1 THEN c ELSE q[n]
  <2>1. n = 1 \/ n \in 2..n
    OBVIOUS
  <2> QED
    BY <1>5, <1>6, <2>1 DEF Last
<1> QED
  BY <1>1, <1>2, <1>3, <1>4, <1>5, <1>6, <1>7, <1>8 DEF Last

\* What the calls have in common that carry out or give up the first of the list.
Redo(c) ==
  /\ c \in OutCall /\ Meant(c) /\ c.how \notin {"send", "texts"}
  /\ Where(sender, c.what) = Where(sender, Step.what)
  /\ todo' = <<c>> \o Rest
Effects ==
  \/ shown' = shown /\ unsure' = unsure
  \/ shown' = Append(shown, Step.what) /\ unsure' = unsure \cup {Step.what}
  \/ shown' = Append(shown, Step.what) /\ unsure' = unsure /\ (todo' = Rest \/ todo' = <<>>)
WorkOn ==
  /\ todo # <<>> /\ Step.how \notin {"send", "texts"}
  /\ sender' = sender /\ (parcel' = parcel \/ parcel' = [parcel EXCEPT !.quotes = FALSE])
  /\ Effects /\ (Step.how = "reaction" \/ Step.what[1] = "empty" => shown' = shown)
  /\ todo' = Rest \/ todo' = <<>> \/ \E c \in OutCall : Redo(c)
  /\ undelivered' \subseteq DOMAIN parcel.files /\ named' \subseteq DOMAIN parcel.files

LEMMA FirstCall ==
  ASSUME OutTypes, todo # <<>>
  PROVE  /\ Step \in OutCall /\ Meant(Step) /\ 1 \in DOMAIN todo
         /\ Step.how \in Hows /\ Step.what \in OutKinds \X Nat /\ Step.what[1] \in OutKinds /\ Step.what[2] \in Nat
         /\ Step.tries \in 1..SendTries
<1>1. todo \in Seq(OutCall) /\ \A j \in DOMAIN todo : Meant(todo[j])
  BY DEF OutTypes
<1>2. todo[1] \in OutCall /\ 1 \in DOMAIN todo
  BY <1>1, FirstOfQueue
<1> QED
  BY <1>1, <1>2 DEF Step, OutCall

\* An empty text is sent by Discord only, in one chunk.
LEMMA OnlyChunksAreEmpty == ASSUME OutTypes, todo # <<>>, Step.how # "chunk" PROVE Step.what[1] # "empty"
  BY FirstCall DEF Meant

\* A call for the same subject by other means.
LEMMA OtherMeans ==
  ASSUME OutTypes, todo # <<>>, Step.how \notin {"send", "texts", "reaction"}, Step.how # "chunk", NEW how \in Hows,
         how \notin {"send", "texts", "reaction"}, how \in FileHows => Step.what[1] = "file",
         how = "notice" => Step.how = "notice",
         todo' = Call(how, Step.what) \o Rest
  PROVE  \E c \in OutCall : Redo(c)
<1>1. PICK c : c = FirstTry(how, Step.what)
  OBVIOUS
<1>2. 1 \in 1..SendTries
  BY OutboxAssumption
<1>3. c \in OutCall /\ c.how = how /\ c.what = Step.what
  BY <1>1, <1>2, FirstCall DEF FirstTry, OutCall
<1>4. Meant(c)
  BY <1>3, FirstCall DEF Meant
<1> QED
  BY <1>1, <1>3, <1>4 DEF Redo, Call

LEMMA OnceMore ==
  ASSUME OutTypes, todo # <<>>, Step.how \notin {"send", "texts"}, Step.tries < SendTries,
         Again
  PROVE  \E c \in OutCall : Redo(c)
<1>1. PICK t \in Nat : t = Step.tries /\ t + 1 \in 1..SendTries
  BY FirstCall, OutboxAssumption
<1>2. PICK s \in OutCall : s = Step /\ Meant(s)
  BY FirstCall
<1>3. PICK c : c = [s EXCEPT !.tries = t + 1]
  OBVIOUS
<1>4. c \in OutCall /\ c.how = s.how /\ c.what = s.what
  BY <1>1, <1>2, <1>3 DEF OutCall
<1>5. Meant(c)
  BY <1>2, <1>4 DEF Meant
<1>6. todo' = <<c>> \o Rest
  <2>1. [Step EXCEPT !.tries = @ + 1] = c
    BY <1>1, <1>2, <1>3
  <2> QED
    BY <2>1 DEF Again, Instead
<1> QED
  BY <1>2, <1>4, <1>5, <1>6 DEF Redo

\* A notice comes in the place of its file.
LEMMA NoticeForFile ==
  ASSUME OutTypes, todo # <<>>, Step.how \in FileHows, sender = "dingtalk",
         todo' = Call("notice", <<"notice", Step.what[2]>>) \o Rest
  PROVE  \E c \in OutCall : Redo(c)
<1>1. PICK i \in Nat : i = Step.what[2] /\ i \in DOMAIN parcel.files
  BY FirstCall DEF Meant
<1>2. PICK w \in OutKinds \X Nat : w = <<"notice", i>> /\ w[1] = "notice" /\ w[2] = i
  <2>1. <<"notice", i>> \in OutKinds \X Nat /\ <<"notice", i>>[1] = "notice" /\ <<"notice", i>>[2] = i
    BY DEF OutKinds
  <2> QED
    BY <2>1
<1>3. PICK c : c = FirstTry("notice", w)
  OBVIOUS
<1>4. 1 \in 1..SendTries
  BY OutboxAssumption
<1>5. c \in OutCall /\ c.how = "notice" /\ c.what = w
  BY <1>3, <1>4 DEF FirstTry, OutCall, Hows
<1>6. Meant(c)
  BY <1>1, <1>2, <1>5 DEF Meant, FileHows
<1>7. Step.what[1] = "file"
  BY FirstCall DEF Meant
<1>8. Where(sender, w) = Where(sender, Step.what)
  BY <1>1, <1>2, <1>7 DEF Where, InTexts, Single
<1> QED
  BY <1>1, <1>2, <1>3, <1>5, <1>6, <1>8 DEF Redo, Call

LEMMA FileGivenUp ==
  ASSUME OutTypes, todo # <<>>, Step.how \in FileHows \/ Step.what[1] = "file"
  PROVE  undelivered \cup {Step.what[2]} \subseteq DOMAIN parcel.files
<1>1. Step.what[2] \in DOMAIN parcel.files
  BY FirstCall DEF Meant
<1> QED
  BY <1>1 DEF OutTypes

\* The calls, each of the adapter that makes it.
LEMMA DiscordWorks == ASSUME OutTypes, DiscordFile \/ DiscordChunk PROVE WorkOn
<1>0. OutTypes
  OBVIOUS
<1>1. todo # <<>> /\ sender' = sender /\ parcel' = parcel /\ Step.how \in {"post", "chunk"}
  BY DEF DiscordFile, DiscordChunk, Calls, SameParcel
<1>2. Step.how \in FileHows \/ Step.what[1] = "file" => undelivered \cup {Step.what[2]} \subseteq DOMAIN parcel.files
  BY <1>1, FileGivenUp
<1>3. undelivered \cup named \subseteq DOMAIN parcel.files
  BY DEF OutTypes
<1>4. CASE DiscordFile
  <2>1. \/ Show(Next1, IF Step.tries < SendTries THEN Again ELSE todo' = Rest /\ GiveUpFile)
        \/ todo' = Rest /\ GiveUpFile /\ UNCHANGED <<shown, unsure>>
    BY <1>4 DEF DiscordFile
  <2>2. /\ Effects
        /\ todo' = Rest \/ (Step.tries < SendTries /\ Again)
        /\ undelivered' \in {undelivered, undelivered \cup {Step.what[2]}} /\ named' = named
    BY <2>1 DEF Show, Next1, Again, GiveUpFile, Effects
  <2>3. Step.how \in FileHows
    BY <1>4 DEF DiscordFile, Calls, FileHows
  <2> QED
    BY <1>1, <1>2, <1>3, <2>2, <2>3, OnceMore, OnlyChunksAreEmpty DEF WorkOn, FileHows
<1>5. CASE DiscordChunk
  <2>1. /\ Effects
        /\ todo' = Rest \/ todo' = <<>> \/ (Step.tries < SendTries /\ Again)
        /\ undelivered' = undelivered /\ named' = named
        /\ parcel.texts = 0 => shown' = shown
    BY <1>5 DEF DiscordChunk, Show, Next1, Again, Refuse, Effects
  <2>2. Step.how = "chunk" /\ (Step.what[1] = "empty" => parcel.texts = 0)
    BY <1>0, <1>1, <1>5, FirstCall DEF DiscordChunk, Calls, Meant
  <2> QED
    BY <1>1, <1>3, <2>1, <2>2, OnceMore DEF WorkOn
<1> QED
  BY <1>4, <1>5

LEMMA DingTalkWorks ==
  ASSUME OutTypes,
         DingTalkText \/ DingTalkUrl \/ DingTalkRead \/ DingTalkUpload \/ DingTalkImage \/ DingTalkFile \/ DingTalkNotice
  PROVE  WorkOn
<1>1. /\ todo # <<>> /\ sender' = sender /\ parcel' = parcel /\ sender = "dingtalk"
      /\ Step.how \in {"markdown", "url", "read", "upload", "image", "file", "notice"}
  BY DEF DingTalkText, DingTalkUrl, DingTalkRead, DingTalkUpload, DingTalkImage, DingTalkFile, DingTalkNotice,
         Calls, Quiet, SameParcel
<1>2. Step.how \in FileHows \/ Step.what[1] = "file" => undelivered \cup {Step.what[2]} \subseteq DOMAIN parcel.files
  BY <1>1, FileGivenUp
<1>3. undelivered \cup named \subseteq DOMAIN parcel.files
  BY DEF OutTypes
<1>4. CASE DingTalkText
  <2>1. Effects /\ todo' = Rest /\ undelivered' = undelivered /\ named' = named
    BY <1>4 DEF DingTalkText, Show, Next1, Refuse, Effects
  <2> QED
    BY <1>1, <1>3, <2>1, OnlyChunksAreEmpty DEF WorkOn
<1>5. CASE DingTalkNotice
  <2>1. /\ Effects /\ todo' = Rest /\ undelivered' = undelivered
        /\ named' \in {named, named \cup {Step.what[2]}} /\ Step.how = "notice"
    BY <1>5 DEF DingTalkNotice, Show, Next1, Refuse, Effects, Calls
  <2>2. Step.what[2] \in DOMAIN parcel.files
    BY <1>1, <2>1, FirstCall DEF Meant
  <2> QED
    BY <1>1, <1>3, <2>1, <2>2, OnlyChunksAreEmpty DEF WorkOn
<1>6. CASE DingTalkUrl \/ DingTalkRead \/ DingTalkUpload \/ DingTalkImage \/ DingTalkFile
  <2>1. Step.how \in FileHows /\ Step.how \notin {"send", "texts", "reaction", "notice"}
    BY <1>6 DEF DingTalkUrl, DingTalkRead, DingTalkUpload, DingTalkImage, DingTalkFile, Calls, FileHows
  <2>2. Step.what[1] = "file"
    BY <1>1, <2>1, FirstCall DEF Meant
  <2>3. /\ Effects /\ named' = named
        /\ undelivered' \in {undelivered, undelivered \cup {Step.what[2]}}
        /\ \/ todo' = Rest
           \/ \E how \in {"read", "upload", "file", "image"} : todo' = Call(how, Step.what) \o Rest
           \/ todo' = Call("notice", <<"notice", Step.what[2]>>) \o Rest
    BY <1>6 DEF DingTalkUrl, DingTalkRead, DingTalkUpload, DingTalkImage, DingTalkFile, Quiet,
                Show, Next1, Turn, NoticeInstead, GiveUpFile, Instead, Effects
  <2>4. ASSUME NEW how \in {"read", "upload", "file", "image"}, todo' = Call(how, Step.what) \o Rest
        PROVE  \E c \in OutCall : Redo(c)
    <3>1. how \in Hows /\ how \notin {"send", "texts", "reaction", "notice"}
      BY DEF Hows
    <3> QED
      BY <1>1, <2>1, <2>2, <2>4, <3>1, OtherMeans
  <2>5. todo' = Rest \/ \E c \in OutCall : Redo(c)
    BY <1>1, <2>1, <2>3, <2>4, NoticeForFile
  <2> QED
    BY <1>1, <1>2, <1>3, <2>1, <2>3, <2>5, OnlyChunksAreEmpty DEF WorkOn
<1> QED
  BY <1>4, <1>5, <1>6

LEMMA FeishuWorks ==
  ASSUME OutTypes, FeishuUpload \/ FeishuDoSend \/ FeishuReply \/ FeishuCreate
  PROVE  WorkOn
<1>1. /\ todo # <<>> /\ sender' = sender /\ (parcel' = parcel \/ parcel' = [parcel EXCEPT !.quotes = FALSE])
      /\ Step.how \in {"upload", "do_send", "reply", "create"}
  BY DEF FeishuUpload, FeishuDoSend, FeishuReply, FeishuCreate, Calls, Quiet, SameParcel
<1>2. undelivered \cup named \subseteq DOMAIN parcel.files
  BY DEF OutTypes
<1>3. Effects
  BY DEF FeishuUpload, FeishuDoSend, FeishuReply, FeishuCreate, Quiet, Show, Next1, Effects
<1>4. named' = named /\ undelivered' \in {undelivered, undelivered \cup {Step.what[2]}}
  BY DEF FeishuUpload, FeishuDoSend, FeishuReply, FeishuCreate, Quiet, Show, Next1, Turn, Refuse, GiveUpFile
<1>5. undelivered' \subseteq DOMAIN parcel.files
  <2>1. undelivered' = undelivered \/ Step.how = "upload"
    BY DEF FeishuUpload, FeishuDoSend, FeishuReply, FeishuCreate, Calls, Quiet, Show, Next1, Turn, Refuse, GiveUpFile
  <2> QED
    BY <1>1, <1>2, <1>4, <2>1, FileGivenUp DEF FileHows
<1>6. todo' = Rest \/ \E how \in {"do_send", "reply", "create"} : todo' = Call(how, Step.what) \o Rest
  BY DEF FeishuUpload, FeishuDoSend, FeishuReply, FeishuCreate, Show, Next1, Turn, Refuse, GiveUpFile, Instead
<1>7. ASSUME NEW how \in {"do_send", "reply", "create"}, todo' = Call(how, Step.what) \o Rest
      PROVE  \E c \in OutCall : Redo(c)
  <2>1. how \in Hows /\ how \notin {"send", "texts", "reaction", "notice"} /\ how \notin FileHows
    BY DEF Hows, FileHows
  <2>2. Step.how \notin {"send", "texts", "reaction"}
    BY <1>1
  <2> QED
    BY <1>1, <1>7, <2>1, <2>2, OtherMeans
<1> QED
  BY <1>1, <1>2, <1>3, <1>4, <1>5, <1>6, <1>7, OnlyChunksAreEmpty DEF WorkOn

LEMMA MatrixWorks == ASSUME OutTypes, MatrixFile \/ MatrixText PROVE WorkOn
<1>1. todo # <<>> /\ sender' = sender /\ parcel' = parcel /\ Step.how \in {"upload", "text"}
  BY DEF MatrixFile, MatrixText, Calls, SameParcel
<1>2. undelivered \cup named \subseteq DOMAIN parcel.files
  BY DEF OutTypes
<1>3. Effects /\ todo' = Rest
  BY DEF MatrixFile, MatrixText, Show, Next1, Effects
<1>4. /\ undelivered' = undelivered \/ (Step.how = "upload" /\ undelivered' = undelivered \cup {Step.what[2]})
      /\ named' \in {named, undelivered}
  BY DEF MatrixFile, MatrixText, Calls, Show, Next1, GiveUpFile, Refuse
<1>5. undelivered' \subseteq DOMAIN parcel.files
  BY <1>1, <1>2, <1>4, FileGivenUp DEF FileHows
<1> QED
  BY <1>1, <1>2, <1>3, <1>4, <1>5, OnlyChunksAreEmpty DEF WorkOn

LEMMA SlackWorks == ASSUME OutTypes, SlackText \/ SlackFile \/ SlackReaction PROVE WorkOn
<1>1. todo # <<>> /\ sender' = sender /\ parcel' = parcel /\ Step.how \in {"message", "upload", "reaction"}
  BY DEF SlackText, SlackFile, SlackReaction, Calls, Quiet, SameParcel
<1>2. undelivered \cup named \subseteq DOMAIN parcel.files
  BY DEF OutTypes
<1>3. Effects /\ (todo' = Rest \/ todo' = <<>>) /\ (Step.how = "reaction" => shown' = shown)
  BY DEF SlackText, SlackFile, SlackReaction, Calls, Show, Next1, Quiet, Effects
<1>4. /\ undelivered' = undelivered \/ (Step.how = "upload" /\ undelivered' = undelivered \cup {Step.what[2]})
      /\ named' = named
  BY DEF SlackText, SlackFile, SlackReaction, Calls, Show, Next1, GiveUpFile, Refuse
<1>5. undelivered' \subseteq DOMAIN parcel.files
  BY <1>1, <1>2, <1>4, FileGivenUp DEF FileHows
<1> QED
  BY <1>1, <1>2, <1>3, <1>4, <1>5, OnlyChunksAreEmpty DEF WorkOn

\* Lists of calls in the order of their places.
Rising(L, low, high) ==
  /\ \A j \in DOMAIN L : low < Where(sender, L[j].what) /\ Where(sender, L[j].what) <= high
  /\ \A i, j \in DOMAIN L : i < j => Where(sender, L[i].what) < Where(sender, L[j].what)
Calling(L) == L \in Seq(OutCall) /\ \A j \in DOMAIN L : Meant(L[j])
Textless(L) == \A j \in DOMAIN L : L[j].how \notin {"send", "texts"}
Parts == {"file", "text"}
PartHows == Hows \ {"send", "texts", "reaction", "notice"}
EachPart(n, how, part) == [i \in 1..n |-> FirstTry(how[i], <<part, i>>)]
Base(part) == IF (part = "text") = (sender \in Single) THEN 0 ELSE Half

LEMMA HalfIsNat == Half \in Nat /\ MaxFiles \in Nat /\ MaxFiles < Half /\ 1 <= Half
<1>1. MaxFiles \in Nat /\ MaxTexts \in Nat \ {0}
  BY OutboxAssumption
<1> QED
  BY <1>1 DEF Half

LEMMA WhereIsNat ==
  ASSUME NEW who, NEW what \in OutKinds \X Nat
  PROVE  Where(who, what) \in Nat
<1>1. what[2] \in Nat
  OBVIOUS
<1>2. what[2] + Half \in Nat /\ what[2] + 0 \in Nat /\ Half + Half + 1 \in Nat /\ Half \in Nat
  BY <1>1, HalfIsNat
<1> QED
  BY <1>2 DEF Where

LEMMA PartsInLine ==
  ASSUME NEW n \in Nat, NEW part \in Parts, NEW how \in [1..n -> PartHows],
         part = "file" => 1..n \subseteq DOMAIN parcel.files, part = "text" => \A i \in 1..n : how[i] \notin FileHows
  PROVE  /\ Calling(EachPart(n, how, part)) /\ Textless(EachPart(n, how, part))
         /\ Len(EachPart(n, how, part)) = n
         /\ \A j \in 1..n : EachPart(n, how, part)[j].how = how[j] /\ EachPart(n, how, part)[j].what = <<part, j>>
         /\ Rising(EachPart(n, how, part), Base(part), Base(part) + n)
<1>1. PICK L : L = EachPart(n, how, part)
  OBVIOUS
<1>2. ASSUME NEW i \in 1..n
      PROVE  /\ <<part, i>> \in OutKinds \X Nat /\ <<part, i>>[1] = part /\ <<part, i>>[2] = i
             /\ Where(sender, <<part, i>>) = Base(part) + i
  <2>1. part \in OutKinds
    BY DEF Parts, OutKinds
  <2>2. part \in {"file", "text"}
    BY DEF Parts
  <2>3. Half \in Nat
    BY HalfIsNat
  <2>4. <<part, i>>[1] = part /\ <<part, i>>[2] = i
    OBVIOUS
  <2>5. InTexts(sender, <<part, i>>) = (part = "text")
    BY <2>2, <2>4 DEF InTexts
  <2>6. Where(sender, <<part, i>>) = i + (IF (part = "text") = (sender \in Single) THEN 0 ELSE Half)
    BY <2>2, <2>4, <2>5 DEF Where
  <2> QED
    BY <2>1, <2>3, <2>4, <2>6 DEF Base
<1>3. ASSUME NEW i \in 1..n
      PROVE  L[i] \in OutCall /\ L[i].how = how[i] /\ L[i].what = <<part, i>> /\ Meant(L[i])
  <2>1. PICK h \in Hows : h = how[i] /\ h \notin {"send", "texts", "reaction", "notice"}
    BY DEF PartHows
  <2>2. PICK w \in OutKinds \X Nat : w = <<part, i>> /\ w[1] = part /\ w[2] = i
    BY <1>2
  <2>3. L[i] = [how |-> h, what |-> w, tries |-> 1]
    BY <1>1, <2>1, <2>2 DEF EachPart, FirstTry
  <2>4. 1 \in 1..SendTries
    BY OutboxAssumption
  <2>5. L[i] \in OutCall /\ L[i].how = h /\ L[i].what = w
    BY <2>3, <2>4 DEF OutCall
  <2>6. part \in {"file", "text"}
    BY DEF Parts
  <2>7. Meant(L[i])
    BY <2>1, <2>2, <2>5, <2>6 DEF Meant
  <2> QED
    BY <2>1, <2>2, <2>5, <2>7
<1>4. DOMAIN L = 1..n /\ L \in Seq(OutCall) /\ Len(L) = n
  <2>1. L = [i \in 1..n |-> FirstTry(how[i], <<part, i>>)]
    BY <1>1 DEF EachPart
  <2>2. DOMAIN L = 1..n
    BY <2>1
  <2>3. L \in [1..n -> OutCall]
    BY <1>3, <2>1
  <2> QED
    BY <2>2, <2>3, IsASeq, LenProperties
<1>5. Calling(L)
  BY <1>3, <1>4 DEF Calling
<1>6. Textless(L)
  BY <1>3, <1>4 DEF Textless, PartHows
<1>7. Rising(L, Base(part), Base(part) + n)
  <2>1. PICK b \in Nat : b = Base(part)
    BY HalfIsNat DEF Base
  <2>2. \A i \in 1..n : Where(sender, L[i].what) = b + i
    BY <1>2, <1>3, <2>1
  <2>3. \A i \in 1..n : b < b + i /\ b + i <= b + n
    OBVIOUS
  <2>4. \A i, j \in 1..n : i < j => b + i < b + j
    OBVIOUS
  <2> QED
    BY <1>4, <2>1, <2>2, <2>3, <2>4 DEF Rising
<1> QED
  BY <1>1, <1>3, <1>4, <1>5, <1>6, <1>7

\* One call by itself.
LEMMA OneInLine ==
  ASSUME NEW how \in Hows, NEW what \in OutKinds \X Nat, NEW low \in Nat, NEW high \in Nat,
         Meant(FirstTry(how, what)), low < Where(sender, what), Where(sender, what) <= high
  PROVE  /\ Calling(Call(how, what)) /\ Len(Call(how, what)) = 1 /\ Rising(Call(how, what), low, high)
         /\ Call(how, what)[1].how = how /\ Call(how, what)[1].what = what
<1>1. PICK c : c = FirstTry(how, what)
  OBVIOUS
<1>2. 1 \in 1..SendTries
  BY OutboxAssumption
<1>3. c \in OutCall /\ c.how = how /\ c.what = what
  BY <1>1, <1>2 DEF FirstTry, OutCall
<1>4. PICK L : L = Call(how, what)
  OBVIOUS
<1>5. L \in Seq(OutCall) /\ Len(L) = 1 /\ L[1] = c /\ DOMAIN L = 1..1
  BY <1>1, <1>3, <1>4 DEF Call
<1>6. \A i, j \in DOMAIN L : i = 1 /\ j = 1 /\ ~(i < j)
  BY <1>5
<1> QED
  BY <1>1, <1>3, <1>4, <1>5, <1>6 DEF Calling, Rising

Joint(A, B, C) ==
  /\ Len(C) = Len(A) + Len(B) /\ DOMAIN C = 1..(Len(A) + Len(B))
  /\ \A i \in 1..Len(A) : C[i] = A[i]
  /\ \A i \in 1..Len(B) : C[Len(A) + i] = B[i]
  /\ \A i \in 1..(Len(A) + Len(B)) : i \in 1..Len(A) \/ \E k \in 1..Len(B) : i = Len(A) + k

LEMMA JoinedLists ==
  ASSUME NEW A, NEW B, Calling(A), Calling(B)
  PROVE  /\ Calling(A \o B) /\ Joint(A, B, A \o B)
         /\ B # <<>> => A \o B # <<>> /\ Last(A \o B) = Last(B)
<1>1. A \in Seq(OutCall) /\ B \in Seq(OutCall)
  BY DEF Calling
<1>2. PICK m \in Nat, n \in Nat : m = Len(A) /\ n = Len(B) /\ DOMAIN A = 1..m /\ DOMAIN B = 1..n
  BY <1>1, LenProperties
<1>3. PICK C \in Seq(OutCall) : C = A \o B
  BY <1>1, ConcatProperties
<1>4. Len(C) = m + n /\ DOMAIN C = 1..(m + n)
  BY <1>1, <1>2, <1>3, ConcatProperties, LenProperties
<1>5. \A i \in 1..m : C[i] = A[i]
  BY <1>1, <1>2, <1>3, ConcatProperties
<1>6. ASSUME NEW i \in 1..n PROVE C[m + i] = B[i]
  <2>1. m + i \in 1..(m + n) /\ m + i > m /\ (m + i) - m = i
    OBVIOUS
  <2> QED
    BY <1>1, <1>2, <1>3, <2>1, ConcatProperties
<1>7. ASSUME NEW i \in 1..(m + n), i \notin 1..m PROVE \E k \in 1..n : i = m + k
  <2>1. i - m \in 1..n /\ i = m + (i - m)
    BY <1>7
  <2> QED
    BY <2>1
<1>8. ASSUME NEW j \in DOMAIN C PROVE Meant(C[j])
  <2>1. j \in 1..(m + n)
    BY <1>4
  <2>2. CASE j \in 1..m
    BY <1>2, <1>5, <2>2 DEF Calling
  <2>3. CASE j \notin 1..m
    <3>1. PICK k \in 1..n : j = m + k
      BY <1>7, <2>1, <2>3
    <3> QED
      BY <1>2, <1>6, <3>1 DEF Calling
  <2> QED
    BY <2>2, <2>3
<1>9. ASSUME B # <<>> PROVE C # <<>> /\ Last(C) = Last(B)
  <2>1. n \in 1..n
    BY <1>1, <1>2, <1>9, EmptySeq
  <2>2. C[m + n] = B[n] /\ m + n # 0
    BY <1>6, <2>1
  <2>3. C # <<>>
    BY <1>4, <2>2, EmptySeq
  <2> QED
    BY <1>2, <1>4, <2>2, <2>3 DEF Last
<1>10. Joint(A, B, C)
  BY <1>2, <1>4, <1>5, <1>6, <1>7 DEF Joint
<1> QED
  BY <1>2, <1>3, <1>4, <1>8, <1>9, <1>10 DEF Calling

LEMMA RisingJoined ==
  ASSUME NEW A, NEW B, Calling(A), Calling(B), NEW low \in Nat, NEW middle \in Nat, NEW high \in Nat,
         low <= middle, middle <= high, Rising(A, low, middle), Rising(B, middle, high)
  PROVE  Rising(A \o B, low, high)
<1>0. A \in Seq(OutCall) /\ B \in Seq(OutCall)
  BY DEF Calling
<1>1. PICK m \in Nat, n \in Nat : m = Len(A) /\ n = Len(B) /\ DOMAIN A = 1..m /\ DOMAIN B = 1..n
  BY <1>0, LenProperties
<1>2. PICK C \in Seq(OutCall) : C = A \o B
  BY JoinedLists DEF Calling
<1>3. /\ DOMAIN C = 1..(m + n) /\ \A i \in 1..m : C[i] = A[i]
      /\ \A i \in 1..n : C[m + i] = B[i]
      /\ \A i \in 1..(m + n) : i \in 1..m \/ \E k \in 1..n : i = m + k
  <2>1. Joint(A, B, C)
    BY <1>2, JoinedLists
  <2> QED
    BY <1>1, <1>2, <2>1 DEF Joint
<1>4. PICK a, b, W : /\ a = [i \in 1..m |-> Where(sender, A[i].what)]
                     /\ b = [i \in 1..n |-> Where(sender, B[i].what)]
                     /\ W = [i \in 1..(m + n) |-> Where(sender, C[i].what)]
  OBVIOUS
<1>5. ASSUME NEW L, Calling(L), NEW j \in DOMAIN L PROVE Where(sender, L[j].what) \in Nat
  <2>1. L[j] \in OutCall
    BY <1>5, ElementOfSeq, LenProperties DEF Calling
  <2>2. L[j].what \in OutKinds \X Nat
    BY <2>1 DEF OutCall
  <2> QED
    BY <2>2, WhereIsNat
<1>6. /\ \A i \in 1..m : a[i] \in Nat /\ low < a[i] /\ a[i] <= middle
      /\ \A i, j \in 1..m : i < j => a[i] < a[j]
  BY <1>1, <1>4, <1>5 DEF Rising
<1>7. /\ \A i \in 1..n : b[i] \in Nat /\ middle < b[i] /\ b[i] <= high
      /\ \A i, j \in 1..n : i < j => b[i] < b[j]
  BY <1>1, <1>4, <1>5 DEF Rising
<1>8. \A i \in 1..m : i \in 1..(m + n) /\ W[i] = a[i]
  <2>1. \A i \in 1..m : i \in 1..(m + n)
    OBVIOUS
  <2> QED
    BY <1>3, <1>4, <2>1
<1>9. \A i \in 1..n : m + i \in 1..(m + n) /\ W[m + i] = b[i]
  <2>1. \A i \in 1..n : m + i \in 1..(m + n)
    OBVIOUS
  <2> QED
    BY <1>3, <1>4, <2>1
<1>10. ASSUME NEW i \in 1..(m + n) PROVE low < W[i] /\ W[i] <= high
  <2>1. CASE i \in 1..m
    <3>1. PICK x \in Nat : x = a[i] /\ x = W[i] /\ low < x /\ x <= middle
      BY <1>6, <1>8, <2>1
    <3> QED
      BY <3>1
  <2>2. CASE i \notin 1..m
    <3>1. PICK k \in 1..n : i = m + k
      BY <1>3, <2>2
    <3>2. PICK x \in Nat : x = b[k] /\ x = W[i] /\ middle < x /\ x <= high
      BY <1>7, <1>9, <3>1
    <3> QED
      BY <3>2
  <2> QED
    BY <2>1, <2>2
<1>11. ASSUME NEW i \in 1..(m + n), NEW j \in 1..(m + n), i < j PROVE W[i] < W[j]
  <2>1. CASE j \in 1..m
    <3>1. i \in 1..m
      BY <1>11, <2>1
    <3>2. a[i] < a[j]
      BY <1>6, <1>11, <2>1, <3>1
    <3> QED
      BY <1>8, <2>1, <3>1, <3>2
  <2>2. CASE j \notin 1..m
    <3>1. PICK k \in 1..n : j = m + k
      BY <1>3, <2>2
    <3>2. PICK y \in Nat : y = b[k] /\ y = W[j] /\ middle < y
      BY <1>7, <1>9, <3>1
    <3>3. CASE i \in 1..m
      <4>1. PICK x \in Nat : x = a[i] /\ x = W[i] /\ x <= middle
        BY <1>6, <1>8, <3>3
      <4> QED
        BY <3>2, <4>1
    <3>4. CASE i \notin 1..m
      <4>1. PICK l \in 1..n : i = m + l
        BY <1>3, <3>4
      <4>2. l < k
        BY <1>11, <3>1, <4>1
      <4>3. b[l] < b[k] /\ W[i] = b[l]
        BY <1>7, <1>9, <4>1, <4>2
      <4> QED
        BY <3>2, <4>3
    <3> QED
      BY <3>3, <3>4
  <2> QED
    BY <2>1, <2>2
<1> QED
  BY <1>2, <1>3, <1>4, <1>10, <1>11 DEF Rising

OrderInv == OutTypes /\ Starting /\ InLine /\ ShownFirst /\ ShownInOrder

\* The chat stays in order when the calls that are left come after what is shown.
LEMMA OrderFollows ==
  ASSUME OrderInv, todo # <<>>, sender' = sender, unsure \subseteq unsure', todo' \in Seq(OutCall),
         \A j \in DOMAIN todo' : CallPlace(1) <= CallPlace(j)',
         \/ shown' = shown
         \/ /\ shown' = Append(shown, Step.what)
            /\ Step.what \in unsure' \/ \A j \in DOMAIN todo' : CallPlace(1) < CallPlace(j)'
  PROVE  ShownFirst' /\ ShownInOrder'
<1>0. OutTypes /\ ShownFirst /\ ShownInOrder
  BY DEF OrderInv
<1>1. PICK n \in Nat : n = Len(shown) /\ DOMAIN shown = 1..n /\ \A s \in 1..n : shown[s] \in OutKinds \X Nat
  BY <1>0, QueueShape DEF OutTypes
<1>2. PICK step \in OutKinds \X Nat, here \in Nat : step = Step.what /\ here = Where(sender, step) /\ here = CallPlace(1)
  <2>1. Step.what \in OutKinds \X Nat
    BY <1>0, FirstCall
  <2>2. Where(sender, Step.what) \in Nat
    BY <2>1, WhereIsNat
  <2> QED
    BY <2>1, <2>2 DEF CallPlace, Step
<1>3. PICK w : w = [s \in 1..n |-> Where(sender, shown[s])]
  OBVIOUS
<1>4. \A s \in 1..n : w[s] = Where(sender, shown[s]) /\ w[s] \in Nat
  BY <1>1, <1>3, WhereIsNat
<1>5. \A s \in 1..n : w[s] < here \/ (w[s] = here /\ shown[s] \in unsure')
  <2>1. 1 \in DOMAIN todo
    BY <1>0, FirstCall
  <2> QED
    BY <1>0, <1>1, <1>2, <1>4, <2>1 DEF ShownFirst, Comes
<1>6. \A s, t \in 1..n : s < t => w[s] < w[t] \/ (w[s] = w[t] /\ shown[s] \in unsure')
  BY <1>0, <1>1, <1>4 DEF ShownInOrder, Comes
<1>7. ASSUME NEW j \in DOMAIN todo' PROVE CallPlace(j)' \in Nat /\ here <= CallPlace(j)' /\ CallPlace(j)' = Where(sender, todo'[j].what)
  <2>1. todo'[j] \in OutCall
    BY ElementOfSeq, LenProperties
  <2>2. todo'[j].what \in OutKinds \X Nat
    BY <2>1 DEF OutCall
  <2> QED
    BY <1>2, <2>2, WhereIsNat DEF CallPlace
<1>8. ASSUME NEW s \in 1..n, NEW j \in DOMAIN todo'
      PROVE  w[s] < CallPlace(j)' \/ (w[s] = CallPlace(j)' /\ shown[s] \in unsure')
  <2>1. PICK x \in Nat, y \in Nat : x = w[s] /\ y = CallPlace(j)' /\ here <= y
    BY <1>4, <1>7
  <2>2. x < here \/ (x = here /\ shown[s] \in unsure')
    BY <1>5, <2>1
  <2>3. x < y \/ (x = y /\ shown[s] \in unsure')
    BY <2>1, <2>2
  <2> QED
    BY <2>1, <2>3
<1>9. CASE shown' = shown
  <2>1. ShownFirst'
    BY <1>1, <1>4, <1>8, <1>9 DEF ShownFirst, Comes
  <2>2. ShownInOrder'
    BY <1>1, <1>4, <1>6, <1>9 DEF ShownInOrder, Comes
  <2> QED
    BY <2>1, <2>2
<1>10. CASE /\ shown' = Append(shown, step)
            /\ step \in unsure' \/ \A j \in DOMAIN todo' : CallPlace(1) < CallPlace(j)'
  <2>1. DOMAIN shown' = 1..(n + 1) /\ shown'[n + 1] = step /\ \A s \in 1..n : shown'[s] = shown[s]
    BY <1>0, <1>1, <1>10, AppendProperties, LenProperties DEF OutTypes
  <2>2. ASSUME NEW s \in 1..(n + 1), NEW j \in DOMAIN todo'
        PROVE  Where(sender, shown'[s]) < CallPlace(j)' \/ (Where(sender, shown'[s]) = CallPlace(j)' /\ shown'[s] \in unsure')
    <3>1. s \in 1..n \/ s = n + 1
      OBVIOUS
    <3>2. CASE s \in 1..n
      BY <1>4, <1>8, <2>1, <3>2
    <3>3. CASE s = n + 1
      <4>1. here < CallPlace(j)' \/ (here = CallPlace(j)' /\ step \in unsure')
        BY <1>2, <1>7, <1>10
      <4> QED
        BY <1>2, <2>1, <3>3, <4>1
    <3> QED
      BY <3>1, <3>2, <3>3
  <2>3. ASSUME NEW s \in 1..(n + 1), NEW t \in 1..(n + 1), s < t
        PROVE  \/ Where(sender, shown'[s]) < Where(sender, shown'[t])
               \/ Where(sender, shown'[s]) = Where(sender, shown'[t]) /\ shown'[s] \in unsure'
    <3>1. s \in 1..n /\ (t \in 1..n \/ t = n + 1)
      BY <2>3
    <3>2. CASE t \in 1..n
      BY <1>4, <1>6, <2>1, <2>3, <3>1, <3>2
    <3>3. CASE t = n + 1
      BY <1>2, <1>4, <1>5, <2>1, <3>1, <3>3
    <3> QED
      BY <3>1, <3>2, <3>3
  <2>4. ShownFirst'
    BY <2>1, <2>2 DEF ShownFirst, Comes
  <2>5. ShownInOrder'
    BY <2>1, <2>3 DEF ShownInOrder, Comes
  <2> QED
    BY <2>4, <2>5
<1> QED
  BY <1>2, <1>9, <1>10

LEMMA OneIsLeft ==
  ASSUME OutTypes, Starting, todo # <<>>, Step.how \in {"send", "texts"}
  PROVE  Len(todo) = 1 /\ Rest = <<>> /\ DOMAIN todo = 1..1
<1>1. todo \in Seq(OutCall)
  BY DEF OutTypes
<1>2. 1 \in DOMAIN todo /\ DOMAIN todo = 1..Len(todo)
  BY <1>1, FirstOfQueue
<1>3. Len(todo) = 1
  BY <1>2 DEF Starting, Step
<1>4. Tail(todo) \in Seq(OutCall) /\ Len(Tail(todo)) = 0
  BY <1>1, <1>3, FirstOfQueue
<1> QED
  BY <1>2, <1>3, <1>4, EmptySeq DEF Rest

\* The whole reply, or Discord's texts, become calls.
LEMMA ExpandingKeeps ==
  ASSUME OrderInv, todo # <<>>, Step.how \in {"send", "texts"}, Quiet, NEW L, Turn(L),
         Calling(L), NEW low \in Nat, NEW high \in Nat, Rising(L, low, high),
         \A j \in DOMAIN L : CallPlace(1) <= Where(sender, L[j].what),
         \A j \in DOMAIN L : L[j].how # "send" /\ (L[j].how = "texts" => j = Len(L))
  PROVE  OrderInv' /\ todo' = L
<1>0. OutTypes /\ Starting
  BY DEF OrderInv
<1>1. todo' = L
  <2>1. Rest = <<>> /\ L \in Seq(OutCall)
    BY <1>0, OneIsLeft DEF Calling
  <2>2. L \o <<>> = L
    BY <2>1, ConcatEmptySeq
  <2> QED
    BY <2>1, <2>2 DEF Turn, Instead
<1>2. UNCHANGED <<shown, unsure, sender, parcel, undelivered, named, refused>>
  BY DEF Quiet, SameParcel, Turn
<1>3. OutTypes'
  <2>1. todo' \in Seq(OutCall) /\ \A j \in DOMAIN todo' : Meant(todo'[j])
    BY <1>1 DEF Calling
  <2>2. \A j \in DOMAIN todo' : Meant(todo[j])'
    BY <1>2, <2>1 DEF Meant
  <2> QED
    BY <1>0, <1>2, <2>1, <2>2 DEF OutTypes
<1>4. Starting'
  BY <1>1 DEF Starting
<1>5. InLine'
  BY <1>1, <1>2 DEF InLine, CallPlace, Rising
<1>6. ShownFirst' /\ ShownInOrder'
  <2>1. \A j \in DOMAIN todo' : CallPlace(1) <= CallPlace(j)'
    BY <1>1, <1>2 DEF CallPlace
  <2> QED
    BY <1>1, <1>2, <2>1, OrderFollows DEF Calling
<1> QED
  BY <1>1, <1>3, <1>4, <1>5, <1>6 DEF OrderInv

\* The other calls keep the order.
LEMMA WorkKeeps == ASSUME OrderInv, WorkOn PROVE OrderInv'
<1>0. OutTypes /\ Starting /\ InLine
  BY DEF OrderInv
<1>1. PICK n \in Nat : n = Len(todo) /\ n # 0 /\ DOMAIN todo = 1..n /\ todo \in Seq(OutCall) /\ todo # <<>>
  BY <1>0, FirstOfQueue DEF OutTypes, WorkOn
<1>2. PICK w : w = [j \in 1..n |-> CallPlace(j)]
  OBVIOUS
<1>3. /\ \A j \in 1..n : w[j] = Where(sender, todo[j].what) /\ w[j] \in Nat
      /\ \A i, j \in 1..n : i < j => w[i] < w[j]
  <2>1. ASSUME NEW j \in 1..n PROVE w[j] \in Nat
    <3>1. todo[j] \in OutCall
      BY <1>1, ElementOfSeq
    <3>2. todo[j].what \in OutKinds \X Nat
      BY <3>1 DEF OutCall
    <3> QED
      BY <1>2, <3>2, WhereIsNat DEF CallPlace
  <2> QED
    BY <1>0, <1>1, <1>2, <2>1 DEF InLine, CallPlace
<1>4. sender' = sender /\ parcel'.files = parcel.files /\ parcel'.texts = parcel.texts /\ parcel' \in Parcel
  BY <1>0 DEF WorkOn, OutTypes, Parcel
<1>5. ASSUME NEW c, Meant(c) PROVE Meant(c)'
  BY <1>4, <1>5 DEF Meant
<1>6. Step.what \in OutKinds \X Nat /\ (shown' # shown => Step.what[1] \in {"file", "text", "notice"})
  <2>1. Step.how # "reaction" => Step.what[1] \notin {"reply", "texts", "reaction"}
    BY <1>0, <1>1, FirstCall DEF Meant, WorkOn
  <2>2. shown' # shown => Step.what[1] # "empty"
    BY <1>1 DEF WorkOn
  <2> QED
    BY <1>0, <1>1, <2>1, <2>2, FirstCall DEF WorkOn, OutKinds
<1>7. /\ shown' \in Seq(OutKinds \X Nat) /\ (\A s \in DOMAIN shown' : shown'[s][1] \in {"file", "text", "notice"})
      /\ unsure' \subseteq Range(shown')
  <2>1. CASE shown' = shown
    <3>1. unsure' = unsure \/ shown = Append(shown, Step.what)
      BY <2>1 DEF WorkOn, Effects
    <3>2. shown # Append(shown, Step.what)
      <4>1. PICK m \in Nat : m = Len(shown) /\ Len(Append(shown, Step.what)) = m + 1
        BY <1>0, <1>6, AppendProperties, LenProperties DEF OutTypes
      <4>2. m # m + 1
        OBVIOUS
      <4> QED
        BY <4>1, <4>2
    <3> QED
      BY <1>0, <2>1, <3>1, <3>2 DEF OutTypes
  <2>2. CASE shown' # shown
    <3>1. shown' = Append(shown, Step.what) /\ unsure' \subseteq unsure \cup {Step.what}
      BY <2>2 DEF WorkOn, Effects
    <3>2. PICK m \in Nat : m = Len(shown) /\ DOMAIN shown = 1..m /\ DOMAIN shown' = 1..(m + 1)
      BY <1>0, <1>6, <3>1, AppendProperties, LenProperties DEF OutTypes
    <3>3. shown'[m + 1] = Step.what /\ \A s \in 1..m : shown'[s] = shown[s]
      BY <1>0, <1>6, <3>1, <3>2, AppendProperties DEF OutTypes
    <3>4. \A s \in 1..(m + 1) : s \in 1..m \/ s = m + 1
      OBVIOUS
    <3>5. Range(shown') = Range(shown) \cup {Step.what}
      BY <3>2, <3>3, <3>4 DEF Range
    <3> QED
      BY <1>0, <1>6, <2>2, <3>1, <3>2, <3>3, <3>4, <3>5, AppendProperties DEF OutTypes
  <2> QED
    BY <2>1, <2>2
<1>8. unsure \subseteq unsure'
  BY DEF WorkOn, Effects
<1>9. undelivered' \cup named' \subseteq DOMAIN parcel'.files
  BY <1>4 DEF WorkOn
<1>10. CASE todo' = Rest
  <2>1. Rest \in Seq(OutCall) /\ DOMAIN Rest = 1..(n - 1) /\ Len(Rest) = n - 1 /\ \A j \in 1..(n - 1) : Rest[j] = todo[j + 1]
    BY <1>1, FirstOfQueue DEF Rest
  <2>2. \A j \in 1..(n - 1) : j + 1 \in 1..n /\ CallPlace(j)' = w[j + 1] /\ Meant(todo[j])' /\ todo'[j] = todo[j + 1]
    <3>1. \A j \in 1..(n - 1) : j + 1 \in 1..n
      OBVIOUS
    <3> QED
      BY <1>0, <1>1, <1>3, <1>4, <1>5, <1>10, <2>1, <3>1 DEF CallPlace, OutTypes
  <2>3. OutTypes'
    BY <1>0, <1>4, <1>7, <1>9, <1>10, <2>1, <2>2 DEF OutTypes
  <2>4. InLine'
    <3>1. ASSUME NEW i \in 1..(n - 1), NEW j \in 1..(n - 1), i < j PROVE w[i + 1] < w[j + 1]
      <4>1. i + 1 < j + 1
        BY <3>1
      <4> QED
        BY <1>3, <2>2, <3>1, <4>1
    <3> QED
      BY <1>10, <2>1, <2>2, <3>1 DEF InLine
  <2>5. Starting'
    <3>1. ASSUME NEW j \in 1..(n - 1) PROVE /\ todo'[j].how \in {"send", "texts"} => j = n - 1
                                            /\ todo'[j].how # "send"
      <4>1. j + 1 \in 1..n /\ j + 1 # 1 /\ (j + 1 = n => j = n - 1)
        OBVIOUS
      <4> QED
        BY <1>0, <1>1, <2>2, <4>1 DEF Starting
    <3> QED
      BY <1>10, <2>1, <3>1 DEF Starting
  <2>6. ShownFirst' /\ ShownInOrder'
    <3>1. CallPlace(1) = w[1] /\ 1 \in 1..n
      BY <1>1, <1>2
    <3>2. \A j \in 1..(n - 1) : 1 < j + 1 /\ j + 1 \in 1..n
      OBVIOUS
    <3>3. \A j \in DOMAIN todo' : CallPlace(1) < CallPlace(j)'
      BY <1>3, <1>10, <2>1, <2>2, <3>1, <3>2
    <3>4. \A j \in DOMAIN todo' : CallPlace(1) <= CallPlace(j)'
      <4>1. ASSUME NEW j \in 1..(n - 1) PROVE w[1] <= w[j + 1]
        <5>1. w[1] < w[j + 1] /\ w[1] \in Nat /\ w[j + 1] \in Nat
          BY <1>3, <3>1, <3>2
        <5> QED
          BY <5>1
      <4> QED
        BY <1>10, <2>1, <2>2, <3>1, <4>1
    <3>5. \/ shown' = shown
          \/ /\ shown' = Append(shown, Step.what)
             /\ Step.what \in unsure' \/ \A j \in DOMAIN todo' : CallPlace(1) < CallPlace(j)'
      BY <3>3 DEF WorkOn, Effects
    <3> QED
      BY <1>1, <1>4, <1>8, <1>10, <2>1, <3>4, <3>5, OrderFollows
  <2> QED
    BY <2>3, <2>4, <2>5, <2>6 DEF OrderInv
<1>11. CASE todo' = <<>>
  <2>1. DOMAIN todo' = {} /\ todo' \in Seq(OutCall)
    BY <1>11, EmptySeq
  <2>2. OutTypes' /\ InLine' /\ Starting'
    BY <1>0, <1>4, <1>7, <1>9, <2>1 DEF OutTypes, InLine, Starting
  <2>3. ShownFirst' /\ ShownInOrder'
    <3>1. shown' = shown \/ shown' = Append(shown, Step.what)
      BY DEF WorkOn, Effects
    <3> QED
      BY <1>1, <1>4, <1>8, <2>1, <3>1, OrderFollows
  <2> QED
    BY <2>2, <2>3 DEF OrderInv
<1>12. ASSUME NEW c \in OutCall, Redo(c), todo' # Rest, todo' # <<>> PROVE OrderInv'
  <2>1. todo' = <<c>> \o Rest /\ Meant(c) /\ c.how \notin {"send", "texts"} /\ Where(sender, c.what) = w[1]
    BY <1>1, <1>3, <1>12 DEF Redo, Step
  <2>2. /\ todo' \in Seq(OutCall) /\ Len(todo') = n /\ todo'[1] = c
        /\ \A j \in 2..n : todo'[j] = todo[j]
    BY <1>1, <2>1, HeadInstead DEF Rest
  <2>3. DOMAIN todo' = 1..n /\ \A j \in 1..n : j = 1 \/ j \in 2..n
    BY <2>2, LenProperties
  <2>4. \A j \in 1..n : CallPlace(j)' = w[j] /\ Meant(todo[j])'
    <3>1. ASSUME NEW j \in 1..n PROVE CallPlace(j)' = w[j] /\ Meant(todo'[j])
      BY <1>0, <1>1, <1>3, <1>4, <2>1, <2>2, <2>3 DEF CallPlace, OutTypes
    <3> QED
      BY <1>4, <3>1 DEF Meant
  <2>5. OutTypes'
    BY <1>0, <1>4, <1>7, <1>9, <2>2, <2>3, <2>4 DEF OutTypes
  <2>6. InLine'
    BY <1>3, <2>3, <2>4 DEF InLine
  <2>7. Starting'
    <3>1. ASSUME NEW j \in 1..n PROVE /\ todo'[j].how \in {"send", "texts"} => j = n
                                      /\ todo'[j].how # "send"
      <4>1. CASE j = 1
        BY <2>1, <2>2, <4>1
      <4>2. CASE j \in 2..n
        BY <1>0, <1>1, <2>2, <4>2 DEF Starting
      <4> QED
        BY <2>3, <4>1, <4>2
    <3> QED
      BY <2>2, <2>3, <3>1 DEF Starting
  <2>8. ShownFirst' /\ ShownInOrder'
    <3>1. CallPlace(1) = w[1] /\ 1 \in 1..n
      BY <1>1, <1>2
    <3>2. \A j \in 2..n : 1 < j /\ j \in 1..n
      OBVIOUS
    <3>3. \A j \in DOMAIN todo' : CallPlace(1) <= CallPlace(j)'
      <4>1. ASSUME NEW j \in 1..n PROVE w[1] <= w[j]
        <5>1. j = 1 \/ w[1] < w[j]
          BY <1>3, <2>3, <3>1, <3>2
        <5> QED
          BY <1>3, <3>1, <5>1
      <4> QED
        BY <2>3, <2>4, <3>1, <4>1
    <3>4. \/ shown' = shown
          \/ shown' = Append(shown, Step.what) /\ Step.what \in unsure'
      BY <1>12 DEF WorkOn, Effects
    <3> QED
      BY <1>1, <1>4, <1>8, <2>2, <3>3, <3>4, OrderFollows
  <2> QED
    BY <2>5, <2>6, <2>7, <2>8 DEF OrderInv
<1> QED
  BY <1>10, <1>11, <1>12 DEF WorkOn

\* The files and the texts of the reply, as calls.
LEMMA FilesInLine ==
  ASSUME OutTypes, NEW f \in [1..Len(parcel.files) -> PartHows]
  PROVE  /\ Calling(EachFile(f)) /\ Textless(EachFile(f)) /\ Len(EachFile(f)) = Len(parcel.files)
         /\ Rising(EachFile(f), Base("file"), Base("file") + MaxFiles)
         /\ \A j \in DOMAIN EachFile(f) : EachFile(f)[j].how = f[j] /\ EachFile(f)[j].what = File(j)
         /\ DOMAIN EachFile(f) = DOMAIN parcel.files
<1>1. PICK n \in Nat : n = Len(parcel.files) /\ n <= MaxFiles /\ 1..n = DOMAIN parcel.files
  <2>1. parcel.files \in Seq(FileKinds) /\ Len(parcel.files) <= MaxFiles
    BY DEF OutTypes, Parcel
  <2> QED
    BY <2>1, LenProperties
<1>2. PICK L : L = EachFile(f) /\ L = EachPart(n, f, "file")
  BY <1>1 DEF EachFile, EachPart, File
<1>3. /\ Calling(L) /\ Textless(L) /\ Len(L) = n
      /\ \A j \in 1..n : L[j].how = f[j] /\ L[j].what = File(j)
      /\ Rising(L, Base("file"), Base("file") + n)
  <2>1. "file" \in Parts
    BY DEF Parts
  <2> QED
    BY <1>1, <1>2, <2>1, PartsInLine DEF File
<1>4. DOMAIN L = 1..n
  BY <1>2 DEF EachPart
<1>5. Rising(L, Base("file"), Base("file") + MaxFiles)
  <2>1. PICK b \in Nat : b = Base("file")
    BY HalfIsNat DEF Base
  <2>2. ASSUME NEW j \in 1..n PROVE b < Where(sender, L[j].what) /\ Where(sender, L[j].what) <= b + MaxFiles
    <3>1. PICK x \in Nat : x = Where(sender, L[j].what)
      <4>1. L[j] \in OutCall
        BY <1>3, <1>4, ElementOfSeq, LenProperties DEF Calling
      <4>2. L[j].what \in OutKinds \X Nat
        BY <4>1 DEF OutCall
      <4> QED
        BY <4>2, WhereIsNat
    <3>2. b < x /\ x <= b + n
      BY <1>3, <1>4, <2>1, <3>1 DEF Rising
    <3>3. x <= b + MaxFiles
      BY <1>1, <3>2, OutboxAssumption
    <3> QED
      BY <3>1, <3>2, <3>3
  <2> QED
    BY <1>3, <1>4, <2>1, <2>2 DEF Rising
<1> QED
  BY <1>1, <1>2, <1>3, <1>4, <1>5

LEMMA AllFilesInLine ==
  ASSUME OutTypes, NEW how \in PartHows
  PROVE  /\ Calling(AllBy(how)) /\ Textless(AllBy(how)) /\ Len(AllBy(how)) = Len(parcel.files)
         /\ Rising(AllBy(how), Base("file"), Base("file") + MaxFiles)
         /\ \A j \in DOMAIN AllBy(how) : AllBy(how)[j].how = how /\ AllBy(how)[j].what = File(j)
         /\ DOMAIN AllBy(how) = DOMAIN parcel.files
<1>1. PICK f \in [1..Len(parcel.files) -> PartHows] : f = [i \in 1..Len(parcel.files) |-> how]
  OBVIOUS
<1>2. DOMAIN parcel.files = 1..Len(parcel.files)
  BY LenProperties DEF OutTypes, Parcel
<1>3. AllBy(how) = EachFile(f) /\ \A j \in DOMAIN parcel.files : f[j] = how
  BY <1>1, <1>2 DEF AllBy, EachFile
<1> QED
  BY <1>3, FilesInLine

LEMMA TextsInLine ==
  ASSUME OutTypes, NEW how \in PartHows, how \notin FileHows
  PROVE  /\ Calling(EachText(how)) /\ Textless(EachText(how)) /\ Len(EachText(how)) = parcel.texts
         /\ Rising(EachText(how), Base("text"), Base("text") + parcel.texts)
         /\ \A j \in DOMAIN EachText(how) : EachText(how)[j].how = how /\ EachText(how)[j].what = Text(j)
         /\ DOMAIN EachText(how) = 1..parcel.texts /\ parcel.texts \in Nat
<1>1. PICK n \in Nat : n = parcel.texts
  BY DEF OutTypes, Parcel
<1>2. PICK f \in [1..n -> PartHows] : f = [i \in 1..n |-> how]
  OBVIOUS
<1>3. PICK L : L = EachText(how) /\ L = EachPart(n, f, "text")
  BY <1>1, <1>2 DEF EachText, EachPart, Text
<1>4. /\ Calling(L) /\ Textless(L) /\ Len(L) = n
      /\ \A j \in 1..n : L[j].how = f[j] /\ L[j].what = Text(j)
      /\ Rising(L, Base("text"), Base("text") + n)
  <2>1. "text" \in Parts
    BY DEF Parts
  <2>2. \A i \in 1..n : f[i] \notin FileHows
    BY <1>2
  <2> QED
    BY <1>3, <2>1, <2>2, PartsInLine DEF Text
<1>5. DOMAIN L = 1..n /\ \A j \in 1..n : f[j] = how
  BY <1>2, <1>3 DEF EachPart
<1> QED
  BY <1>1, <1>3, <1>4, <1>5

\* The state before the reply is taken apart.
LEMMA NothingShownYet ==
  ASSUME OrderInv, todo # <<>>, Step.how = "send"
  PROVE  shown = <<>> /\ unsure = {} /\ undelivered = {} /\ named = {} /\ refused = {} /\ CallPlace(1) = 0
<1>1. 1 \in DOMAIN todo /\ Meant(Step) /\ Step.what[1] \in OutKinds
  BY FirstCall DEF OrderInv
<1>2. shown = <<>> /\ unsure = {} /\ undelivered = {} /\ named = {} /\ refused = {}
  BY <1>1 DEF OrderInv, Starting, Step
<1>3. Step.what[1] = "reply"
  BY <1>1 DEF Meant
<1> QED
  BY <1>2, <1>3 DEF CallPlace, Where, Step

LEMMA PlacesAreNat ==
  ASSUME NEW L, Calling(L)
  PROVE  \A j \in DOMAIN L : Where(sender, L[j].what) \in Nat /\ 0 <= Where(sender, L[j].what)
<1>1. ASSUME NEW j \in DOMAIN L PROVE Where(sender, L[j].what) \in Nat
  <2>1. L[j] \in OutCall
    BY ElementOfSeq, LenProperties DEF Calling
  <2>2. L[j].what \in OutKinds \X Nat
    BY <2>1 DEF OutCall
  <2> QED
    BY <2>2, WhereIsNat
<1>2. \A x \in Nat : 0 <= x
  OBVIOUS
<1> QED
  BY <1>1, <1>2

\* Discord: the files, and after them whatever becomes of the texts.
LEMMA DiscordExpands ==
  ASSUME OrderInv, DiscordSend
  PROVE  OrderInv' /\ todo' = AllBy("post") \o Call("texts", <<"texts", 0>>)
<1>0. OutTypes /\ todo # <<>> /\ Step.how = "send" /\ Quiet /\ sender = "discord"
  BY DEF DiscordSend, Calls, OrderInv
<1>1. PICK A, B, L : A = AllBy("post") /\ B = Call("texts", <<"texts", 0>>) /\ L = A \o B
  OBVIOUS
<1>2. Turn(L)
  BY <1>1 DEF DiscordSend
<1>3. "post" \in PartHows /\ Base("file") = 0 /\ "texts" \in Hows /\ <<"texts", 0>> \in OutKinds \X Nat
  BY <1>0 DEF PartHows, Hows, Base, Single, OutKinds
<1>4. /\ Calling(A) /\ Textless(A) /\ Rising(A, 0, 0 + MaxFiles)
      /\ \A j \in DOMAIN A : A[j].how = "post"
  BY <1>0, <1>1, <1>3, AllFilesInLine
<1>5. MaxFiles \in Nat /\ Half \in Nat /\ MaxFiles < Half
  BY HalfIsNat
<1>6. Calling(B) /\ Len(B) = 1 /\ Rising(B, MaxFiles, Half) /\ B[1].how = "texts"
  <2>1. FirstTry("texts", <<"texts", 0>>).how = "texts" /\ FirstTry("texts", <<"texts", 0>>).what = <<"texts", 0>>
    BY DEF FirstTry
  <2>2. Meant(FirstTry("texts", <<"texts", 0>>))
    BY <2>1 DEF Meant, FileHows
  <2>3. Where(sender, <<"texts", 0>>) = Half
    BY DEF Where
  <2> QED
    BY <1>1, <1>3, <1>5, <2>2, <2>3, OneInLine
<1>7. Rising(L, 0, Half)
  <2>1. Rising(A, 0, MaxFiles)
    BY <1>4, <1>5
  <2>2. 0 <= MaxFiles /\ MaxFiles <= Half
    BY <1>5
  <2> QED
    BY <1>1, <1>4, <1>5, <1>6, <2>1, <2>2, RisingJoined
<1>8. Calling(L) /\ Joint(A, B, L)
  BY <1>1, <1>4, <1>6, JoinedLists
<1>9. \A j \in DOMAIN L : L[j].how # "send" /\ (L[j].how = "texts" => j = Len(L))
  <2>1. PICK m \in Nat : m = Len(A) /\ DOMAIN A = 1..m
    BY <1>4, LenProperties DEF Calling
  <2>2. /\ DOMAIN L = 1..(m + 1) /\ Len(L) = m + 1 /\ L[m + 1] = B[1] /\ \A j \in 1..m : L[j] = A[j]
    BY <1>6, <1>8, <2>1 DEF Joint
  <2>3. \A j \in 1..(m + 1) : j \in 1..m \/ j = m + 1
    OBVIOUS
  <2> QED
    BY <1>4, <1>6, <2>1, <2>2, <2>3
<1>10. \A j \in DOMAIN L : CallPlace(1) <= Where(sender, L[j].what)
  BY <1>0, <1>8, NothingShownYet, PlacesAreNat
<1> QED
  BY <1>0, <1>1, <1>2, <1>5, <1>7, <1>8, <1>9, <1>10, ExpandingKeeps

LEMMA RisingWider ==
  ASSUME NEW L, Calling(L), NEW low \in Nat, NEW middle \in Nat, NEW high \in Nat,
         Rising(L, low, middle), middle <= high
  PROVE  Rising(L, low, high)
<1>1. ASSUME NEW j \in DOMAIN L PROVE Where(sender, L[j].what) <= high
  <2>1. PICK x \in Nat : x = Where(sender, L[j].what)
    BY PlacesAreNat
  <2>2. x <= middle
    BY <2>1 DEF Rising
  <2>3. x <= high
    BY <2>2
  <2> QED
    BY <2>1, <2>3
<1> QED
  BY <1>1 DEF Rising

LEMMA PlainJoined ==
  ASSUME NEW A, NEW B, Calling(A), Calling(B), Textless(A), Textless(B)
  PROVE  Textless(A \o B)
<1>1. PICK m \in Nat, n \in Nat : m = Len(A) /\ n = Len(B) /\ DOMAIN A = 1..m /\ DOMAIN B = 1..n
  BY LenProperties DEF Calling
<1>2. PICK C : C = A \o B /\ Joint(A, B, C)
  BY JoinedLists
<1>3. /\ DOMAIN C = 1..(m + n) /\ \A i \in 1..m : C[i] = A[i]
      /\ \A i \in 1..n : C[m + i] = B[i]
      /\ \A i \in 1..(m + n) : i \in 1..m \/ \E k \in 1..n : i = m + k
  BY <1>1, <1>2 DEF Joint
<1>4. ASSUME NEW j \in 1..(m + n) PROVE C[j].how \notin {"send", "texts"}
  <2>1. CASE j \in 1..m
    <3>1. C[j] = A[j] /\ A[j].how \notin {"send", "texts"}
      BY <1>1, <1>3, <2>1 DEF Textless
    <3> QED
      BY <3>1
  <2>2. CASE j \notin 1..m
    <3>1. PICK k \in 1..n : j = m + k
      BY <1>3, <2>2
    <3>2. C[j] = B[k] /\ B[k].how \notin {"send", "texts"}
      BY <1>1, <1>3, <3>1 DEF Textless
    <3> QED
      BY <3>2
  <2> QED
    BY <2>1, <2>2
<1> QED
  BY <1>2, <1>3, <1>4 DEF Textless

\* The reply is done with at once.
LEMMA EndsAtOnce ==
  ASSUME OrderInv, todo # <<>>, Step.how = "send", UNCHANGED <<sender, parcel, unsure, undelivered, named>>,
         todo' = <<>>, shown' \in {shown, Append(shown, Text(1))}
  PROVE  OrderInv'
<1>0. OutTypes /\ shown = <<>> /\ unsure = {}
  BY NothingShownYet DEF OrderInv
<1>1. todo' \in Seq(OutCall) /\ DOMAIN todo' = {} /\ 1..0 = {}
  BY EmptySeq
<1>2. /\ shown' \in Seq(OutKinds \X Nat) /\ (\A s \in DOMAIN shown' : shown'[s][1] \in {"file", "text", "notice"})
      /\ \A s, t \in DOMAIN shown' : ~(s < t)
  <2>1. CASE shown' = shown
    BY <1>0, <2>1, EmptySeq
  <2>2. CASE shown' = Append(shown, Text(1))
    <3>1. Text(1) \in OutKinds \X Nat /\ Text(1)[1] = "text"
      BY DEF Text, OutKinds
    <3>2. shown \in Seq(OutKinds \X Nat) /\ Len(shown) = 0
      BY <1>0, EmptySeq DEF OutTypes
    <3>3. shown' \in Seq(OutKinds \X Nat) /\ Len(shown') = 0 + 1 /\ shown'[0 + 1] = Text(1)
      BY <2>2, <3>1, <3>2, AppendProperties
    <3>4. DOMAIN shown' = 1..1
      BY <3>3, LenProperties
    <3> QED
      BY <3>1, <3>3, <3>4
  <2> QED
    BY <2>1, <2>2
<1>3. OutTypes'
  BY <1>0, <1>1, <1>2 DEF OutTypes
<1> QED
  BY <1>1, <1>2, <1>3 DEF OrderInv, Starting, InLine, ShownFirst, ShownInOrder

LEMMA DiscordTextsExpand ==
  ASSUME OrderInv, DiscordTexts
  PROVE  /\ OrderInv'
         /\ todo' = IF parcel.texts = 0 THEN Call("chunk", <<"empty", 0>>) ELSE EachText("chunk")
<1>0. OutTypes /\ todo # <<>> /\ Step.how = "texts" /\ Quiet /\ sender = "discord"
  BY DEF DiscordTexts, Calls, OrderInv
<1>1. PICK L : L = IF parcel.texts = 0 THEN Call("chunk", <<"empty", 0>>) ELSE EachText("chunk")
  OBVIOUS
<1>2. Turn(L)
  BY <1>1 DEF DiscordTexts
<1>3. "chunk" \in PartHows /\ Base("text") = Half /\ "chunk" \in Hows /\ <<"empty", 0>> \in OutKinds \X Nat
      /\ "chunk" \notin FileHows
  BY <1>0 DEF PartHows, Hows, Base, Single, OutKinds, FileHows
<1>4. MaxFiles \in Nat /\ Half \in Nat /\ MaxFiles < Half /\ parcel.texts \in Nat
  BY <1>0, HalfIsNat DEF OutTypes, Parcel
<1>5. CallPlace(1) = Half
  <2>1. Step.what[1] = "texts"
    BY <1>0, FirstCall DEF Meant
  <2> QED
    BY <2>1 DEF CallPlace, Where, Step
<1>6. CASE L = Call("chunk", <<"empty", 0>>) /\ parcel.texts = 0
  <2>1. FirstTry("chunk", <<"empty", 0>>).how = "chunk" /\ FirstTry("chunk", <<"empty", 0>>).what = <<"empty", 0>>
    BY DEF FirstTry
  <2>2. Meant(FirstTry("chunk", <<"empty", 0>>))
    BY <1>6, <2>1 DEF Meant, FileHows
  <2>3. Where(sender, <<"empty", 0>>) = Half
    BY <1>0, <1>4 DEF Where, InTexts, Single
  <2>4. Calling(L) /\ Len(L) = 1 /\ Rising(L, MaxFiles, Half) /\ L[1].how = "chunk" /\ L[1].what = <<"empty", 0>>
    BY <1>3, <1>4, <1>6, <2>2, <2>3, OneInLine
  <2>5. DOMAIN L = 1..1
    BY <2>4, LenProperties DEF Calling
  <2>6. \A j \in DOMAIN L : CallPlace(1) <= Where(sender, L[j].what)
    BY <1>4, <1>5, <2>3, <2>4, <2>5
  <2>7. \A j \in DOMAIN L : L[j].how # "send" /\ (L[j].how = "texts" => j = Len(L))
    BY <2>4, <2>5
  <2> QED
    BY <1>0, <1>1, <1>2, <1>4, <2>4, <2>6, <2>7, ExpandingKeeps
<1>7. CASE L = EachText("chunk")
  <2>1. Calling(L) /\ Textless(L) /\ Rising(L, Half, Half + parcel.texts)
    BY <1>0, <1>3, <1>7, TextsInLine
  <2>2. ASSUME NEW j \in DOMAIN L PROVE CallPlace(1) <= Where(sender, L[j].what)
    <3>1. PICK x \in Nat : x = Where(sender, L[j].what)
      BY <2>1, PlacesAreNat
    <3>2. Half < x
      BY <2>1, <3>1 DEF Rising
    <3> QED
      BY <1>4, <1>5, <3>1, <3>2
  <2>3. \A j \in DOMAIN L : L[j].how # "send" /\ (L[j].how = "texts" => j = Len(L))
    BY <2>1 DEF Textless
  <2>4. Half + parcel.texts \in Nat
    BY <1>4
  <2> QED
    BY <1>0, <1>1, <1>2, <1>4, <2>1, <2>2, <2>3, <2>4, ExpandingKeeps
<1> QED
  BY <1>1, <1>6, <1>7

LEMMA FeishuExpands ==
  ASSUME OrderInv, FeishuSend
  PROVE  OrderInv'
<1>0. OutTypes /\ todo # <<>> /\ Step.how = "send" /\ Quiet /\ sender = "feishu"
  BY DEF FeishuSend, Calls, OrderInv
<1>1. PICK A, B, L : A = AllBy("upload") /\ B = EachText("do_send") /\ L = A \o B
  OBVIOUS
<1>2. Turn(L)
  BY <1>1 DEF FeishuSend
<1>3. /\ "upload" \in PartHows /\ "do_send" \in PartHows /\ "do_send" \notin FileHows
      /\ Base("file") = 0 /\ Base("text") = Half
  BY <1>0 DEF PartHows, Hows, Base, Single, FileHows
<1>4. MaxFiles \in Nat /\ Half \in Nat /\ MaxFiles < Half /\ parcel.texts \in Nat
  BY <1>0, HalfIsNat DEF OutTypes, Parcel
<1>5. Calling(A) /\ Textless(A) /\ Rising(A, 0, Half)
  <2>1. Calling(A) /\ Textless(A) /\ Rising(A, 0, 0 + MaxFiles)
    BY <1>0, <1>1, <1>3, AllFilesInLine
  <2>2. 0 + MaxFiles = MaxFiles /\ MaxFiles <= Half
    BY <1>4
  <2> QED
    BY <1>4, <2>1, <2>2, RisingWider
<1>6. Calling(B) /\ Textless(B) /\ Rising(B, Half, Half + parcel.texts)
  BY <1>0, <1>1, <1>3, TextsInLine
<1>7. Rising(L, 0, Half + parcel.texts) /\ Half + parcel.texts \in Nat
  <2>1. 0 <= Half /\ Half <= Half + parcel.texts /\ Half + parcel.texts \in Nat
    BY <1>4
  <2> QED
    BY <1>1, <1>4, <1>5, <1>6, <2>1, RisingJoined
<1>8. Calling(L) /\ Joint(A, B, L)
  BY <1>1, <1>5, <1>6, JoinedLists
<1>9. Textless(L)
  BY <1>1, <1>5, <1>6, PlainJoined
<1>10. \A j \in DOMAIN L : CallPlace(1) <= Where(sender, L[j].what)
  BY <1>0, <1>8, NothingShownYet, PlacesAreNat
<1> QED
  BY <1>0, <1>2, <1>7, <1>8, <1>9, <1>10, ExpandingKeeps DEF Textless

LEMMA DingTalkExpands ==
  ASSUME OrderInv, DingTalkSend
  PROVE  OrderInv'
<1>0. OutTypes /\ todo # <<>> /\ Step.how = "send" /\ Quiet /\ sender = "dingtalk"
  BY DEF DingTalkSend, Calls, OrderInv
<1>1. PICK f : f = [i \in DOMAIN parcel.files |-> IF parcel.files[i] = "link" THEN "url" ELSE "read"]
  OBVIOUS
<1>2. PICK A, B, L : A = EachText("markdown") /\ B = EachFile(f) /\ L = A \o B
  OBVIOUS
<1>3. \/ Turn(L)
      \/ refused' = {<<"reply", 0>>} /\ todo' = <<>> /\ UNCHANGED <<undelivered, named>>
  BY <1>1, <1>2 DEF DingTalkSend
<1>4. CASE Turn(L)
  <2>1. f \in [1..Len(parcel.files) -> PartHows]
    <3>1. DOMAIN parcel.files = 1..Len(parcel.files)
      BY <1>0, LenProperties DEF OutTypes, Parcel
    <3> QED
      BY <1>1, <3>1 DEF PartHows, Hows
  <2>2. /\ "markdown" \in PartHows /\ "markdown" \notin FileHows
        /\ Base("file") = Half /\ Base("text") = 0
    BY <1>0 DEF PartHows, Hows, Base, Single, FileHows
  <2>3. MaxFiles \in Nat /\ Half \in Nat /\ 1 <= Half /\ parcel.texts \in Nat /\ parcel.texts <= 1
    BY <1>0, HalfIsNat DEF OutTypes, Parcel, Single
  <2>4. Calling(A) /\ Textless(A) /\ Rising(A, 0, Half)
    <3>1. Calling(A) /\ Textless(A) /\ Rising(A, 0, 0 + parcel.texts)
      BY <1>0, <1>2, <2>2, TextsInLine
    <3>2. 0 + parcel.texts = parcel.texts /\ parcel.texts <= Half
      BY <2>3
    <3> QED
      BY <2>3, <3>1, <3>2, RisingWider
  <2>5. Calling(B) /\ Textless(B) /\ Rising(B, Half, Half + MaxFiles)
    BY <1>0, <1>2, <2>1, <2>2, FilesInLine
  <2>6. Rising(L, 0, Half + MaxFiles) /\ Half + MaxFiles \in Nat
    <3>1. 0 <= Half /\ Half <= Half + MaxFiles /\ Half + MaxFiles \in Nat
      BY <2>3
    <3> QED
      BY <1>2, <2>3, <2>4, <2>5, <3>1, RisingJoined
  <2>7. Calling(L)
    BY <1>2, <2>4, <2>5, JoinedLists
  <2>8. Textless(L)
    BY <1>2, <2>4, <2>5, PlainJoined
  <2>9. \A j \in DOMAIN L : CallPlace(1) <= Where(sender, L[j].what)
    BY <1>0, <2>7, NothingShownYet, PlacesAreNat
  <2> QED
    BY <1>0, <1>4, <2>6, <2>7, <2>8, <2>9, ExpandingKeeps DEF Textless
<1>5. CASE refused' = {<<"reply", 0>>} /\ todo' = <<>> /\ UNCHANGED <<undelivered, named>>
  BY <1>0, <1>5, EndsAtOnce DEF Quiet, SameParcel
<1> QED
  BY <1>3, <1>4, <1>5

LEMMA MatrixExpands ==
  ASSUME OrderInv, MatrixSend
  PROVE  OrderInv' /\ todo' = AllBy("upload") \o Call("text", Text(1))
<1>0. OutTypes /\ todo # <<>> /\ Step.how = "send" /\ Quiet /\ sender = "matrix"
  BY DEF MatrixSend, Calls, OrderInv
<1>1. PICK A, B, L : A = AllBy("upload") /\ B = Call("text", Text(1)) /\ L = A \o B
  OBVIOUS
<1>2. Turn(L)
  BY <1>1 DEF MatrixSend
<1>3. "upload" \in PartHows /\ Base("file") = 0 /\ "text" \in Hows /\ Text(1) \in OutKinds \X Nat
  BY <1>0 DEF PartHows, Hows, Base, Single, OutKinds, Text
<1>4. MaxFiles \in Nat /\ Half \in Nat /\ MaxFiles < Half
  BY HalfIsNat
<1>5. Calling(A) /\ Textless(A) /\ Rising(A, 0, Half)
  <2>1. Calling(A) /\ Textless(A) /\ Rising(A, 0, 0 + MaxFiles)
    BY <1>0, <1>1, <1>3, AllFilesInLine
  <2>2. 0 + MaxFiles = MaxFiles /\ MaxFiles <= Half
    BY <1>4
  <2> QED
    BY <1>4, <2>1, <2>2, RisingWider
<1>6. Calling(B) /\ Textless(B) /\ Rising(B, Half, 1 + Half) /\ 1 + Half \in Nat
  <2>1. /\ FirstTry("text", Text(1)).how = "text" /\ FirstTry("text", Text(1)).what = Text(1)
        /\ Text(1)[1] = "text" /\ Text(1)[2] = 1
    BY DEF FirstTry, Text
  <2>2. Meant(FirstTry("text", Text(1)))
    BY <2>1 DEF Meant, FileHows
  <2>3. Where(sender, Text(1)) = 1 + Half
    BY <1>0, <2>1 DEF Where, InTexts, Single
  <2>4. Half < 1 + Half /\ 1 + Half <= 1 + Half /\ 1 + Half \in Nat
    BY <1>4
  <2>5. Calling(B) /\ Len(B) = 1 /\ Rising(B, Half, 1 + Half) /\ B[1].how = "text"
    BY <1>1, <1>3, <1>4, <2>2, <2>3, <2>4, OneInLine
  <2>6. DOMAIN B = 1..1
    BY <2>5, LenProperties DEF Calling
  <2> QED
    BY <2>4, <2>5, <2>6 DEF Textless
<1>7. Rising(L, 0, 1 + Half)
  <2>1. 0 <= Half /\ Half <= 1 + Half
    BY <1>4
  <2> QED
    BY <1>1, <1>4, <1>5, <1>6, <2>1, RisingJoined
<1>8. Calling(L) /\ Textless(L)
  BY <1>1, <1>5, <1>6, JoinedLists, PlainJoined
<1>9. \A j \in DOMAIN L : CallPlace(1) <= Where(sender, L[j].what)
  BY <1>0, <1>8, NothingShownYet, PlacesAreNat
<1> QED
  BY <1>0, <1>1, <1>2, <1>6, <1>7, <1>8, <1>9, ExpandingKeeps DEF Textless

LEMMA SlackExpands ==
  ASSUME OrderInv, SlackSend
  PROVE  OrderInv'
<1>0. OutTypes /\ todo # <<>> /\ Step.how = "send" /\ Quiet /\ sender = "slack"
  BY DEF SlackSend, Calls, OrderInv
<1>1. PICK X, A, B, L : /\ X = IF parcel.texts > 0 \/ parcel.files = <<>> THEN Call("message", Text(1)) ELSE <<>>
                        /\ A = AllBy("upload") /\ B = Call("reaction", <<"reaction", 0>>)
                        /\ L = (X \o A) \o B
  OBVIOUS
<1>2. Turn(L)
  BY <1>1 DEF SlackSend
<1>3. /\ "upload" \in PartHows /\ Base("file") = Half /\ "message" \in Hows /\ "reaction" \in Hows
      /\ Text(1) \in OutKinds \X Nat /\ <<"reaction", 0>> \in OutKinds \X Nat
  BY <1>0 DEF PartHows, Hows, Base, Single, OutKinds, Text
<1>4. /\ MaxFiles \in Nat /\ Half \in Nat /\ MaxFiles < Half /\ 1 <= Half
      /\ Half + MaxFiles \in Nat /\ Half + Half + 1 \in Nat /\ Half + MaxFiles < Half + Half + 1
  BY HalfIsNat
<1>5. Calling(A) /\ Textless(A) /\ Rising(A, Half, Half + MaxFiles)
  BY <1>0, <1>1, <1>3, AllFilesInLine
<1>6. Calling(B) /\ Textless(B) /\ Rising(B, Half + MaxFiles, Half + Half + 1)
  <2>1. FirstTry("reaction", <<"reaction", 0>>).how = "reaction" /\ FirstTry("reaction", <<"reaction", 0>>).what = <<"reaction", 0>>
    BY DEF FirstTry
  <2>2. Meant(FirstTry("reaction", <<"reaction", 0>>))
    BY <2>1 DEF Meant, FileHows
  <2>3. Where(sender, <<"reaction", 0>>) = Half + Half + 1
    BY DEF Where
  <2>4. Half + Half + 1 <= Half + Half + 1
    BY <1>4
  <2>5. Calling(B) /\ Len(B) = 1 /\ Rising(B, Half + MaxFiles, Half + Half + 1) /\ B[1].how = "reaction"
    BY <1>1, <1>3, <1>4, <2>2, <2>3, <2>4, OneInLine
  <2>6. DOMAIN B = 1..1
    BY <2>5, LenProperties DEF Calling
  <2> QED
    BY <2>5, <2>6 DEF Textless
<1>7. Calling(X) /\ Textless(X) /\ Rising(X, 0, Half)
  <2>1. CASE X = <<>>
    <3>1. X \in Seq(OutCall) /\ DOMAIN X = {}
      BY <2>1, EmptySeq
    <3> QED
      BY <3>1 DEF Calling, Textless, Rising
  <2>2. CASE X = Call("message", Text(1))
    <3>1. /\ FirstTry("message", Text(1)).how = "message" /\ FirstTry("message", Text(1)).what = Text(1)
          /\ Text(1)[1] = "text" /\ Text(1)[2] = 1
      BY DEF FirstTry, Text
    <3>2. Meant(FirstTry("message", Text(1)))
      BY <3>1 DEF Meant, FileHows
    <3>3. Where(sender, Text(1)) = 1 /\ 0 < 1
      BY <1>0, <3>1 DEF Where, InTexts, Single
    <3>4. Calling(X) /\ Len(X) = 1 /\ Rising(X, 0, Half) /\ X[1].how = "message"
      BY <1>3, <1>4, <2>2, <3>2, <3>3, OneInLine
    <3>5. DOMAIN X = 1..1
      BY <3>4, LenProperties DEF Calling
    <3> QED
      BY <3>4, <3>5 DEF Textless
  <2> QED
    BY <1>1, <2>1, <2>2
<1>8. PICK Y : Y = X \o A /\ Calling(Y) /\ Textless(Y) /\ Rising(Y, 0, Half + MaxFiles)
  <2>1. 0 <= Half /\ Half <= Half + MaxFiles
    BY <1>4
  <2>2. Rising(X \o A, 0, Half + MaxFiles)
    BY <1>4, <1>5, <1>7, <2>1, RisingJoined
  <2> QED
    BY <1>5, <1>7, <2>2, JoinedLists, PlainJoined
<1>9. Calling(L) /\ Textless(L) /\ Rising(L, 0, Half + Half + 1)
  <2>1. 0 <= Half + MaxFiles /\ Half + MaxFiles <= Half + Half + 1
    BY <1>4
  <2>2. Rising(L, 0, Half + Half + 1)
    BY <1>1, <1>4, <1>6, <1>8, <2>1, RisingJoined
  <2> QED
    BY <1>1, <1>6, <1>8, <2>2, JoinedLists, PlainJoined
<1>10. \A j \in DOMAIN L : CallPlace(1) <= Where(sender, L[j].what)
  BY <1>0, <1>9, NothingShownYet, PlacesAreNat
<1> QED
  BY <1>0, <1>2, <1>4, <1>9, <1>10, ExpandingKeeps DEF Textless

\* The adapters that send one message.
LEMMA OneMessageKeeps ==
  ASSUME OrderInv, NEW who, OneMessage(who)
  PROVE  OrderInv' /\ sender' = sender
<1>0. OutTypes /\ todo # <<>> /\ Step.how = "send" /\ UNCHANGED <<sender, parcel>>
  BY DEF OneMessage, Calls, OrderInv, SameParcel
<1>1. shown = <<>>
  BY <1>0, NothingShownYet
<1>2. Rest = <<>>
  BY <1>0, OneIsLeft DEF OrderInv
<1>3. todo' = <<>> /\ UNCHANGED <<unsure, undelivered, named>> /\ shown' \in {shown, Append(shown, Text(1))}
  BY <1>2 DEF OneMessage, Next1
<1> QED
  BY <1>0, <1>1, <1>3, EndsAtOnce

LEMMA OrderStep == ASSUME OrderInv, [OutboxNext]_outboxVars PROVE OrderInv'
<1>0. OutTypes
  BY DEF OrderInv
<1>1. CASE DiscordSend \/ DiscordFile \/ DiscordTexts \/ DiscordChunk
  BY <1>0, <1>1, DiscordExpands, DiscordTextsExpand, DiscordWorks, WorkKeeps
<1>2. CASE \/ DingTalkSend \/ DingTalkText \/ DingTalkUrl \/ DingTalkRead \/ DingTalkUpload
           \/ DingTalkImage \/ DingTalkFile \/ DingTalkNotice
  BY <1>0, <1>2, DingTalkExpands, DingTalkWorks, WorkKeeps
<1>3. CASE FeishuSend \/ FeishuUpload \/ FeishuDoSend \/ FeishuReply \/ FeishuCreate
  BY <1>0, <1>3, FeishuExpands, FeishuWorks, WorkKeeps
<1>4. CASE MatrixSend \/ MatrixFile \/ MatrixText
  BY <1>0, <1>4, MatrixExpands, MatrixWorks, WorkKeeps
<1>5. CASE SlackSend \/ SlackText \/ SlackFile \/ SlackReaction
  BY <1>0, <1>5, SlackExpands, SlackWorks, WorkKeeps
<1>6. CASE WecomSend \/ QQSend \/ WhatsAppSend
  BY <1>6, OneMessageKeeps DEF WecomSend, QQSend, WhatsAppSend
<1>7. CASE UNCHANGED outboxVars
  <2>1. UNCHANGED <<sender, parcel, todo, shown, unsure, undelivered, named, refused>>
    BY <1>7 DEF outboxVars
  <2>2. \A c : Meant(c)' <=> Meant(c)
    BY <2>1 DEF Meant
  <2> QED
    BY <2>1 DEF OrderInv, OutTypes, Starting, InLine, ShownFirst, ShownInOrder, CallPlace, Comes, Meant
<1> QED
  BY <1>1, <1>2, <1>3, <1>4, <1>5, <1>6, <1>7 DEF OutboxNext

LEMMA ShortSequences ==
  ASSUME NEW S, NEW n \in Nat, NEW s \in SeqOf(S, n)
  PROVE  s \in Seq(S) /\ Len(s) <= n
<1>1. PICK m \in 0..n : s \in [1..m -> S]
  BY DEF SeqOf
<1>2. m \in Nat /\ s \in Seq(S) /\ Len(s) = m
  BY <1>1, IsASeq, LenProperties
<1> QED
  BY <1>2

LEMMA OrderStart == ASSUME OutboxInit PROVE OrderInv /\ todo # <<>> /\ Last(todo).how = "send" /\ Step.how = "send"
                                            /\ parcel.content \in Seq(LineKinds)
<1>0. PICK content \in (IF sender = "feishu" THEN Contents ELSE {<<>>}) :
        \E files \in SeqOf(FileKinds, IF sender \in TextOnly \/ content # <<>> THEN 0 ELSE MaxFiles),
           texts \in (IF content # <<>> THEN {Len(CardsOf(content))}
                      ELSE 0..(IF sender \in Split THEN MaxTexts ELSE 1)),
           quotes \in (IF sender = "feishu" THEN BOOLEAN ELSE {FALSE}) :
          parcel = [files |-> files, texts |-> texts, quotes |-> quotes, content |-> content]
  BY DEF OutboxInit
<1>1. PICK files \in SeqOf(FileKinds, IF sender \in TextOnly \/ content # <<>> THEN 0 ELSE MaxFiles),
           texts \in (IF content # <<>> THEN {Len(CardsOf(content))}
                      ELSE 0..(IF sender \in Split THEN MaxTexts ELSE 1)),
           quotes \in (IF sender = "feishu" THEN BOOLEAN ELSE {FALSE}) :
        parcel = [files |-> files, texts |-> texts, quotes |-> quotes, content |-> content]
  BY <1>0
<1>2. content \in Seq(LineKinds) /\ MaxFiles \in Nat /\ MaxTexts \in Nat /\ SendTries \in Nat \ {0}
  BY <1>0, OutboxAssumption, EmptySeq
<1>3. files \in Seq(FileKinds) /\ Len(files) <= MaxFiles
  <2>1. PICK n \in Nat : files \in SeqOf(FileKinds, n) /\ n <= MaxFiles
    BY <1>1, <1>2
  <2>2. files \in Seq(FileKinds) /\ Len(files) <= n /\ Len(files) \in Nat
    BY <2>1, ShortSequences, LenProperties
  <2> QED
    BY <1>2, <2>1, <2>2
<1>4. texts \in Nat /\ (sender \in Single => texts <= 1)
  <2>1. CASE content # <<>>
    <3>1. Len(CardsOf(content)) \in Nat
      BY <1>2, CardsAreCounted
    <3>2. sender \notin Single
      BY <1>0, <2>1 DEF Single
    <3> QED
      BY <1>1, <2>1, <3>1, <3>2
  <2>2. CASE content = <<>>
    <3>1. PICK n \in Nat : texts \in 0..n /\ (sender \notin Split => n = 1)
      BY <1>1, <1>2, <2>2
    <3>2. sender \in Single => sender \notin Split
      BY DEF Single, Split
    <3> QED
      BY <3>1, <3>2
  <2> QED
    BY <2>1, <2>2
<1>5. parcel \in Parcel /\ Len(parcel.files) <= MaxFiles /\ (sender \in Single => parcel.texts <= 1)
      /\ parcel.content = content
  BY <1>1, <1>2, <1>3, <1>4 DEF Parcel
<1>6. PICK what \in OutKinds \X Nat : what = <<"reply", 0>> /\ what[1] = "reply" /\ what[2] = 0
  <2>1. <<"reply", 0>> \in OutKinds \X Nat /\ <<"reply", 0>>[1] = "reply" /\ <<"reply", 0>>[2] = 0
    BY DEF OutKinds
  <2> QED
    BY <2>1
<1>7. PICK c \in OutCall : c = FirstTry("send", what) /\ c.how = "send" /\ c.what = what
  <2>1. 1 \in 1..SendTries /\ "send" \in Hows
    BY <1>2 DEF Hows
  <2>2. FirstTry("send", what) \in OutCall /\ FirstTry("send", what).how = "send" /\ FirstTry("send", what).what = what
    BY <2>1 DEF FirstTry, OutCall
  <2> QED
    BY <2>2
<1>8. todo = <<c>>
  BY <1>6, <1>7 DEF OutboxInit, Call
<1>9. todo \in Seq(OutCall) /\ Len(todo) = 1 /\ DOMAIN todo = 1..1 /\ todo[1] = c /\ todo # <<>>
  BY <1>8
<1>10. Meant(c)
  BY <1>6, <1>7 DEF Meant, FileHows
<1>11. shown = <<>> /\ unsure = {} /\ undelivered = {} /\ named = {} /\ refused = {} /\ sender \in Senders
  BY DEF OutboxInit
<1>12. shown \in Seq(OutKinds \X Nat) /\ DOMAIN shown = {}
  BY <1>11, EmptySeq
<1>13. OutTypes
  BY <1>5, <1>9, <1>10, <1>11, <1>12 DEF OutTypes
<1>14. Starting /\ InLine /\ ShownFirst /\ ShownInOrder
  BY <1>9, <1>11, <1>12 DEF Starting, InLine, ShownFirst, ShownInOrder
<1> QED
  BY <1>2, <1>5, <1>7, <1>9, <1>13, <1>14 DEF OrderInv, Step, Last

\* Who sends never changes.
LEMMA SameSender == ASSUME OrderInv, OutboxNext PROVE sender' = sender
<1>1. OutTypes
  BY DEF OrderInv
<1>2. ASSUME Quiet PROVE sender' = sender
  BY <1>2 DEF Quiet, SameParcel
<1>3. ASSUME WorkOn PROVE sender' = sender
  BY <1>3 DEF WorkOn
<1>4. CASE DiscordSend \/ DiscordTexts \/ DingTalkSend \/ FeishuSend \/ MatrixSend \/ SlackSend
  BY <1>2, <1>4 DEF DiscordSend, DiscordTexts, DingTalkSend, FeishuSend, MatrixSend, SlackSend
<1>5. CASE DiscordFile \/ DiscordChunk
  BY <1>1, <1>3, <1>5, DiscordWorks
<1>6. CASE \/ DingTalkText \/ DingTalkUrl \/ DingTalkRead \/ DingTalkUpload
           \/ DingTalkImage \/ DingTalkFile \/ DingTalkNotice
  BY <1>1, <1>3, <1>6, DingTalkWorks
<1>7. CASE FeishuUpload \/ FeishuDoSend \/ FeishuReply \/ FeishuCreate
  BY <1>1, <1>3, <1>7, FeishuWorks
<1>8. CASE MatrixFile \/ MatrixText \/ SlackText \/ SlackFile \/ SlackReaction
  BY <1>1, <1>3, <1>8, MatrixWorks, SlackWorks
<1>9. CASE WecomSend \/ QQSend \/ WhatsAppSend
  BY <1>9, OneMessageKeeps DEF WecomSend, QQSend, WhatsAppSend
<1> QED
  BY <1>4, <1>5, <1>6, <1>7, <1>8, <1>9 DEF OutboxNext

\* What the list becomes when its first call is dealt with.
LEMMA ListShapes ==
  ASSUME OutTypes, todo # <<>>
  PROVE  /\ Len(todo) \in Nat \ {0} /\ DOMAIN todo = 1..Len(todo)
         /\ DOMAIN Rest = 1..(Len(todo) - 1) /\ \A j \in DOMAIN Rest : j + 1 \in DOMAIN todo /\ Rest[j] = todo[j + 1]
         /\ \A j \in DOMAIN todo : j # 1 => j - 1 \in DOMAIN Rest /\ Rest[j - 1] = todo[j]
         /\ Rest = <<>> \/ Last(Rest) = Last(todo)
         /\ Len(todo) = 1 => Last(todo) = Step /\ Rest = <<>>
         /\ Len(todo) # 1 => Rest # <<>>
<1>1. PICK n \in Nat \ {0} : n = Len(todo) /\ DOMAIN todo = 1..n /\ todo \in Seq(OutCall)
  BY FirstOfQueue DEF OutTypes
<1>2. /\ Rest \in Seq(OutCall) /\ Len(Rest) = n - 1 /\ DOMAIN Rest = 1..(n - 1)
      /\ \A j \in 1..(n - 1) : Rest[j] = todo[j + 1]
      /\ n # 1 => Rest # <<>> /\ Last(Rest) = Last(todo)
  BY <1>1, FirstOfQueue DEF Rest
<1>3. n = 1 => Rest = <<>>
  BY <1>2, EmptySeq
<1>4. \A j \in 1..(n - 1) : j + 1 \in 1..n
  OBVIOUS
<1>5. \A j \in 1..n : j # 1 => j - 1 \in 1..(n - 1) /\ (j - 1) + 1 = j
  OBVIOUS
<1>6. n = 1 => Last(todo) = Step
  BY <1>1 DEF Last, Step
<1> QED
  BY <1>1, <1>2, <1>3, <1>4, <1>5, <1>6

LEMMA TheRest ==
  ASSUME OutTypes, todo # <<>>
  PROVE  \E n \in Nat \ {0} : /\ n = Len(todo) /\ DOMAIN todo = 1..n /\ DOMAIN Rest = 1..(n - 1)
                              /\ \A j \in 1..(n - 1) : Rest[j] = todo[j + 1]
<1>1. PICK n \in Nat \ {0} : n = Len(todo) /\ DOMAIN todo = 1..n /\ todo \in Seq(OutCall)
  BY FirstOfQueue DEF OutTypes
<1>2. DOMAIN Rest = 1..(n - 1) /\ \A j \in 1..(n - 1) : Rest[j] = todo[j + 1]
  BY <1>1, FirstOfQueue DEF Rest
<1> QED
  BY <1>1, <1>2

\* The first call is replaced by another.
LEMMA TheOther ==
  ASSUME OutTypes, todo # <<>>, NEW c \in OutCall, todo' = <<c>> \o Rest
  PROVE  \E n \in Nat \ {0} : /\ n = Len(todo) /\ DOMAIN todo = 1..n /\ DOMAIN todo' = 1..n /\ todo'[1] = c
                              /\ \A j \in 2..n : todo'[j] = todo[j]
                              /\ todo' # <<>> /\ (n = 1 => Last(todo') = c) /\ (n # 1 => Last(todo') = Last(todo))
<1>1. PICK n \in Nat \ {0} : n = Len(todo) /\ DOMAIN todo = 1..n /\ todo \in Seq(OutCall)
  BY FirstOfQueue DEF OutTypes
<1>2. PICK q : q = todo'
  OBVIOUS
<1>3. /\ q \in Seq(OutCall) /\ Len(q) = n /\ q # <<>> /\ q[1] = c /\ \A j \in 2..n : q[j] = todo[j]
      /\ Last(q) = IF n = 1 THEN c ELSE Last(todo)
  BY <1>1, <1>2, HeadInstead DEF Rest
<1>4. DOMAIN q = 1..n
  BY <1>3, LenProperties
<1> QED
  BY <1>1, <1>2, <1>3, <1>4

\* A call that is repeated.
LEMMA AgainSays ==
  ASSUME OutTypes, todo # <<>>, Again
  PROVE  \E c : c.how = Step.how /\ c.what = Step.what /\ todo' = <<c>> \o Rest /\ (Step.tries < SendTries => c \in OutCall)
<1>1. PICK s \in OutCall, t \in 1..SendTries : s = Step /\ t = Step.tries
  BY FirstCall
<1>2. PICK c : c = [s EXCEPT !.tries = t + 1]
  OBVIOUS
<1>3. c.how = s.how /\ c.what = s.what /\ (t < SendTries => c \in OutCall)
  BY <1>2, OutboxAssumption DEF OutCall
<1>4. todo' = <<c>> \o Rest
  <2>1. [Step EXCEPT !.tries = @ + 1] = c
    BY <1>1, <1>2
  <2> QED
    BY <2>1 DEF Again, Instead
<1> QED
  BY <1>1, <1>3, <1>4

LEMMA ShownGrows ==
  ASSUME OutTypes, todo # <<>>, shown' = shown \/ shown' = Append(shown, Step.what)
  PROVE  /\ Range(shown) \subseteq Range(shown') /\ Range(shown') \subseteq Range(shown) \cup {Step.what}
         /\ shown' = Append(shown, Step.what) => Step.what \in Range(shown') /\ shown' # <<>>
<1>1. PICK w \in OutKinds \X Nat : w = Step.what /\ shown \in Seq(OutKinds \X Nat)
  BY FirstCall DEF OutTypes
<1>2. CASE shown' = shown
  <2>1. shown' # Append(shown, w)
    BY <1>1, <1>2, AppendProperties, LenProperties
  <2> QED
    BY <1>1, <1>2, <2>1
<1>3. CASE shown' = Append(shown, w)
  <2>1. PICK m \in Nat : m = Len(shown) /\ DOMAIN shown = 1..m /\ DOMAIN shown' = 1..(m + 1)
    BY <1>1, <1>3, AppendProperties, LenProperties
  <2>2. shown'[m + 1] = w /\ (\A s \in 1..m : shown'[s] = shown[s]) /\ shown' # <<>>
    BY <1>1, <1>3, <2>1, AppendProperties
  <2>3. \A s \in 1..(m + 1) : s \in 1..m \/ s = m + 1
    OBVIOUS
  <2>4. Range(shown') = Range(shown) \cup {w}
    BY <2>1, <2>2, <2>3 DEF Range
  <2> QED
    BY <1>1, <2>2, <2>4
<1> QED
  BY <1>1, <1>2, <1>3

\* Discord's calls: the first one is tried again, done with, or ends the list.
LEMMA DiscordCalls ==
  ASSUME OrderInv, DiscordFile \/ DiscordChunk
  PROVE  /\ sender = "discord" /\ sender' = sender /\ parcel' = parcel /\ todo # <<>>
         /\ shown' = shown \/ shown' = Append(shown, Step.what)
         /\ refused \subseteq refused' /\ undelivered \subseteq undelivered' /\ Step.how \in {"post", "chunk"}
         /\ \/ /\ todo' = Rest /\ refused' = refused
               /\ \/ shown' = Append(shown, Step.what) /\ undelivered' = undelivered
                  \/ Step.what[1] = "file" /\ Step.how = "post" /\ Step.what[2] \in undelivered'
            \/ todo' = <<>> /\ refused' # {} /\ Step.how = "chunk"
            \/ /\ \E c \in OutCall : c.how = Step.how /\ c.what = Step.what /\ todo' = <<c>> \o Rest
               /\ refused' = refused /\ undelivered' = undelivered
<1>0. OutTypes
  BY DEF OrderInv
<1>1. sender = "discord" /\ sender' = sender /\ parcel' = parcel /\ todo # <<>>
  BY DEF DiscordFile, DiscordChunk, Calls, SameParcel
<1>2. CASE DiscordFile
  <2>1. Step.how = "post" /\ Step.what[1] = "file"
    <3>1. Step.how = "post"
      BY <1>2 DEF DiscordFile, Calls
    <3> QED
      BY <1>0, <1>1, <3>1, FirstCall DEF Meant, FileHows
  <2>2. \/ Show(Next1, IF Step.tries < SendTries THEN Again ELSE todo' = Rest /\ GiveUpFile)
        \/ todo' = Rest /\ GiveUpFile /\ UNCHANGED <<shown, unsure>>
    BY <1>2 DEF DiscordFile
  <2>3. /\ shown' = shown \/ shown' = Append(shown, Step.what)
        /\ refused' = refused /\ undelivered \subseteq undelivered'
        /\ \/ todo' = Rest /\ shown' = Append(shown, Step.what) /\ undelivered' = undelivered
           \/ todo' = Rest /\ Step.what[2] \in undelivered'
           \/ Step.tries < SendTries /\ Again /\ undelivered' = undelivered
    BY <2>2 DEF Show, Next1, Again, GiveUpFile
  <2> QED
    BY <1>0, <1>1, <2>1, <2>3, AgainSays
<1>3. CASE DiscordChunk
  <2>1. /\ shown' = shown \/ shown' = Append(shown, Step.what)
        /\ refused \subseteq refused' /\ undelivered' = undelivered /\ Step.how = "chunk"
        /\ \/ todo' = Rest /\ shown' = Append(shown, Step.what) /\ refused' = refused
           \/ todo' = <<>> /\ refused' # {}
           \/ Step.tries < SendTries /\ Again /\ refused' = refused
    BY <1>3 DEF DiscordChunk, Calls, Show, Next1, Again, Refuse
  <2> QED
    BY <1>0, <1>1, <2>1, AgainSays
<1> QED
  BY <1>2, <1>3

\* A list of the files and one more call.
FileList(q, m, how, last, what) ==
  /\ DOMAIN parcel.files = 1..m /\ DOMAIN q = 1..(m + 1) /\ q # <<>>
  /\ \A i \in 1..m : q[i].how = how /\ q[i].what = File(i)
  /\ q[m + 1].how = last /\ q[m + 1].what = what
  /\ Last(q).how = last

LEMMA FilesThenOne ==
  ASSUME OutTypes, NEW how \in PartHows, NEW last \in Hows, NEW what \in OutKinds \X Nat,
         Meant(FirstTry(last, what)), NEW q, q = AllBy(how) \o Call(last, what)
  PROVE  \E m \in Nat : FileList(q, m, how, last, what)
<1>1. PICK A, B, c : A = AllBy(how) /\ B = <<c>> /\ c = FirstTry(last, what) /\ q = A \o B
  BY DEF Call
<1>2. c \in OutCall /\ c.how = last /\ c.what = what
  <2>1. 1 \in 1..SendTries
    BY OutboxAssumption
  <2> QED
    BY <1>1, <2>1 DEF FirstTry, OutCall
<1>3. Calling(A) /\ (\A j \in DOMAIN A : A[j].how = how /\ A[j].what = File(j)) /\ DOMAIN A = DOMAIN parcel.files
  BY <1>1, AllFilesInLine
<1>4. B \in Seq(OutCall) /\ Len(B) = 1 /\ B[1] = c /\ B # <<>> /\ DOMAIN B = 1..1
  BY <1>1, <1>2
<1>5. Calling(B)
  BY <1>1, <1>4 DEF Calling
<1>6. Joint(A, B, q) /\ q # <<>> /\ Last(q) = Last(B)
  BY <1>1, <1>3, <1>4, <1>5, JoinedLists
<1>7. PICK m \in Nat : m = Len(A) /\ DOMAIN A = 1..m
  BY <1>3, LenProperties DEF Calling
<1>8. DOMAIN q = 1..(m + 1) /\ q[m + 1] = c /\ \A i \in 1..m : q[i] = A[i]
  <2>1. 1 \in 1..1
    OBVIOUS
  <2> QED
    BY <1>4, <1>6, <1>7, <2>1 DEF Joint
<1>9. Last(q) = c
  BY <1>4, <1>6 DEF Last
<1>10. \A i \in 1..m : q[i].how = how /\ q[i].what = File(i)
  BY <1>3, <1>7, <1>8
<1>11. FileList(q, m, how, last, what)
  BY <1>2, <1>3, <1>6, <1>7, <1>8, <1>9, <1>10 DEF FileList
<1> QED
  BY <1>11

LEMMA DiscordList ==
  ASSUME OutTypes, NEW q, q = AllBy("post") \o Call("texts", <<"texts", 0>>)
  PROVE  \E m \in Nat : FileList(q, m, "post", "texts", <<"texts", 0>>)
<1>1. "post" \in PartHows /\ "texts" \in Hows
  BY DEF PartHows, Hows
<1>2. PICK what \in OutKinds \X Nat : what = <<"texts", 0>> /\ what[1] = "texts"
  <2>1. <<"texts", 0>> \in OutKinds \X Nat /\ <<"texts", 0>>[1] = "texts"
    BY DEF OutKinds
  <2> QED
    BY <2>1
<1>3. FirstTry("texts", what).how = "texts" /\ FirstTry("texts", what).what = what
  BY DEF FirstTry
<1>4. Meant(FirstTry("texts", what))
  BY <1>2, <1>3 DEF Meant, FileHows
<1> QED
  BY <1>1, <1>2, <1>4, FilesThenOne

\* Only Discord's actions are enabled for it.
LEMMA DiscordOnly ==
  ASSUME OutboxNext, sender = "discord" PROVE DiscordSend \/ DiscordFile \/ DiscordTexts \/ DiscordChunk
  BY DEF OutboxNext, DingTalkSend, DingTalkText, DingTalkUrl, DingTalkRead, DingTalkUpload,
              DingTalkImage, DingTalkFile, DingTalkNotice, FeishuSend, FeishuUpload, FeishuDoSend, FeishuReply,
              FeishuCreate, MatrixSend, MatrixFile, MatrixText, SlackSend, SlackText, SlackFile, SlackReaction,
              WecomSend, QQSend, WhatsAppSend, OneMessage, Calls

LEMMA TextsStep == ASSUME OrderInv, TextsFollow, OutboxNext PROVE TextsFollow'
<1>0. OutTypes /\ sender' = sender
  BY SameSender DEF OrderInv
<1>1. CASE sender # "discord"
  BY <1>0, <1>1 DEF TextsFollow
<1>2. ASSUME sender = "discord" PROVE DiscordSend \/ DiscordFile \/ DiscordTexts \/ DiscordChunk
  BY <1>2, DiscordOnly
<1>3. ASSUME NEW k, NEW l, Text(k) = Text(l) PROVE k = l
  BY <1>3 DEF Text
<1>4. CASE DiscordSend
  <2>1. todo' = AllBy("post") \o Call("texts", <<"texts", 0>>) /\ parcel' = parcel
    BY <1>4, DiscordExpands DEF DiscordSend, Quiet, SameParcel
  <2>2. shown' = <<>> /\ DOMAIN shown' = {}
    <3>1. shown = <<>>
      BY <1>4, NothingShownYet DEF DiscordSend, Calls
    <3> QED
      BY <1>4, <3>1, EmptySeq DEF DiscordSend, Quiet
  <2>3. \A j \in DOMAIN todo' : todo'[j].what[1] # "text"
    <3>1. PICK q : q = todo'
      OBVIOUS
    <3>a. q = AllBy("post") \o Call("texts", <<"texts", 0>>)
      BY <2>1, <3>1
    <3>b. PICK m \in Nat : FileList(q, m, "post", "texts", <<"texts", 0>>)
      BY <1>0, <3>a, DiscordList
    <3>2. DOMAIN q = 1..(m + 1) /\ q[m + 1].what = <<"texts", 0>> /\ \A i \in 1..m : q[i].what = File(i)
      BY <3>b DEF FileList
    <3>3. \A i \in 1..(m + 1) : i \in 1..m \/ i = m + 1
      OBVIOUS
    <3> QED
      BY <3>1, <3>2, <3>3 DEF File
  <2> QED
    BY <2>2, <2>3 DEF TextsFollow, Text, Range
<1>5. CASE DiscordTexts
  <2>1. UNCHANGED <<shown, parcel>>
    BY <1>5 DEF DiscordTexts, Quiet, SameParcel
  <2>2. sender = "discord"
    BY <1>5 DEF DiscordTexts, Calls
  <2>3. todo' = Call("chunk", <<"empty", 0>>) \/ todo' = EachText("chunk")
    BY <1>5, DiscordTextsExpand
  <2>4. CASE todo' = Call("chunk", <<"empty", 0>>)
    <3>1. DOMAIN todo' = 1..1 /\ todo'[1].what = <<"empty", 0>>
      BY <2>4 DEF Call, FirstTry
    <3>2. \A j \in DOMAIN todo' : todo'[j].what[1] # "text"
      BY <3>1
    <3> QED
      BY <2>1, <2>2, <3>2 DEF TextsFollow, Text
  <2>5. CASE todo' = EachText("chunk")
    <3>1. DOMAIN todo' = 1..parcel.texts /\ (\A j \in 1..parcel.texts : todo'[j].what = Text(j)) /\ parcel.texts \in Nat
      BY <1>0, <2>5 DEF EachText, FirstTry, OutTypes, Parcel
    <3>2. ASSUME NEW j \in DOMAIN todo', NEW k \in 2..parcel.texts, todo'[j].what = Text(k)
          PROVE  j # 1 /\ todo'[j - 1].what = Text(k - 1)
      <4>1. j = k /\ k - 1 \in 1..parcel.texts
        BY <1>3, <3>1, <3>2
      <4> QED
        BY <3>1, <4>1
    <3> QED
      BY <2>1, <2>2, <3>2 DEF TextsFollow
  <2> QED
    BY <2>3, <2>4, <2>5
<1>6. CASE DiscordFile \/ DiscordChunk
  <2>1. /\ sender = "discord" /\ parcel' = parcel /\ todo # <<>>
        /\ shown' = shown \/ shown' = Append(shown, Step.what)
        /\ \/ todo' = Rest /\ (shown' = Append(shown, Step.what) \/ Step.what[1] = "file")
           \/ todo' = <<>>
           \/ \E c \in OutCall : c.what = Step.what /\ todo' = <<c>> \o Rest
    BY <1>6, DiscordCalls
  <2>2. /\ Range(shown) \subseteq Range(shown') /\ Range(shown') \subseteq Range(shown) \cup {Step.what}
        /\ shown' = Append(shown, Step.what) => Step.what \in Range(shown')
    BY <1>0, <2>1, ShownGrows
  <2>3. 1 \in DOMAIN todo /\ Step = todo[1]
    BY <1>0, <2>1, FirstCall DEF Step
  <2>4. ASSUME NEW k \in 2..parcel.texts, Text(k) \in Range(shown') PROVE Text(k - 1) \in Range(shown')
    BY <2>1, <2>2, <2>3, <2>4 DEF TextsFollow
  <2>5. ASSUME NEW j \in DOMAIN todo', NEW k \in 2..parcel.texts, todo'[j].what = Text(k)
        PROVE  IF j = 1 THEN Text(k - 1) \in Range(shown') ELSE todo'[j - 1].what = Text(k - 1)
    <3>1. CASE todo' = <<>>
      BY <2>5, <3>1, EmptySeq
    <3>2. CASE todo' = Rest /\ (shown' = Append(shown, Step.what) \/ Step.what[1] = "file")
      <4>0. PICK n \in Nat \ {0} : DOMAIN todo = 1..n /\ DOMAIN Rest = 1..(n - 1) /\ \A i \in 1..(n - 1) : Rest[i] = todo[i + 1]
        BY <1>0, <2>1, TheRest
      <4>1. j \in 1..(n - 1) /\ todo'[j] = todo[j + 1]
        BY <2>5, <3>2, <4>0
      <4>a. j \in Nat /\ j + 1 \in 1..n /\ j + 1 # 1 /\ (j + 1) - 1 = j /\ (j # 1 => j - 1 \in 1..(n - 1) /\ (j - 1) + 1 = j)
        BY <4>1
      <4>b. PICK i \in 1..n : i = j + 1
        BY <4>a
      <4>c. todo[i].what = Text(k) /\ i # 1 /\ i - 1 = j
        BY <2>5, <4>1, <4>a, <4>b
      <4>2. todo[j].what = Text(k - 1)
        BY <2>1, <4>0, <4>c DEF TextsFollow
      <4>3. CASE j = 1
        <5>1. Step.what = Text(k - 1) /\ Step.what[1] = "text"
          BY <2>3, <4>2, <4>3 DEF Text
        <5> QED
          BY <2>2, <3>2, <4>3, <5>1
      <4>4. CASE j # 1
        <5>1. Rest[j - 1] = todo[j]
          BY <4>0, <4>a, <4>4
        <5> QED
          BY <3>2, <4>2, <4>4, <5>1
      <4> QED
        BY <4>3, <4>4
    <3>3. ASSUME NEW c \in OutCall, c.what = Step.what, todo' = <<c>> \o Rest
          PROVE  IF j = 1 THEN Text(k - 1) \in Range(shown') ELSE todo'[j - 1].what = Text(k - 1)
      <4>0. PICK n \in Nat \ {0} : /\ DOMAIN todo = 1..n /\ DOMAIN todo' = 1..n /\ todo'[1] = c
                                   /\ \A i \in 2..n : todo'[i] = todo[i]
        BY <1>0, <2>1, <3>3, TheOther
      <4>a. \A i \in 1..n : i = 1 \/ i \in 2..n
        OBVIOUS
      <4>1. \A i \in 1..n : todo'[i].what = todo[i].what
        BY <2>3, <3>3, <4>0, <4>a
      <4>2. j \in 1..n /\ (j # 1 => j - 1 \in 1..n)
        BY <2>5, <4>0
      <4>3. IF j = 1 THEN Text(k - 1) \in Range(shown) ELSE todo[j - 1].what = Text(k - 1)
        <5>1. todo[j].what = Text(k)
          BY <2>5, <4>1, <4>2
        <5> QED
          BY <2>1, <4>0, <4>2, <5>1 DEF TextsFollow
      <4> QED
        BY <2>2, <4>1, <4>2, <4>3
    <3> QED
      BY <2>1, <3>1, <3>2, <3>3
  <2> QED
    BY <2>1, <2>4, <2>5 DEF TextsFollow
<1> QED
  BY <1>1, <1>2, <1>4, <1>5, <1>6

\* What a DingTalk call does to the list, to the files given up and to those that are named.
DingTalkCall ==
  \/ /\ todo' = Rest \/ \E c \in OutCall : todo' = <<c>> \o Rest
     /\ Step.how # "notice" /\ UNCHANGED <<undelivered, named, refused>>
  \/ /\ \E c \in OutCall : c.how = "notice" /\ c.what = <<"notice", Step.what[2]>> /\ todo' = <<c>> \o Rest
     /\ Step.how # "notice" /\ undelivered' = undelivered \cup {Step.what[2]} /\ UNCHANGED <<named, refused>>
  \/ /\ Step.how = "notice" /\ todo' = Rest
     /\ named' = named \cup {Step.what[2]} /\ UNCHANGED <<undelivered, refused>>
  \/ refused' # {}

LEMMA DingTalkCalls ==
  ASSUME OutTypes,
         \/ DingTalkText \/ DingTalkUrl \/ DingTalkRead \/ DingTalkUpload
         \/ DingTalkImage \/ DingTalkFile \/ DingTalkNotice
  PROVE  DingTalkCall /\ todo # <<>>
<1>1. todo # <<>>
  BY DEF DingTalkText, DingTalkUrl, DingTalkRead, DingTalkUpload, DingTalkImage, DingTalkFile, DingTalkNotice, Calls
<1>2. PICK w \in OutKinds \X Nat : w = Step.what
  BY <1>1, FirstCall
<1>3. 1 \in 1..SendTries
  BY OutboxAssumption
<1>4. ASSUME NEW how \in Hows PROVE \E c \in OutCall : Call(how, w) = <<c>>
  <2>1. FirstTry(how, w) \in OutCall
    BY <1>3 DEF FirstTry, OutCall
  <2> QED
    BY <2>1 DEF Call
<1>5. {"read", "upload", "file", "image"} \subseteq Hows
  BY DEF Hows
<1>6. ASSUME NEW how \in {"read", "upload", "file", "image"}, Turn(Call(how, Step.what))
      PROVE  (\E c \in OutCall : todo' = <<c>> \o Rest) /\ UNCHANGED <<undelivered, named, refused>>
  BY <1>2, <1>4, <1>5, <1>6 DEF Turn, Instead
<1>7. ASSUME NoticeInstead
      PROVE  /\ \E c \in OutCall : c.how = "notice" /\ c.what = <<"notice", Step.what[2]>> /\ todo' = <<c>> \o Rest
             /\ undelivered' = undelivered \cup {Step.what[2]} /\ UNCHANGED <<named, refused>>
  <2>1. PICK c : c = FirstTry("notice", <<"notice", Step.what[2]>>)
    OBVIOUS
  <2>2. <<"notice", Step.what[2]>> \in OutKinds \X Nat
    BY <1>1, FirstCall DEF OutKinds
  <2>3. c \in OutCall /\ c.how = "notice" /\ c.what = <<"notice", Step.what[2]>>
    BY <1>3, <2>1, <2>2 DEF FirstTry, OutCall, Hows
  <2> QED
    BY <1>7, <2>1, <2>3 DEF NoticeInstead, Instead, Call, GiveUpFile
<1>8. ASSUME Next1 PROVE todo' = Rest /\ UNCHANGED <<undelivered, named, refused>>
  BY <1>8 DEF Next1
<1>9. ASSUME Refuse PROVE refused' # {}
  BY <1>9 DEF Refuse
<1>10. CASE DingTalkText
  BY <1>8, <1>9, <1>10 DEF DingTalkText, Calls, Show, DingTalkCall
<1>11. CASE DingTalkUrl
  <2>1. Step.how = "url" /\ (Next1 \/ Turn(Call("read", Step.what)))
    BY <1>11 DEF DingTalkUrl, Calls, Show
  <2> QED
    BY <1>1, <1>6, <1>8, <2>1 DEF DingTalkCall
<1>12. CASE DingTalkRead
  <2>1. Step.how = "read" /\ (Turn(Call("upload", Step.what)) \/ NoticeInstead)
    BY <1>12 DEF DingTalkRead, Calls
  <2> QED
    BY <1>1, <1>6, <1>7, <2>1 DEF DingTalkCall
<1>13. CASE DingTalkUpload
  <2>1. /\ Step.how = "upload"
        /\ Turn(Call("file", Step.what)) \/ Turn(Call("image", Step.what)) \/ NoticeInstead
    BY <1>13 DEF DingTalkUpload, Calls
  <2> QED
    BY <1>1, <1>6, <1>7, <2>1 DEF DingTalkCall
<1>14. CASE DingTalkImage
  <2>1. Step.how = "image" /\ (Next1 \/ Turn(Call("file", Step.what)))
    BY <1>14 DEF DingTalkImage, Calls, Show
  <2> QED
    BY <1>1, <1>6, <1>8, <2>1 DEF DingTalkCall
<1>15. CASE DingTalkFile
  <2>1. Step.how = "file" /\ (Next1 \/ NoticeInstead)
    BY <1>15 DEF DingTalkFile, Calls, Show
  <2> QED
    BY <1>1, <1>7, <1>8, <2>1 DEF DingTalkCall
<1>16. CASE DingTalkNotice
  <2>1. /\ Step.how = "notice" /\ todo' = Rest
        /\ (named' = named \cup {Step.what[2]} /\ UNCHANGED <<undelivered, refused>>) \/ Refuse
    BY <1>16 DEF DingTalkNotice, Calls, Show
  <2> QED
    BY <1>1, <1>9, <2>1 DEF DingTalkCall
<1> QED
  BY <1>1, <1>10, <1>11, <1>12, <1>13, <1>14, <1>15, <1>16

\* DingTalk names each file that it gives up, or is about to.
LEMMA NamesStep == ASSUME OrderInv, DingTalkNames, OutboxNext PROVE DingTalkNames'
<1>0. OutTypes /\ sender' = sender
  BY SameSender DEF OrderInv
<1>1. CASE sender # "dingtalk"
  BY <1>0, <1>1 DEF DingTalkNames
<1>2. ASSUME sender = "dingtalk"
      PROVE  \/ DingTalkSend \/ DingTalkText \/ DingTalkUrl \/ DingTalkRead \/ DingTalkUpload
             \/ DingTalkImage \/ DingTalkFile \/ DingTalkNotice
  BY <1>2 DEF OutboxNext, DiscordSend, DiscordFile, DiscordTexts, DiscordChunk, FeishuSend, FeishuUpload, FeishuDoSend,
              FeishuReply, FeishuCreate, MatrixSend, MatrixFile, MatrixText, SlackSend, SlackText, SlackFile,
              SlackReaction, WecomSend, QQSend, WhatsAppSend, OneMessage, Calls
<1>3. CASE DingTalkSend
  <2>1. undelivered = {}
    BY <1>3, NothingShownYet DEF DingTalkSend, Calls
  <2>2. undelivered' = {} \/ refused' # {}
    BY <1>3, <2>1 DEF DingTalkSend, Turn
  <2> QED
    BY <2>2 DEF DingTalkNames
<1>4. CASE DingTalkCall /\ todo # <<>> /\ sender = "dingtalk"
  <2>1. PICK n \in Nat \ {0} : n = Len(todo) /\ DOMAIN todo = 1..n /\ DOMAIN Rest = 1..(n - 1) /\ \A i \in 1..(n - 1) : Rest[i] = todo[i + 1]
    BY <1>0, <1>4, TheRest
  <2>2. \A i \in 1..n : i = 1 \/ (i \in 2..n /\ \E k \in 1..(n - 1) : i = k + 1)
    <3>1. ASSUME NEW i \in 1..n, i # 1 PROVE i \in 2..n /\ \E k \in 1..(n - 1) : i = k + 1
      <4>1. i \in 2..n /\ i - 1 \in 1..(n - 1) /\ i = (i - 1) + 1
        BY <3>1
      <4> QED
        BY <4>1
    <3> QED
      BY <3>1
  <2>3. Step = todo[1]
    BY DEF Step
  <2>4. ASSUME refused' = {}, refused = {}, undelivered' \subseteq undelivered, named \subseteq named',
               NEW i \in undelivered', i \notin named',
               todo' = Rest \/ \E c \in OutCall : todo' = <<c>> \o Rest,
               ~(Step.how = "notice" /\ Step.what = <<"notice", i>>)
        PROVE  \E j \in DOMAIN todo' : todo'[j].how = "notice" /\ todo'[j].what = <<"notice", i>>
    <3>1. PICK j \in 1..n : todo[j].how = "notice" /\ todo[j].what = <<"notice", i>>
      BY <1>4, <2>1, <2>4 DEF DingTalkNames
    <3>2. j # 1
      BY <2>3, <2>4, <3>1
    <3>3. PICK k \in 1..(n - 1) : j = k + 1 /\ j \in 2..n
      BY <2>2, <3>2
    <3>4. CASE todo' = Rest
      BY <2>1, <3>1, <3>3, <3>4
    <3>5. ASSUME NEW c \in OutCall, todo' = <<c>> \o Rest
          PROVE  \E l \in DOMAIN todo' : todo'[l].how = "notice" /\ todo'[l].what = <<"notice", i>>
      <4>1. PICK m \in Nat : m = Len(todo) /\ DOMAIN todo' = 1..m /\ \A l \in 2..m : todo'[l] = todo[l]
        BY <1>0, <1>4, <3>5, TheOther
      <4>2. m = n
        BY <2>1, <4>1
      <4> QED
        BY <3>1, <3>3, <4>1, <4>2
    <3> QED
      BY <2>4, <3>4, <3>5
  <2>5. CASE /\ todo' = Rest \/ \E c \in OutCall : todo' = <<c>> \o Rest
             /\ Step.how # "notice" /\ UNCHANGED <<undelivered, named, refused>>
    BY <2>4, <2>5 DEF DingTalkNames
  <2>6. CASE /\ \E c \in OutCall : c.how = "notice" /\ c.what = <<"notice", Step.what[2]>> /\ todo' = <<c>> \o Rest
             /\ Step.how # "notice" /\ undelivered' = undelivered \cup {Step.what[2]} /\ UNCHANGED <<named, refused>>
    <3>1. PICK c \in OutCall : c.how = "notice" /\ c.what = <<"notice", Step.what[2]>> /\ todo' = <<c>> \o Rest
      BY <2>6
    <3>2. PICK m \in Nat \ {0} : m = Len(todo) /\ DOMAIN todo' = 1..m /\ todo'[1] = c /\ \A l \in 2..m : todo'[l] = todo[l]
      BY <1>0, <1>4, <3>1, TheOther
    <3>3. ASSUME refused' = {}, NEW i \in undelivered', i \notin named'
          PROVE  \E j \in DOMAIN todo' : todo'[j].how = "notice" /\ todo'[j].what = <<"notice", i>>
      <4>1. CASE i = Step.what[2]
        <5>1. 1 \in DOMAIN todo'
          BY <3>2
        <5> QED
          BY <3>1, <3>2, <4>1, <5>1
      <4>2. CASE i # Step.what[2]
        <5>1. i \in undelivered /\ i \notin named /\ refused = {}
          BY <2>6, <3>3, <4>2
        <5>2. PICK j \in 1..n : todo[j].how = "notice" /\ todo[j].what = <<"notice", i>>
          BY <1>4, <2>1, <5>1 DEF DingTalkNames
        <5>3. j \in 2..n
          BY <2>2, <2>3, <2>6, <5>2
        <5>4. m = n
          BY <2>1, <3>2
        <5> QED
          BY <3>2, <5>2, <5>3, <5>4
      <4> QED
        BY <4>1, <4>2
    <3> QED
      BY <3>3 DEF DingTalkNames
  <2>7. CASE /\ Step.how = "notice" /\ todo' = Rest
             /\ named' = named \cup {Step.what[2]} /\ UNCHANGED <<undelivered, refused>>
    <3>1. ASSUME NEW i, i \notin named' PROVE Step.what # <<"notice", i>>
      <4>1. ASSUME Step.what = <<"notice", i>> PROVE i \in named'
        <5>1. Step.what[2] = i
          BY <4>1
        <5> QED
          BY <2>7, <5>1
      <4> QED
        BY <3>1, <4>1
    <3> QED
      BY <2>4, <2>7, <3>1 DEF DingTalkNames
  <2>8. CASE refused' # {}
    BY <2>8 DEF DingTalkNames
  <2> QED
    BY <1>4, <2>5, <2>6, <2>7, <2>8 DEF DingTalkCall
<1> QED
  BY <1>0, <1>1, <1>2, <1>3, <1>4, DingTalkCalls

\* Matrix: the text comes last, and names the files that failed before.
LEMMA MatrixStep == ASSUME OrderInv, MatrixNames, OutboxNext PROVE MatrixNames'
<1>0. OutTypes /\ sender' = sender
  BY SameSender DEF OrderInv
<1>1. CASE sender # "matrix"
  BY <1>0, <1>1 DEF MatrixNames
<1>2. ASSUME sender = "matrix" PROVE MatrixSend \/ MatrixFile \/ MatrixText
  BY <1>2 DEF OutboxNext, DiscordSend, DiscordFile, DiscordTexts, DiscordChunk, DingTalkSend, DingTalkText, DingTalkUrl,
              DingTalkRead, DingTalkUpload, DingTalkImage, DingTalkFile, DingTalkNotice, FeishuSend, FeishuUpload,
              FeishuDoSend, FeishuReply, FeishuCreate, SlackSend, SlackText, SlackFile, SlackReaction,
              WecomSend, QQSend, WhatsAppSend, OneMessage, Calls
<1>3. CASE MatrixSend
  <2>1. PICK q : q = todo' /\ q = AllBy("upload") \o Call("text", Text(1))
    BY <1>3, MatrixExpands
  <2>2. "upload" \in PartHows /\ "text" \in Hows /\ Text(1) \in OutKinds \X Nat
    BY DEF PartHows, Hows, OutKinds, Text
  <2>3. Meant(FirstTry("text", Text(1)))
    <3>1. /\ FirstTry("text", Text(1)).how = "text" /\ FirstTry("text", Text(1)).what = Text(1)
          /\ Text(1)[1] = "text" /\ Text(1)[2] = 1
      BY DEF FirstTry, Text
    <3> QED
      BY <3>1 DEF Meant, FileHows
  <2>4. PICK m \in Nat : FileList(q, m, "upload", "text", Text(1))
    BY <1>0, <2>1, <2>2, <2>3, FilesThenOne
  <2>5. q # <<>> /\ Last(q).how = "text"
    BY <2>4 DEF FileList
  <2> QED
    BY <2>1, <2>5 DEF MatrixNames
<1>4. ASSUME todo # <<>>, sender = "matrix", todo' = Rest
      PROVE  /\ todo' # <<>> => Last(todo').how \in {"send", "text"}
             /\ todo' = <<>> => Step.how \in {"send", "text"}
  <2>1. PICK q : q = todo' /\ q = Rest
    BY <1>4
  <2>2. (q # <<>> => Last(q) = Last(todo)) /\ (q = <<>> => Last(todo) = Step)
    BY <1>0, <1>4, <2>1, ListShapes
  <2> QED
    BY <1>4, <2>1, <2>2 DEF MatrixNames
<1>5. CASE MatrixFile
  <2>1. todo # <<>> /\ Step.how = "upload" /\ todo' = Rest /\ sender = "matrix"
    BY <1>5 DEF MatrixFile, Calls, Show, Next1
  <2> QED
    BY <1>4, <2>1 DEF MatrixNames
<1>6. CASE MatrixText
  <2>1. todo # <<>> /\ todo' = Rest /\ sender = "matrix"
    BY <1>6 DEF MatrixText, Calls, Show, Next1
  <2>2. undelivered' \subseteq named' \/ refused' # {}
    BY <1>6 DEF MatrixText, Show, Next1, Refuse
  <2> QED
    BY <1>4, <2>1, <2>2 DEF MatrixNames
<1> QED
  BY <1>1, <1>2, <1>3, <1>5, <1>6

LEMMA OutboxStart == OutboxInit => OutboxInv
<1> SUFFICES ASSUME OutboxInit PROVE OutboxInv
  OBVIOUS
<1>1. /\ OrderInv /\ todo # <<>> /\ Last(todo).how = "send" /\ Step.how = "send"
  BY OrderStart
<1>3. shown = <<>> /\ undelivered = {}
  BY DEF OutboxInit
<1>4. \A j \in DOMAIN todo : \A k : todo[j].what # Text(k)
  <2>1. ASSUME NEW j \in DOMAIN todo PROVE todo[j].what[1] = "reply"
    BY DEF OutboxInit, Call, FirstTry
  <2> QED
    BY <2>1 DEF Text
<1>5. TextsFollow
  BY <1>3, <1>4 DEF TextsFollow, Range
<1> QED
  BY <1>1, <1>3, <1>5 DEF OutboxInv, OrderInv, DingTalkNames, MatrixNames

LEMMA OutboxStep == OutboxInv /\ [OutboxNext]_outboxVars => OutboxInv'
<1> SUFFICES ASSUME OutboxInv, [OutboxNext]_outboxVars PROVE OutboxInv'
  OBVIOUS
<1>1. OrderInv
  BY DEF OutboxInv, OrderInv
<1>2. OrderInv'
  BY <1>1, OrderStep
<1>3. TextsFollow /\ DingTalkNames /\ MatrixNames
  BY DEF OutboxInv
<1>4. CASE OutboxNext
  <2>1. TextsFollow' /\ DingTalkNames' /\ MatrixNames'
    BY <1>1, <1>3, <1>4, TextsStep, NamesStep, MatrixStep
  <2> QED
    BY <1>2, <2>1 DEF OutboxInv, OrderInv
<1>5. CASE UNCHANGED outboxVars
  <2>1. UNCHANGED <<sender, parcel, todo, shown, unsure, undelivered, named, refused>>
    BY <1>5 DEF outboxVars
  <2>2. TextsFollow' /\ DingTalkNames' /\ MatrixNames'
    BY <1>3, <2>1 DEF TextsFollow, DingTalkNames, MatrixNames
  <2> QED
    BY <1>2, <2>2 DEF OutboxInv, OrderInv
<1> QED
  BY <1>4, <1>5

\* The places of the property are those of the invariant.
LEMMA PartsAreShown == ASSUME OutboxInv PROVE PartsShown
<1>1. OutTypes /\ ShownInOrder /\ TextsFollow /\ DingTalkNames /\ MatrixNames
  BY DEF OutboxInv
<1>2. ASSUME NEW s \in DOMAIN shown PROVE Place(shown[s]) = Where(sender, shown[s])
  <2>1. shown[s][1] \in {"file", "text", "notice"}
    BY <1>1, <1>2 DEF OutTypes
  <2> QED
    BY <2>1 DEF Place, Where, InTexts, Single, Half
<1>3. \A i, j \in DOMAIN shown : i < j =>
        \/ Place(shown[i]) < Place(shown[j])
        \/ Place(shown[i]) = Place(shown[j]) /\ shown[i] \in unsure
  BY <1>1, <1>2 DEF ShownInOrder, Comes
<1>4. sender = "discord" => \A k \in 2..parcel.texts :
        Text(k) \in Range(shown) => Text(k - 1) \in Range(shown)
  BY <1>1 DEF TextsFollow
<1>5. ASSUME todo = <<>>, refused = {}
      PROVE  sender \in {"dingtalk", "matrix"} => undelivered \subseteq named
  <2>1. DOMAIN todo = {}
    BY <1>5
  <2> QED
    BY <1>1, <1>5, <2>1 DEF DingTalkNames, MatrixNames
<1>6. CardsHold(parcel.content)
  <2>1. parcel.content \in Seq(LineKinds)
    BY <1>1 DEF OutTypes, Parcel
  <2> QED
    BY <2>1, CardsHoldEveryText
<1> QED
  BY <1>3, <1>4, <1>5, <1>6 DEF PartsShown

\* The other chats show the parts of a reply in order, one twice only after a call that failed
\* though it was carried out, Discord no text before its predecessor; DingTalk and Matrix
\* name the files they give up, and the cards of Feishu hold the whole text.
THEOREM PartsStayShown == OutboxSpec => []PartsShown
<1>1. OutboxInv => PartsShown
  BY PartsAreShown
<1> QED
  BY <1>1, OutboxStart, OutboxStep, PTL DEF OutboxSpec

(* What a chat shows of a reply is in order and, unless a call that failed was carried out, *)
(* there once, in Telegram and in the other chats.                                          *)
THEOREM RepliesStayShown == TelegramSpec /\ OutboxSpec => []RepliesShown
<1>1. RepliesRead /\ PartsShown => RepliesShown
  BY DEF RepliesShown
<1> QED
  BY <1>1, RepliesStayRead, PartsStayShown, PTL

=============================================================================
