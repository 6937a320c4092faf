--------------------------- MODULE PresenceProofs ---------------------------
(***************************************************************************)
(* What the page shows of who is in its room, for every set of clients and *)
(* nicks, every history and every number of events.                        *)
(*                                                                         *)
(* The argument follows the last list under way to the page.  A reader     *)
(* that owes a list (Owes) will send a newer one, so while one does,       *)
(* nothing is claimed.  When none does, a list that is being sent is fresh *)
(* or knows that it was overtaken (ListsAge); so the last list sent was    *)
(* right when it was sent, and nothing that it did not see was announced   *)
(* after it (NewsFirst).  What the page makes of it, once it has come,     *)
(* lasts (NicksTold), and so does the last count (CountTold).              *)
(***************************************************************************)
EXTENDS Presence, FiniteSetTheorems, SequenceTheorems, TLAPS

-----------------------------------------------------------------------------
(* Types, with what the messages and sets at hand have besides *)

FiniteNicks == {S \in SUBSET Nicks : IsFiniteSet(S)}

\* A history is not sent when it is empty.
Letters ==
    [op : {"history"}, nicks : Seq(Nicks) \ {<<>>}]
    \cup [op : {"joined", "left", "chat"}, nick : Nicks]
    \cup [op : {"room_users"}, nicks : FiniteNicks, number : Nat]
    \cup [op : {"room_list"}, number : Nat]

Reads == [nicks : FiniteNicks, number : Nat, fresh : SUBSET Parts, overtaken : SUBSET Parts,
          renamed : SUBSET Nicks]

ServerTyped ==
    /\ private \in BOOLEAN /\ history \in Seq(Nicks)
    /\ members \subseteq Clients /\ IsFiniteSet(members)
    /\ nick \in [Clients -> (Nicks \ {Bot}) \cup {NoNick}]
    /\ at \in [Clients -> Steps]
    /\ \A c \in Clients : at[c] \in {"joined", "left"} => nick[c] # NoNick
    /\ read \in [Clients -> Reads]
    /\ budget \in [Events -> Nat]

SentTyped ==
    /\ down \in Seq(Letters)
    /\ behind \subseteq Parts /\ renamed \subseteq Nicks

PageTyped ==
    /\ known \in BOOLEAN /\ active \in BOOLEAN
    /\ guessed \in BOOLEAN /\ putBack \in BOOLEAN
    /\ nicks \in FiniteNicks /\ spoke \subseteq Nicks
    /\ count \in Nat \cup {-1} /\ label \in Nat
    /\ past \in [on : BOOLEAN, shared : BOOLEAN, set : FiniteNicks, left : Seq(Nicks)]
    /\ past.on => past.left # <<>>
    /\ lines \in Seq(Nicks)

Typed == ServerTyped /\ SentTyped /\ PageTyped

-----------------------------------------------------------------------------
(* The invariant *)

\* The reader c has read this part of a list that it has not sent yet.
Holding(c, part) ==
    \/ at[c] = "tell"
    \/ at[c] = "number" /\ part = "nicks"
    \/ at[c] = "list" /\ part = "number"

\* The reader c has still to send a list with this part as it is now, or will be.
Owes(c, part) ==
    \/ at[c] \in {"history", "ownNicks", "ownNumber", "ownTell", "joined", "left", "nicks"}
    \/ at[c] = "number" /\ part = "number"
    \/ at[c] \in {"number", "tell"} /\ Holding(c, part) /\ part \in read[c].fresh

SomeoneOwes(part) == \E c \in Clients : Owes(c, part)

\* Two sets of nicks that differ only in those of R.
Alike(S, T, R) == S \subseteq T \cup R /\ T \subseteq S \cup R

\* What is fresh is still right.
FreshIsRight ==
    \A c \in Clients :
        /\ Holding(c, "nicks") /\ "nicks" \in read[c].fresh =>
             Alike(read[c].nicks, NamedNicks(members), read[c].renamed)
        /\ Holding(c, "number") /\ "number" \in read[c].fresh =>
             read[c].number = Cardinality(members)

\* What is not is known to be overtaken, or another is to follow.
ListsAge ==
    Me \in members => \A c \in Clients, part \in Parts :
        Holding(c, part) => part \in read[c].fresh \cup read[c].overtaken \/ SomeoneOwes(part)

\* The lists and the counts among the messages, as the page takes them.
Lists  == {m \in Letters : m.op = "room_users" /\ m.nicks # {}}
Counts == Lists \cup {m \in Letters : m.op = "room_list"}

Without(s, K) == \A i \in DOMAIN s : s[i] \notin K

\* The last of the kind K in s, if there is one.
LastOf(s, K) ==
    {s[i] : i \in {j \in DOMAIN s : s[j] \in K /\ \A k \in DOMAIN s : k > j => s[k] \notin K}}

\* In s, whoever joins or leaves is announced before the last list.
NewsBefore(s) ==
    \A i \in DOMAIN s : s[i].op \in {"joined", "left"} =>
        \E j \in DOMAIN s : j > i /\ s[j] \in Lists

\* The page has been, or is being, told all there is to tell of this part.
AllTold(part) == Me \in members /\ part \notin behind /\ ~SomeoneOwes(part)

NewsFirst == AllTold("nicks") => NewsBefore(down)

NicksTold ==
    AllTold("nicks") =>
        /\ \A m \in LastOf(down, Lists) : Alike(m.nicks, NamedNicks(members), renamed)
        /\ Without(down, Lists) /\ ~putBack => NobodyMissing /\ StrangersSpoke

CountTold ==
    AllTold("number") =>
        /\ \A m \in LastOf(down, Counts) : m.number = Cardinality(members)
        /\ Without(down, Counts) /\ ~guessed => count = Cardinality(members)

\* The label of the current room is its count, once there is one.
LabelIsCount == active /\ count # -1 => label = count

IInv == Typed /\ FreshIsRight /\ ListsAge /\ NewsFirst /\ NicksTold /\ CountTold /\ LabelIsCount

-----------------------------------------------------------------------------
(* Lemmas about the model's operators *)

LEMMA LettersAreMessages == Letters \subseteq Messages
  BY DEF Letters, Messages, FiniteNicks

\* What the letters of each kind hold.
LEMMA LetterHolds ==
    ASSUME NEW m \in Letters
    PROVE  /\ m.op \in {"history", "joined", "left", "chat", "room_users", "room_list"}
           /\ m.op = "history" => m.nicks \in Seq(Nicks) /\ m.nicks # <<>>
           /\ m.op \in {"joined", "left", "chat"} => m.nick \in Nicks
           /\ m.op = "room_users" => m.nicks \in FiniteNicks /\ m.number \in Nat
           /\ m.op = "room_list" => m.number \in Nat
  BY DEF Letters

LEMMA OneNickMore ==
    ASSUME NEW S \in FiniteNicks, NEW n \in Nicks
    PROVE  S \cup {n} \in FiniteNicks /\ S \ {n} \in FiniteNicks
  BY FS_AddElement, FS_RemoveElement DEF FiniteNicks

LEMMA NoNicks == {} \in FiniteNicks
  BY FS_EmptySet DEF FiniteNicks

LEMMA NicksUnited ==
    ASSUME NEW S \in FiniteNicks, NEW T \in FiniteNicks
    PROVE  S \cup T \in FiniteNicks
  BY FS_Union DEF FiniteNicks

LEMMA CountOfNicks ==
    ASSUME NEW S \in FiniteNicks
    PROVE  Cardinality(S) \in Nat
  BY FS_CardinalityType DEF FiniteNicks

\* The nicks of finitely many members.
LEMMA NamedNicksFinite ==
    ASSUME ServerTyped
    PROVE  NamedNicks(members) \in FiniteNicks
  <1> DEFINE f == [c \in members |-> nick[c]]
             T == {nick[c] : c \in members}
  <1>1. f \in Surjection(members, T)
    BY DEF Surjection
  <1>2. IsFiniteSet(members)
    BY DEF ServerTyped
  <1> HIDE DEF f
  <1>3. IsFiniteSet(T)
    BY <1>1, <1>2, FS_Surjection
  <1>4. NamedNicks(members) \in SUBSET T
    BY DEF NamedNicks
  <1>5. NamedNicks(members) \subseteq Nicks
    <2>1. \A c \in members : nick[c] \in Nicks \cup {NoNick}
      BY DEF ServerTyped
    <2> QED
      BY <2>1 DEF NamedNicks
  <1> HIDE DEF T
  <1>6. IsFiniteSet(NamedNicks(members))
    BY <1>3, <1>4, FS_Subset
  <1> QED
    BY <1>5, <1>6 DEF FiniteNicks

\* Messages at the end of the queue, and from its head.
LEMMA LetterAppended ==
    ASSUME NEW s \in Seq(Letters), NEW m \in Letters
    PROVE  /\ Append(s, m) \in Seq(Letters)
           /\ DOMAIN Append(s, m) = 1 .. Len(s) + 1 /\ DOMAIN s = 1 .. Len(s) /\ Len(s) \in Nat
           /\ Append(s, m)[Len(s) + 1] = m
           /\ \A i \in 1 .. Len(s) : Append(s, m)[i] = s[i]
  <1>1. /\ Append(s, m) \in Seq(Letters) /\ Len(Append(s, m)) = Len(s) + 1
        /\ \A i \in 1 .. Len(s) : Append(s, m)[i] = s[i]
        /\ Append(s, m)[Len(s) + 1] = m
    BY AppendProperties
  <1> QED
    BY <1>1, LenProperties

LEMMA HeadTaken ==
    ASSUME NEW s \in Seq(Letters), s # <<>>
    PROVE  /\ Head(s) \in Letters /\ Head(s) = s[1] /\ Tail(s) \in Seq(Letters)
           /\ Len(s) \in Nat \ {0} /\ DOMAIN s = 1 .. Len(s)
           /\ DOMAIN Tail(s) = 1 .. Len(s) - 1
           /\ \A i \in 1 .. Len(s) - 1 : Tail(s)[i] = s[i + 1]
  <1>1. Len(s) \in Nat /\ DOMAIN s = 1 .. Len(s) /\ Len(s) # 0
    BY LenProperties, EmptySeq
  <1>2. /\ Head(s) \in Letters /\ Tail(s) \in Seq(Letters) /\ Len(Tail(s)) = Len(s) - 1
        /\ \A i \in 1 .. Len(Tail(s)) : Tail(s)[i] = s[i + 1]
    BY HeadTailProperties
  <1>3. DOMAIN Tail(s) = 1 .. Len(Tail(s))
    BY <1>2, LenProperties
  <1>4. Head(s) = s[1]
    BY DEF Head
  <1> QED
    BY <1>1, <1>2, <1>3, <1>4

\* What follows the last of a kind: a message of another kind changes nothing,
\* one of the kind is the last.
LEMMA LastAfterAppend ==
    ASSUME NEW s \in Seq(Letters), NEW m \in Letters, NEW K
    PROVE  /\ m \notin K => /\ LastOf(Append(s, m), K) \subseteq LastOf(s, K)
                            /\ Without(Append(s, m), K) => Without(s, K)
           /\ m \in K => /\ LastOf(Append(s, m), K) \subseteq {m}
                         /\ ~Without(Append(s, m), K)
  <1> DEFINE t == Append(s, m)
             n == Len(s)
  <1>1. /\ DOMAIN t = 1 .. n + 1 /\ DOMAIN s = 1 .. n /\ n \in Nat
        /\ t[n + 1] = m /\ \A i \in 1 .. n : t[i] = s[i]
    BY LetterAppended
  <1> HIDE DEF t, n
  <1>2. ASSUME m \notin K
        PROVE  LastOf(t, K) \subseteq LastOf(s, K) /\ (Without(t, K) => Without(s, K))
    <2>1. ASSUME NEW i \in DOMAIN t, t[i] \in K, \A k \in DOMAIN t : k > i => t[k] \notin K
          PROVE  i \in DOMAIN s /\ s[i] = t[i] /\ \A k \in DOMAIN s : k > i => s[k] \notin K
      BY <1>1, <1>2, <2>1
    <2>2. LastOf(t, K) \subseteq LastOf(s, K)
      BY <2>1 DEF LastOf
    <2> QED
      BY <1>1, <2>2 DEF Without
  <1>3. ASSUME m \in K
        PROVE  LastOf(t, K) \subseteq {m} /\ ~Without(t, K)
    <2>1. ASSUME NEW i \in DOMAIN t, \A k \in DOMAIN t : k > i => t[k] \notin K
          PROVE  i = n + 1
      BY <1>1, <1>3, <2>1
    <2>2. LastOf(t, K) \subseteq {m}
      BY <1>1, <2>1 DEF LastOf
    <2> QED
      BY <1>1, <1>3, <2>2 DEF Without
  <1> QED
    BY <1>2, <1>3 DEF t

\* The same when the first message is taken: only the last of the kind leaves
\* none behind.
LEMMA LastAfterTail ==
    ASSUME NEW s \in Seq(Letters), s # <<>>, NEW K
    PROVE  /\ LastOf(Tail(s), K) \subseteq LastOf(s, K)
           /\ Head(s) \notin K /\ Without(Tail(s), K) => Without(s, K)
           /\ Head(s) \in K /\ Without(Tail(s), K) => Head(s) \in LastOf(s, K)
  <1> DEFINE t == Tail(s)
             h == Head(s)
             n == Len(s)
  <1>1. /\ h = s[1] /\ DOMAIN s = 1 .. n /\ n \in Nat \ {0} /\ DOMAIN t = 1 .. n - 1
        /\ \A i \in 1 .. n - 1 : t[i] = s[i + 1]
    BY HeadTaken
  <1> HIDE DEF t, h, n
  <1>2. \A k \in DOMAIN s : k = 1 \/ (k - 1 \in DOMAIN t /\ t[k - 1] = s[k])
    BY <1>1
  <1>3. LastOf(t, K) \subseteq LastOf(s, K)
    <2>1. ASSUME NEW i \in DOMAIN t, t[i] \in K, \A k \in DOMAIN t : k > i => t[k] \notin K
          PROVE  /\ i + 1 \in DOMAIN s /\ s[i + 1] = t[i]
                 /\ \A k \in DOMAIN s : k > i + 1 => s[k] \notin K
      <3>1. i + 1 \in DOMAIN s /\ s[i + 1] = t[i]
        BY <1>1
      <3>2. ASSUME NEW k \in DOMAIN s, k > i + 1
            PROVE  s[k] \notin K
        <4>1. i \in 1 .. n - 1 /\ k \in 1 .. n
          BY <1>1
        <4>2. k - 1 \in DOMAIN t /\ t[k - 1] = s[k] /\ k - 1 > i
          BY <1>2, <3>2, <4>1
        <4> QED
          BY <2>1, <4>2
      <3> QED
        BY <3>1, <3>2
    <2> QED
      BY <2>1 DEF LastOf
  <1>4. h \notin K /\ Without(t, K) => Without(s, K)
    BY <1>1, <1>2 DEF Without
  <1>5. ASSUME h \in K, Without(t, K)
        PROVE  h \in LastOf(s, K)
    <2>1. 1 \in DOMAIN s /\ \A k \in DOMAIN s : k > 1 => s[k] \notin K
      BY <1>1, <1>2, <1>5 DEF Without
    <2> QED
      BY <1>1, <1>5, <2>1 DEF LastOf
  <1> QED
    BY <1>3, <1>4, <1>5 DEF t, h

\* A reader goes to its next step; the others stay where they are.
LEMMA Gone ==
    ASSUME ServerTyped, NEW c \in Clients, NEW from, NEW to \in Steps, Go(c, from, to)
    PROVE  /\ at[c] = from /\ at' \in [Clients -> Steps] /\ at'[c] = to
           /\ \A d \in Clients \ {c} : at'[d] = at[d]
  BY DEF ServerTyped, Go

LEMMA BudgetUsed ==
    ASSUME ServerTyped, NEW e \in Events, Use(e)
    PROVE  budget' \in [Events -> Nat]
  BY DEF ServerTyped, Use

\* A message to the page, which may be lost.
LEMMA Posted ==
    ASSUME ServerTyped, SentTyped, NEW m \in Letters, Deliver(m) \/ Drop
    PROVE  /\ down' = Append(down, m) \/ down' = down
           /\ down' \in Seq(Letters) /\ budget' \in [Events -> Nat]
  <1>1. Append(down, m) \in Seq(Letters)
    BY LetterAppended DEF SentTyped
  <1>2. CASE Deliver(m)
    BY <1>1, <1>2 DEF Deliver, ServerTyped
  <1>3. CASE Drop
    <2>1. budget' \in [Events -> Nat]
      BY <1>3, BudgetUsed DEF Drop, Events
    <2> QED
      BY <1>3, <2>1 DEF Drop, SentTyped
  <1> QED
    BY <1>2, <1>3

LEMMA NoListRead == NoList \in Reads
  BY NoNicks DEF NoList, Reads

\* When the members change, no list that was read is fresh any more.
LEMMA AllAged ==
    ASSUME ServerTyped
    PROVE  /\ Aged \in [Clients -> Reads]
           /\ \A d \in Clients : Aged[d].fresh = {}
  <1>1. \A d \in Clients : read[d] \in Reads
    BY DEF ServerTyped
  <1>2. ASSUME NEW d \in Clients
        PROVE  [read[d] EXCEPT !.fresh = {}] \in Reads
               /\ [read[d] EXCEPT !.fresh = {}].fresh = {}
    BY <1>1 DEF Reads
  <1> QED
    BY <1>2 DEF Aged

\* A list has gone: one that was fresh has overtaken those that are not.
LEMMA Turned ==
    ASSUME ServerTyped, NEW c \in Clients, Turn(c)
    PROVE  /\ read' \in [Clients -> Reads] /\ read'[c] = NoList
           /\ \A d \in Clients \ {c} :
                /\ read'[d].fresh = read[d].fresh /\ read'[d].renamed = read[d].renamed
                /\ read'[d].nicks = read[d].nicks /\ read'[d].number = read[d].number
                /\ read[d].overtaken \subseteq read'[d].overtaken
                /\ UnderWay(d) => read[c].fresh \ read[d].fresh \subseteq read'[d].overtaken
  <1> DEFINE over(d) == read[d].overtaken \cup (read[c].fresh \ read[d].fresh)
  <1>1. \A d \in Clients : read[d] \in Reads /\ over(d) \in SUBSET Parts
    <2>1. \A d \in Clients : read[d] \in Reads
      BY DEF ServerTyped
    <2>2. ASSUME NEW d \in Clients
          PROVE  over(d) \in SUBSET Parts
      BY <2>1 DEF Reads
    <2> QED
      BY <2>1, <2>2
  <1>2. /\ DOMAIN read' = Clients /\ read' = [d \in Clients |-> read'[d]]
        /\ \A d \in Clients : read'[d] = IF d = c THEN NoList
                                         ELSE IF UnderWay(d) THEN [read[d] EXCEPT !.overtaken = over(d)]
                                         ELSE read[d]
    BY <1>1 DEF Turn, Reads
  <1> HIDE DEF over
  <1>3. ASSUME NEW d \in Clients, d # c
        PROVE  /\ read'[d] \in Reads /\ read'[d].fresh = read[d].fresh
               /\ read'[d].renamed = read[d].renamed
               /\ read'[d].nicks = read[d].nicks /\ read'[d].number = read[d].number
               /\ read'[d].overtaken = IF UnderWay(d) THEN over(d) ELSE read[d].overtaken
    <2>1. read[d] \in Reads /\ over(d) \in SUBSET Parts /\ {} \in SUBSET Nicks
      BY <1>1
    <2>2. CASE UnderWay(d)
      <3>1. read'[d] = [read[d] EXCEPT !.overtaken = over(d)]
        BY <1>2, <1>3, <2>2
      <3>2. PICK r \in Reads, P \in SUBSET Parts : r = read[d] /\ P = over(d)
        BY <2>1
      <3>3. read'[d] = [r EXCEPT !.overtaken = P]
        BY <3>1, <3>2
      <3> QED
        BY <2>2, <3>2, <3>3 DEF Reads
    <2>3. CASE ~UnderWay(d)
      BY <1>2, <1>3, <2>1, <2>3
    <2> QED
      BY <2>2, <2>3
  <1>4. read'[c] = NoList
    BY <1>2
  <1>5. read' \in [Clients -> Reads]
    <2>1. \A d \in Clients : read'[d] \in Reads
      BY <1>3, <1>4, NoListRead
    <2> QED
      BY <1>2, <2>1
  <1> QED
    BY <1>3, <1>4, <1>5 DEF over

\* What a reader reads.
LEMMA ReadNoted ==
    ASSUME ServerTyped, NEW c \in Clients, NEW r \in Reads, read' = [read EXCEPT ![c] = r]
    PROVE  /\ read' \in [Clients -> Reads] /\ read'[c] = r
           /\ \A d \in Clients \ {c} : read'[d] = read[d]
  BY DEF ServerTyped

\* A list of users is a letter.
LEMMA UsersMsgTyped ==
    ASSUME ServerTyped, NEW c \in Clients
    PROVE  /\ UsersMsg(c) \in Letters /\ UsersMsg(c).op = "room_users"
           /\ UsersMsg(c).nicks = read[c].nicks /\ UsersMsg(c).number = read[c].number
  <1>1. read[c].nicks \in FiniteNicks /\ read[c].number \in Nat
    BY DEF ServerTyped, Reads
  <1> QED
    BY <1>1 DEF UsersMsg, Letters

-----------------------------------------------------------------------------
(* Types *)

LEMMA InitTyped ==
    ASSUME PresenceAssumption, Init
    PROVE  Typed
  <1>1. /\ members \subseteq Clients /\ IsFiniteSet(members) /\ nicks \in FiniteNicks
        /\ past \in [on : BOOLEAN, shared : BOOLEAN, set : FiniteNicks, left : Seq(Nicks)]
        /\ past.on => past.left # <<>>
    BY NoNicks, FS_EmptySet DEF Init, NoPast
  <1>2. read \in [Clients -> Reads] /\ at \in [Clients -> Steps]
    BY NoListRead DEF Init, Steps
  <1>3. /\ nick \in [Clients -> (Nicks \ {Bot}) \cup {NoNick}] /\ history \in Seq(Nicks)
        /\ budget \in [Events -> Nat]
    BY DEF Init, PresenceAssumption
  <1>4. \A c \in Clients : at[c] \in {"joined", "left"} => nick[c] # NoNick
    BY DEF Init
  <1>5. down \in Seq(Letters) /\ lines \in Seq(Nicks)
    BY DEF Init
  <1>6. ServerTyped
    BY <1>1, <1>2, <1>3, <1>4 DEF Init, ServerTyped
  <1>7. SentTyped
    BY <1>5 DEF Init, SentTyped
  <1>8. PageTyped
    BY <1>1, <1>5 DEF Init, PageTyped
  <1> QED
    BY <1>6, <1>7, <1>8 DEF Typed

\* A client joins or leaves: its reader will have told of it, the lists are old.
LEMMA MoveTyped ==
    ASSUME PresenceAssumption, Typed, NEW c \in Clients, Join(c) \/ Part(c)
    PROVE  ServerTyped' /\ SentTyped'
  <1>1. /\ ServerTyped /\ SentTyped
        /\ private \in BOOLEAN /\ history \in Seq(Nicks) /\ at \in [Clients -> Steps]
        /\ members \subseteq Clients /\ IsFiniteSet(members)
        /\ nick \in [Clients -> (Nicks \ {Bot}) \cup {NoNick}]
        /\ \A d \in Clients : at[d] \in {"joined", "left"} => nick[d] # NoNick
    BY DEF Typed, ServerTyped
  <1>2. PICK to \in {"history", "joined", "left", "nicks"} :
            Go(c, "idle", to) /\ (to \in {"joined", "left"} => nick[c] # NoNick)
    BY DEF Join, Part, AfterMove
  <1>3. to \in Steps
    BY <1>2 DEF Steps
  <1>4. /\ at' \in [Clients -> Steps] /\ at'[c] = to
        /\ \A d \in Clients \ {c} : at'[d] = at[d]
    BY <1>1, <1>2, <1>3, Gone
  <1>5. members' \subseteq Clients /\ IsFiniteSet(members')
    BY <1>1, FS_AddElement, FS_RemoveElement DEF Join, Part
  <1>6. read' \in [Clients -> Reads]
    BY <1>1, AllAged DEF Join, Part
  <1>7. budget' \in [Events -> Nat]
    BY <1>1, BudgetUsed DEF Join, Part, Events
  <1>8. UNCHANGED <<private, nick, history, down, behind, renamed>>
    BY DEF Join, Part, sentVars
  <1>9. \A d \in Clients : at'[d] \in {"joined", "left"} => nick'[d] # NoNick
    BY <1>1, <1>2, <1>4, <1>8
  <1>10. ServerTyped'
    BY <1>1, <1>4, <1>5, <1>6, <1>7, <1>8, <1>9 DEF ServerTyped
  <1> QED
    BY <1>1, <1>8, <1>10 DEF SentTyped

\* The messages of a join or a part, of one connection or of all.
LEMMA AnnounceTyped ==
    ASSUME PresenceAssumption, Typed, NEW c \in Clients, Announce(c) \/ (SendHistory /\ c = Me)
    PROVE  /\ ServerTyped' /\ SentTyped'
           /\ down' = down \/ \E m \in Letters : m.op # "room_users" /\ m.op # "room_list"
                                                /\ down' = Append(down, m)
  <1>1. /\ ServerTyped /\ SentTyped
        /\ private \in BOOLEAN /\ history \in Seq(Nicks) /\ budget \in [Events -> Nat]
        /\ members \subseteq Clients /\ IsFiniteSet(members)
        /\ nick \in [Clients -> (Nicks \ {Bot}) \cup {NoNick}]
        /\ \A d \in Clients : at[d] \in {"joined", "left"} => nick[d] # NoNick
        /\ down \in Seq(Letters)
    BY DEF Typed, ServerTyped, SentTyped
  <1>2. PICK from \in {"history", "joined", "left"}, to \in {"ownNicks", "nicks"} : Go(c, from, to)
    BY DEF Announce, SendHistory
  <1>3. to \in Steps
    BY <1>2 DEF Steps
  <1>4. /\ at' \in [Clients -> Steps] /\ at'[c] = to
        /\ \A d \in Clients \ {c} : at'[d] = at[d]
    BY <1>1, <1>2, <1>3, Gone
  <1>5. UNCHANGED <<private, members, nick, history, read, behind, renamed>>
    BY DEF Announce, SendHistory, roomVars, sentVars
  <1>6. \/ UNCHANGED <<down, budget>>
        \/ \E m \in Letters : /\ m.op # "room_users" /\ m.op # "room_list"
                              /\ Deliver(m) \/ Drop
    <2>1. ASSUME Announce(c)
          PROVE  \/ UNCHANGED <<down, budget>>
                 \/ \E m \in Letters : /\ m.op # "room_users" /\ m.op # "room_list"
                                       /\ Deliver(m) \/ Drop
      <3>1. nick[c] \in Nicks
        BY <1>1, <2>1 DEF Announce, Go
      <3>2. /\ [op |-> "joined", nick |-> nick[c]] \in Letters
            /\ [op |-> "left", nick |-> nick[c]] \in Letters
        BY <3>1 DEF Letters
      <3>3. PICK o \in {"joined", "left"} : Broadcast([op |-> o, nick |-> nick[c]])
        BY <2>1 DEF Announce
      <3>4. [op |-> o, nick |-> nick[c]] \in Letters
        BY <3>2, <3>3
      <3> QED
        BY <3>3, <3>4 DEF Broadcast
    <2>2. ASSUME SendHistory
          PROVE  \/ UNCHANGED <<down, budget>>
                 \/ \E m \in Letters : /\ m.op # "room_users" /\ m.op # "room_list"
                                       /\ Deliver(m) \/ Drop
      <3>1. history # <<>> => [op |-> "history", nicks |-> history] \in Letters
        BY <1>1 DEF Letters
      <3> QED
        BY <2>2, <3>1 DEF SendHistory
    <2> QED
      BY <2>1, <2>2
  <1>7. /\ down' = down \/ \E m \in Letters : m.op # "room_users" /\ m.op # "room_list"
                                             /\ down' = Append(down, m)
        /\ down' \in Seq(Letters) /\ budget' \in [Events -> Nat]
    <2>1. CASE UNCHANGED <<down, budget>>
      BY <1>1, <2>1
    <2>2. ASSUME NEW m \in Letters, m.op # "room_users", m.op # "room_list", Deliver(m) \/ Drop
          PROVE  /\ down' = down \/ \E k \in Letters : k.op # "room_users" /\ k.op # "room_list"
                                                      /\ down' = Append(down, k)
                 /\ down' \in Seq(Letters) /\ budget' \in [Events -> Nat]
      BY <1>1, <2>2, Posted
    <2> QED
      BY <1>6, <2>1, <2>2
  <1>8. \A d \in Clients : at'[d] \in {"joined", "left"} => nick'[d] # NoNick
    BY <1>1, <1>2, <1>4, <1>5
  <1>9. read' \in [Clients -> Reads]
    BY <1>1, <1>5 DEF ServerTyped
  <1>10. ServerTyped'
    BY <1>1, <1>4, <1>5, <1>7, <1>8, <1>9 DEF ServerTyped
  <1>11. SentTyped'
    BY <1>1, <1>5, <1>7 DEF SentTyped
  <1> QED
    BY <1>7, <1>10, <1>11

\* Reading: one reader goes on and reads; nothing else changes.
LEMMA ReadingTyped ==
    ASSUME Typed, NEW c \in Clients, NEW from, NEW to \in Steps \ {"joined", "left"},
           Go(c, from, to), NEW r \in Reads, read' = [read EXCEPT ![c] = r],
           UNCHANGED roomVars, budget' \in [Events -> Nat]
    PROVE  /\ ServerTyped'
           /\ at'[c] = to /\ read'[c] = r
           /\ \A d \in Clients \ {c} : at'[d] = at[d] /\ read'[d] = read[d]
  <1>1. ServerTyped /\ to \in Steps
    BY DEF Typed
  <1>2. /\ at' \in [Clients -> Steps] /\ at'[c] = to
        /\ \A d \in Clients \ {c} : at'[d] = at[d]
    BY <1>1, Gone
  <1>3. /\ read' \in [Clients -> Reads] /\ read'[c] = r
        /\ \A d \in Clients \ {c} : read'[d] = read[d]
    BY <1>1, ReadNoted
  <1>4. \A d \in Clients : at'[d] \in {"joined", "left"} => nick'[d] # NoNick
    BY <1>1, <1>2 DEF ServerTyped, roomVars
  <1>5. ServerTyped'
    BY <1>1, <1>2, <1>3, <1>4 DEF ServerTyped, roomVars
  <1> QED
    BY <1>2, <1>3, <1>5

LEMMA ReadNicksTyped ==
    ASSUME Typed, NEW c \in Clients, ReadNicks(c)
    PROVE  /\ ServerTyped' /\ SentTyped'
           /\ read'[c].fresh = {"nicks"} /\ read'[c].nicks = NamedNicks(members)
           /\ at'[c] \in {"number", "ownNumber"}
           /\ \A d \in Clients \ {c} : at'[d] = at[d] /\ read'[d] = read[d]
  <1> DEFINE r == [NoList EXCEPT !.nicks = NamedNicks(members), !.fresh = {"nicks"}]
  <1>1. NamedNicks(members) \in FiniteNicks
    BY NamedNicksFinite DEF Typed
  <1>2. r \in Reads /\ r.fresh = {"nicks"} /\ r.nicks = NamedNicks(members)
    BY <1>1 DEF Reads, NoList, Parts
  <1>3. /\ read' = [read EXCEPT ![c] = r] /\ UNCHANGED <<roomVars, down, budget, sentVars>>
        /\ Go(c, "nicks", "number") \/ Go(c, "ownNicks", "ownNumber")
    BY DEF ReadNicks
  <1> HIDE DEF r
  <1>4. budget' \in [Events -> Nat]
    BY <1>3 DEF Typed, ServerTyped
  <1>5. {"number", "ownNumber"} \subseteq Steps \ {"joined", "left"}
    BY DEF Steps
  <1>6. /\ ServerTyped' /\ at'[c] \in {"number", "ownNumber"} /\ read'[c] = r
        /\ \A d \in Clients \ {c} : at'[d] = at[d] /\ read'[d] = read[d]
    <2>1. CASE Go(c, "nicks", "number")
      BY <1>2, <1>3, <1>4, <1>5, <2>1, ReadingTyped
    <2>2. CASE Go(c, "ownNicks", "ownNumber")
      BY <1>2, <1>3, <1>4, <1>5, <2>2, ReadingTyped
    <2> QED
      BY <1>3, <2>1, <2>2
  <1>7. SentTyped'
    BY <1>3 DEF Typed, SentTyped, sentVars
  <1> QED
    BY <1>2, <1>6, <1>7

LEMMA ReadNumberTyped ==
    ASSUME Typed, NEW c \in Clients, ReadNumber(c)
    PROVE  /\ ServerTyped' /\ SentTyped'
           /\ \/ at[c] = "number" /\ at'[c] = "tell"
              \/ at[c] = "ownNumber" /\ at'[c] = "ownTell"
           /\ read'[c].fresh = read[c].fresh \cup {"number"}
           /\ read'[c].number = Cardinality(members)
           /\ read'[c].nicks = read[c].nicks /\ read'[c].renamed = read[c].renamed
           /\ "nicks" \in read[c].overtaken => "nicks" \in read'[c].overtaken
           /\ \A d \in Clients \ {c} : at'[d] = at[d] /\ read'[d] = read[d]
  <1> DEFINE r == [read[c] EXCEPT !.number = Cardinality(members), !.fresh = @ \cup {"number"},
                                  !.overtaken = @ \ {"number"}]
  <1>1. ServerTyped /\ read[c] \in Reads /\ Cardinality(members) \in Nat
    BY FS_CardinalityType DEF Typed, ServerTyped
  <1>2. /\ r \in Reads /\ r.fresh = read[c].fresh \cup {"number"}
        /\ r.number = Cardinality(members) /\ r.nicks = read[c].nicks
        /\ r.renamed = read[c].renamed /\ r.overtaken = read[c].overtaken \ {"number"}
    BY <1>1 DEF Reads, Parts
  <1>3. /\ read' = [read EXCEPT ![c] = r] /\ UNCHANGED <<roomVars, down, budget, sentVars>>
        /\ Go(c, "number", "tell") \/ Go(c, "ownNumber", "ownTell")
    BY DEF ReadNumber
  <1> HIDE DEF r
  <1>4. budget' \in [Events -> Nat]
    BY <1>3 DEF Typed, ServerTyped
  <1>5. {"tell", "ownTell"} \subseteq Steps \ {"joined", "left"}
    BY DEF Steps
  <1>6. /\ ServerTyped' /\ read'[c] = r
        /\ \/ at[c] = "number" /\ at'[c] = "tell"
           \/ at[c] = "ownNumber" /\ at'[c] = "ownTell"
        /\ \A d \in Clients \ {c} : at'[d] = at[d] /\ read'[d] = read[d]
    <2>1. CASE Go(c, "number", "tell")
      <3>1. at[c] = "number"
        BY <2>1 DEF Go
      <3> QED
        BY <1>2, <1>3, <1>4, <1>5, <2>1, <3>1, ReadingTyped
    <2>2. CASE Go(c, "ownNumber", "ownTell")
      <3>1. at[c] = "ownNumber"
        BY <2>2 DEF Go
      <3> QED
        BY <1>2, <1>3, <1>4, <1>5, <2>2, <3>1, ReadingTyped
    <2> QED
      BY <1>3, <2>1, <2>2
  <1>7. SentTyped'
    BY <1>3 DEF Typed, SentTyped, sentVars
  <1> QED
    BY <1>2, <1>6, <1>7

LEMMA MeIsClient == Me \in Clients
  BY DEF Clients

LEMMA ReadListTyped ==
    ASSUME Typed, ReadList
    PROVE  /\ ServerTyped' /\ SentTyped'
           /\ read'[Me].fresh = {"number"} /\ read'[Me].number = Cardinality(members)
           /\ at[Me] = "idle" /\ at'[Me] = "list"
           /\ \A d \in Clients \ {Me} : at'[d] = at[d] /\ read'[d] = read[d]
  <1> DEFINE r == [NoList EXCEPT !.number = Cardinality(members), !.fresh = {"number"}]
  <1>1. ServerTyped
    BY DEF Typed
  <1>2. Cardinality(members) \in Nat
    BY <1>1, FS_CardinalityType DEF ServerTyped
  <1>3. r \in Reads /\ r.fresh = {"number"} /\ r.number = Cardinality(members)
    BY <1>2, NoNicks DEF Reads, NoList, Parts
  <1>4. /\ read' = [read EXCEPT ![Me] = r] /\ UNCHANGED <<roomVars, down, sentVars>>
        /\ Go(Me, "idle", "list") /\ Use("lists")
    BY DEF ReadList
  <1> HIDE DEF r
  <1>5. budget' \in [Events -> Nat]
    BY <1>1, <1>4, BudgetUsed DEF Events
  <1>6. /\ ServerTyped' /\ at'[Me] = "list" /\ read'[Me] = r
        /\ \A d \in Clients \ {Me} : at'[d] = at[d] /\ read'[d] = read[d]
    <2>1. "list" \in Steps \ {"joined", "left"}
      BY DEF Steps
    <2> QED
      BY <1>3, <1>4, <1>5, <2>1, ReadingTyped, MeIsClient
  <1>7. SentTyped'
    BY <1>4 DEF Typed, SentTyped, sentVars
  <1>8. at[Me] = "idle"
    BY <1>4 DEF Go
  <1> QED
    BY <1>3, <1>6, <1>7, <1>8

\* What becomes of the message of a reader: it is sent, or it is lost.
LEMMA TellListTyped ==
    ASSUME Typed, TellList
    PROVE  /\ ServerTyped' /\ SentTyped'
           /\ at[Me] = "list" /\ at'[Me] = "idle"
           /\ \A d \in Clients \ {Me} : at'[d] = at[d] /\ read'[d] = read[d]
           /\ \/ \E m \in Letters : /\ m.op = "room_list" /\ m.number = read[Me].number
                                    /\ down' = Append(down, m)
                                    /\ behind' = (behind \ {"number"})
                                                   \cup (read[Me].overtaken \cap {"number"})
              \/ down' = down /\ behind' = behind
  <1> DEFINE m == [op |-> "room_list", number |-> read[Me].number]
  <1>1. ServerTyped /\ SentTyped
    BY DEF Typed
  <1>2. read[Me] \in Reads
    BY <1>1, MeIsClient DEF ServerTyped
  <1>3. m \in Letters /\ m.op = "room_list" /\ m.number = read[Me].number
    BY <1>2 DEF Reads, Letters
  <1>4. /\ Go(Me, "list", "idle") /\ read' = [read EXCEPT ![Me] = NoList]
        /\ \/ /\ Deliver(m)
              /\ behind' = (behind \ {"number"}) \cup (read[Me].overtaken \cap {"number"})
           \/ Drop /\ UNCHANGED behind
        /\ UNCHANGED <<roomVars, renamed>>
    BY DEF TellList
  <1> HIDE DEF m
  <1>5. down' \in Seq(Letters) /\ budget' \in [Events -> Nat]
    BY <1>1, <1>3, <1>4, Posted
  <1>6. /\ ServerTyped' /\ at'[Me] = "idle" /\ read'[Me] = NoList
        /\ \A d \in Clients \ {Me} : at'[d] = at[d] /\ read'[d] = read[d]
    <2>1. "idle" \in Steps \ {"joined", "left"}
      BY DEF Steps
    <2> QED
      BY <1>4, <1>5, <2>1, NoListRead, ReadingTyped, MeIsClient
  <1>7. behind' \subseteq Parts
    BY <1>1, <1>2, <1>4 DEF Reads, SentTyped
  <1>8. SentTyped'
    BY <1>1, <1>4, <1>5, <1>7 DEF SentTyped
  <1>9. \/ \E k \in Letters : /\ k.op = "room_list" /\ k.number = read[Me].number
                              /\ down' = Append(down, k)
                              /\ behind' = (behind \ {"number"})
                                             \cup (read[Me].overtaken \cap {"number"})
        \/ down' = down /\ behind' = behind
    BY <1>3, <1>4 DEF Deliver, Drop
  <1>10. at[Me] = "list"
    BY <1>4 DEF Go
  <1> QED
    BY <1>6, <1>8, <1>9, <1>10

\* What becomes of a list that the reader c was about to send, and its notes.
ListSent(c) ==
    \/ /\ down' = Append(down, UsersMsg(c)) /\ renamed' = read[c].renamed
       /\ behind' = IF read[c].nicks = {} THEN Parts ELSE read[c].overtaken
    \/ down' = down /\ behind' = Parts /\ renamed' = renamed

\* Its types, with or without the page in the room.
LEMMA TellTyped ==
    ASSUME Typed, NEW c \in Clients, NEW from, NEW to \in Steps, Go(c, from, to),
           to \in {"joined", "left"} => nick[c] # NoNick,
           read' \in [Clients -> Reads], UNCHANGED roomVars,
           \/ ListSent(c) /\ (Deliver(UsersMsg(c)) \/ Drop)
           \/ UNCHANGED <<down, budget, sentVars>>
    PROVE  ServerTyped' /\ SentTyped'
  <1>1. ServerTyped /\ SentTyped
    BY DEF Typed
  <1>2. UsersMsg(c) \in Letters /\ read[c] \in Reads
    BY <1>1, UsersMsgTyped DEF ServerTyped
  <1>3. /\ at' \in [Clients -> Steps] /\ at'[c] = to
        /\ \A d \in Clients \ {c} : at'[d] = at[d]
    BY <1>1, Gone
  <1>4. \A d \in Clients : at'[d] \in {"joined", "left"} => nick'[d] # NoNick
    BY <1>1, <1>3 DEF ServerTyped, roomVars
  <1>5. down' \in Seq(Letters) /\ budget' \in [Events -> Nat]
    <2>1. CASE Deliver(UsersMsg(c)) \/ Drop
      BY <1>1, <1>2, <2>1, Posted
    <2>2. CASE UNCHANGED <<down, budget, sentVars>>
      BY <1>1, <2>2 DEF ServerTyped, SentTyped
    <2> QED
      BY <2>1, <2>2
  <1>6. behind' \subseteq Parts /\ renamed' \subseteq Nicks
    <2>1. read[c].overtaken \subseteq Parts /\ read[c].renamed \subseteq Nicks
      BY <1>2 DEF Reads
    <2> QED
      BY <1>1, <2>1 DEF ListSent, SentTyped, sentVars
  <1>7. ServerTyped'
    BY <1>1, <1>3, <1>4, <1>5 DEF ServerTyped, roomVars
  <1> QED
    BY <1>1, <1>5, <1>6, <1>7 DEF SentTyped

LEMMA TellOwnTyped ==
    ASSUME Typed, TellOwn
    PROVE  /\ ServerTyped' /\ SentTyped' /\ Turn(Me) /\ ListSent(Me)
           /\ at[Me] = "ownTell" /\ at'[Me] \in {"joined", "nicks"}
           /\ \A d \in Clients \ {Me} : at'[d] = at[d]
  <1>1. ServerTyped
    BY DEF Typed
  <1>2. PICK to \in {"joined", "nicks"} :
            Go(Me, "ownTell", to) /\ (to = "joined" => nick[Me] # NoNick)
    BY DEF TellOwn, AfterMove
  <1>3. to \in Steps
    BY DEF Steps
  <1>4. /\ at[Me] = "ownTell" /\ at'[Me] = to
        /\ \A d \in Clients \ {Me} : at'[d] = at[d]
    BY <1>1, <1>2, <1>3, Gone, MeIsClient
  <1>5. Turn(Me) /\ ListSent(Me) /\ (Deliver(UsersMsg(Me)) \/ Drop)
    BY DEF TellOwn, Sent, NotSent, ListSent, Deliver, Drop
  <1>6. read' \in [Clients -> Reads]
    BY <1>1, <1>5, Turned, MeIsClient
  <1>7. UNCHANGED roomVars
    BY DEF TellOwn
  <1>8. ServerTyped' /\ SentTyped'
    BY <1>2, <1>3, <1>5, <1>6, <1>7, TellTyped, MeIsClient
  <1> QED
    BY <1>4, <1>5, <1>8

LEMMA TellUsersTyped ==
    ASSUME Typed, NEW c \in Clients, TellUsers(c)
    PROVE  /\ ServerTyped' /\ SentTyped'
           /\ Me \in members => Turn(c) /\ ListSent(c)
           /\ at[c] = "tell" /\ at'[c] = "idle" /\ read'[c] = NoList
           /\ \A d \in Clients \ {c} : at'[d] = at[d]
  <1>1. ServerTyped /\ "idle" \in Steps
    BY DEF Typed, Steps
  <1>2. Go(c, "tell", "idle") /\ UNCHANGED roomVars
    BY DEF TellUsers
  <1>3. /\ at[c] = "tell" /\ at'[c] = "idle"
        /\ \A d \in Clients \ {c} : at'[d] = at[d]
    BY <1>1, <1>2, Gone
  <1>4. CASE Me \in members
    <2>1. Turn(c) /\ ListSent(c) /\ (Deliver(UsersMsg(c)) \/ Drop)
      BY <1>4 DEF TellUsers, Sent, NotSent, ListSent, Deliver, Drop
    <2>2. read' \in [Clients -> Reads] /\ read'[c] = NoList
      BY <1>1, <2>1, Turned
    <2>3. ServerTyped' /\ SentTyped'
      BY <1>1, <1>2, <2>1, <2>2, TellTyped
    <2> QED
      BY <1>3, <2>1, <2>2, <2>3
  <1>5. CASE Me \notin members
    <2>1. read' = [read EXCEPT ![c] = NoList] /\ UNCHANGED <<down, budget, sentVars>>
      BY <1>5 DEF TellUsers
    <2>2. read' \in [Clients -> Reads] /\ read'[c] = NoList
      BY <1>1, <2>1, ReadNoted, NoListRead
    <2>3. ServerTyped' /\ SentTyped'
      BY <1>1, <1>2, <2>1, <2>2, TellTyped
    <2> QED
      BY <1>3, <1>5, <2>2, <2>3
  <1> QED
    BY <1>4, <1>5

LEMMA RenameTyped ==
    ASSUME PresenceAssumption, Typed, NEW c \in Clients, NEW n \in Nicks \ {Bot}, Rename(c, n)
    PROVE  /\ ServerTyped' /\ SentTyped'
           /\ nick' = [nick EXCEPT ![c] = n]
           /\ renamed' = renamed \cup ({nick[c], n} \ {NoNick})
           /\ \A d \in Clients :
                /\ read'[d].fresh = read[d].fresh /\ read'[d].overtaken = read[d].overtaken
                /\ read'[d].nicks = read[d].nicks /\ read'[d].number = read[d].number
                /\ read[d].renamed \subseteq read'[d].renamed
                /\ UnderWay(d) => {nick[c], n} \ {NoNick} \subseteq read'[d].renamed
           /\ UNCHANGED <<private, members, history, at, down, behind, pageVars>>
  <1> DEFINE changed == {nick[c], n} \ {NoNick}
  <1>1. ServerTyped /\ SentTyped
    BY DEF Typed
  <1>2. /\ nick' = [nick EXCEPT ![c] = n]
        /\ renamed' = renamed \cup changed
        /\ read' = [d \in Clients |-> IF UnderWay(d)
                                      THEN [read[d] EXCEPT !.renamed = @ \cup changed]
                                      ELSE read[d]]
        /\ UNCHANGED <<private, members, history, at, down, behind, pageVars>>
    BY DEF Rename
  <1>3. /\ nick' \in [Clients -> (Nicks \ {Bot}) \cup {NoNick}] /\ nick[c] \in Nicks \cup {NoNick}
        /\ changed \subseteq Nicks
    BY <1>1, <1>2 DEF ServerTyped
  <1> HIDE DEF changed
  <1>4. \A d \in Clients : at'[d] \in {"joined", "left"} => nick'[d] # NoNick
    <2>1. at[c] = "idle"
      BY DEF Rename
    <2> QED
      BY <1>1, <1>2, <2>1 DEF ServerTyped
  <1>5. budget' \in [Events -> Nat]
    BY <1>1, BudgetUsed DEF Rename, Events
  <1>6. ASSUME NEW d \in Clients
        PROVE  /\ read'[d] \in Reads
               /\ read'[d].fresh = read[d].fresh /\ read'[d].overtaken = read[d].overtaken
               /\ read'[d].nicks = read[d].nicks /\ read'[d].number = read[d].number
               /\ read[d].renamed \subseteq read'[d].renamed
               /\ UnderWay(d) => changed \subseteq read'[d].renamed
    <2>1. read[d] \in Reads
      BY <1>1 DEF ServerTyped
    <2>2. read[d].renamed \cup changed \in SUBSET Nicks
      BY <1>3, <2>1 DEF Reads
    <2>3. CASE UnderWay(d)
      <3>1. read'[d] = [read[d] EXCEPT !.renamed = read[d].renamed \cup changed]
        BY <1>2, <2>1, <2>3 DEF Reads
      <3>2. PICK r \in Reads, R \in SUBSET Nicks : r = read[d] /\ R = read[d].renamed \cup changed
        BY <2>1, <2>2
      <3>3. read'[d] = [r EXCEPT !.renamed = R]
        BY <3>1, <3>2
      <3> QED
        BY <2>3, <3>2, <3>3 DEF Reads
    <2>4. CASE ~UnderWay(d)
      BY <1>2, <2>1, <2>4
    <2> QED
      BY <2>3, <2>4
  <1>7. read' \in [Clients -> Reads]
    BY <1>2, <1>6
  <1>8. ServerTyped'
    BY <1>1, <1>2, <1>3, <1>4, <1>5, <1>7 DEF ServerTyped
  <1>9. SentTyped'
    BY <1>1, <1>2, <1>3 DEF SentTyped
  <1> QED
    BY <1>2, <1>6, <1>8, <1>9 DEF changed

LEMMA SpeakTyped ==
    ASSUME Typed, NEW n \in Nicks, Speak(n)
    PROVE  /\ ServerTyped' /\ SentTyped'
           /\ UNCHANGED <<members, nick, at, read, behind, renamed, pageVars>>
           /\ \/ down' = down
              \/ \E m \in Letters : m.op = "chat" /\ down' = Append(down, m)
  <1>1. ServerTyped /\ SentTyped
    BY DEF Typed
  <1>2. history' \in Seq(Nicks)
    BY <1>1, AppendProperties DEF Speak, ServerTyped
  <1>3. UNCHANGED <<private, members, nick, at, read, behind, renamed, pageVars>>
    BY DEF Speak, sentVars
  <1>4. budget' \in [Events -> Nat]
    BY <1>1, BudgetUsed DEF Speak, Events
  <1>5. [op |-> "chat", nick |-> n] \in Letters
    BY DEF Letters
  <1>6. \/ down' = down
        \/ \E m \in Letters : m.op = "chat" /\ down' = Append(down, m)
    BY <1>5 DEF Speak
  <1>7. down' \in Seq(Letters)
    BY <1>1, <1>6, LetterAppended DEF SentTyped
  <1>8. ServerTyped'
    BY <1>1, <1>2, <1>3, <1>4 DEF ServerTyped
  <1>9. SentTyped'
    BY <1>1, <1>3, <1>7 DEF SentTyped
  <1> QED
    BY <1>3, <1>6, <1>8, <1>9

\* The page leaves the server and what it has noted alone.
LEMMA PageLeavesServer ==
    ASSUME Typed, pageFrame, down' = down \/ (down # <<>> /\ down' = Tail(down))
    PROVE  ServerTyped' /\ SentTyped'
  <1>1. ServerTyped /\ SentTyped
    BY DEF Typed
  <1>2. UNCHANGED <<private, members, nick, history, at, read, budget, behind, renamed>>
    BY DEF pageFrame, roomVars, sentVars
  <1>3. down' \in Seq(Letters)
    BY <1>1, HeadTaken DEF SentTyped
  <1> QED
    BY <1>1, <1>2, <1>3 DEF ServerTyped, SentTyped

LEMMA Relabelled ==
    ASSUME PageTyped, nicks' \in FiniteNicks, count' \in Nat \cup {-1}, active' = active, Relabel
    PROVE  label' \in Nat /\ LabelIsCount'
  <1>1. Cardinality(nicks') \in Nat
    BY CountOfNicks
  <1> QED
    BY <1>1 DEF Relabel, MemberCount, PageTyped, LabelIsCount

Renderings == [on : BOOLEAN, shared : BOOLEAN, set : FiniteNicks, left : Seq(Nicks)]

LEMMA PastTyped ==
    ASSUME PageTyped
    PROVE  /\ Detached \in Renderings /\ (Detached.on => Detached.left # <<>>)
           /\ NoPast \in Renderings /\ ~NoPast.on
  <1>1. past \in Renderings /\ (past.on => past.left # <<>>) /\ nicks \in FiniteNicks
    BY DEF PageTyped, Renderings
  <1>2. /\ [past EXCEPT !.shared = FALSE, !.set = nicks] \in Renderings
        /\ [past EXCEPT !.shared = FALSE, !.set = nicks].on = past.on
        /\ [past EXCEPT !.shared = FALSE, !.set = nicks].left = past.left
    BY <1>1 DEF Renderings
  <1>3. NoPast \in Renderings /\ ~NoPast.on
    BY NoNicks DEF NoPast, Renderings
  <1> QED
    BY <1>1, <1>2, <1>3 DEF Detached

LEMMA TrackTyped ==
    ASSUME PageTyped, NEW n \in Nicks, Track(n), active' = active
    PROVE  /\ known' \in BOOLEAN /\ nicks' \in FiniteNicks /\ count' \in Nat \cup {-1}
           /\ label' \in Nat /\ guessed' \in BOOLEAN /\ spoke' \subseteq Nicks
           /\ LabelIsCount'
  <1>1. nicks' \in FiniteNicks
    BY OneNickMore DEF Track, PageTyped
  <1>2. Cardinality(nicks') \in Nat
    BY <1>1, CountOfNicks
  <1>3. count' \in Nat \cup {-1}
    BY <1>2 DEF Track, PageTyped
  <1>4. label' \in Nat /\ LabelIsCount'
    BY <1>1, <1>3, Relabelled DEF Track
  <1>5. known' \in BOOLEAN /\ guessed' \in BOOLEAN /\ spoke' \subseteq Nicks
    BY DEF Track, PageTyped
  <1> QED
    BY <1>1, <1>3, <1>4, <1>5

\* The head of the queue, as a handler takes it.
LEMMA Handled ==
    ASSUME Typed, NEW op, Handle(op)
    PROVE  /\ down # <<>> /\ down' = Tail(down) /\ down \in Seq(Letters)
           /\ Head(down) \in Letters /\ Head(down).op = op
  BY HeadTaken DEF Handle, Typed, SentTyped

LEMMA UsersListTyped ==
    ASSUME Typed, LabelIsCount, room_users
    PROVE  PageTyped' /\ LabelIsCount'
  <1> DEFINE m == Head(down)
  <1>1. PageTyped /\ m \in Letters /\ m.op = "room_users"
    BY Handled DEF Typed, room_users
  <1> HIDE DEF m
  <1>2. m.nicks \in FiniteNicks /\ m.number \in Nat
    BY <1>1, LetterHolds
  <1>3. CASE m.nicks = {}
    BY <1>1, <1>3 DEF m, room_users, pageVars, madeUp, PageTyped, LabelIsCount
  <1>4. CASE m.nicks # {}
    <2>1. refreshRoomPresence(m.nicks, m.number)
      BY <1>4 DEF m, room_users
    <2>2. nicks' = m.nicks /\ count' = m.number /\ active' = active /\ Relabel /\ past' = Detached
      BY <2>1 DEF refreshRoomPresence, PresenceFrame
    <2>3. label' \in Nat /\ LabelIsCount'
      BY <1>1, <1>2, <2>2, Relabelled
    <2>4. past' \in Renderings /\ (past'.on => past'.left # <<>>)
      BY <1>1, <2>2, PastTyped
    <2>5. /\ known' \in BOOLEAN /\ active' \in BOOLEAN /\ guessed' \in BOOLEAN
          /\ putBack' \in BOOLEAN /\ spoke' \subseteq Nicks /\ lines' \in Seq(Nicks)
      BY <1>1, <2>1 DEF refreshRoomPresence, PresenceFrame, PageTyped
    <2> QED
      BY <1>2, <2>2, <2>3, <2>4, <2>5 DEF PageTyped, Renderings
  <1> QED
    BY <1>3, <1>4

LEMMA RoomListTyped ==
    ASSUME Typed, room_list
    PROVE  PageTyped' /\ LabelIsCount'
  <1>1. PageTyped /\ Head(down) \in Letters /\ Head(down).op = "room_list"
    BY Handled DEF Typed, room_list
  <1>2. Head(down).number \in Nat
    BY <1>1, LetterHolds
  <1>3. count' \in Nat \cup {-1} /\ nicks' \in FiniteNicks /\ active' = active /\ Relabel
    BY <1>1, <1>2 DEF room_list, PageTyped
  <1>4. label' \in Nat /\ LabelIsCount'
    BY <1>1, <1>3, Relabelled
  <1> QED
    BY <1>1, <1>3, <1>4 DEF PageTyped, room_list

\* A line that somebody has joined or left.
LEMMA NewsTyped ==
    ASSUME Typed, system_joined \/ system_left
    PROVE  PageTyped' /\ LabelIsCount'
  <1>1. PICK op \in {"joined", "left"} : Handle(op)
    BY DEF system_joined, system_left
  <1>2. PageTyped /\ Head(down).nick \in Nicks
    BY <1>1, Handled, LetterHolds DEF Typed
  <1>3. nicks' \in FiniteNicks
    <2>1. CASE system_joined
      BY <1>2, <2>1, OneNickMore DEF system_joined, PageTyped
    <2>2. CASE system_left
      <3>1. nicks' = nicks \/ \E n \in nicks : nicks' = nicks \ {n}
        BY <2>2 DEF system_left
      <3>2. nicks \in FiniteNicks /\ nicks \subseteq Nicks
        BY <1>2 DEF PageTyped, FiniteNicks
      <3> QED
        BY <3>1, <3>2, OneNickMore
    <2> QED
      BY <2>1, <2>2
  <1>4. count' \in Nat \cup {-1} /\ active' = active /\ Relabel
    <2>1. Cardinality(nicks') \in Nat
      BY <1>3, CountOfNicks
    <2> QED
      BY <2>1 DEF system_joined, system_left
  <1>5. label' \in Nat /\ LabelIsCount'
    BY <1>2, <1>3, <1>4, Relabelled
  <1>6. known' = TRUE /\ guessed' = TRUE /\ UNCHANGED <<active, past, lines, spoke, putBack>>
    BY DEF system_joined, system_left
  <1> QED
    BY <1>2, <1>3, <1>4, <1>5, <1>6 DEF PageTyped

LEMMA ChatTyped ==
    ASSUME Typed, LabelIsCount, chat
    PROVE  PageTyped' /\ LabelIsCount'
  <1> DEFINE n == Head(down).nick
  <1>1. PageTyped /\ n \in Nicks
    BY Handled, LetterHolds DEF Typed, chat
  <1>2. /\ UNCHANGED <<active, past, putBack>>
        /\ \/ UNCHANGED <<known, nicks, count, label, guessed, spoke>>
              /\ (lines' = lines \/ lines' = Append(lines, n))
           \/ Track(n) /\ UNCHANGED lines
    BY DEF chat, decryptText
  <1> HIDE DEF n
  <1>3. lines' \in Seq(Nicks)
    <2>1. lines \in Seq(Nicks)
      BY <1>1 DEF PageTyped
    <2>2. Append(lines, n) \in Seq(Nicks)
      BY <1>1, <2>1, AppendProperties
    <2> QED
      BY <1>2, <2>1, <2>2
  <1>4. CASE UNCHANGED <<known, nicks, count, label, guessed, spoke>>
    BY <1>1, <1>2, <1>3, <1>4 DEF PageTyped, LabelIsCount
  <1>5. CASE Track(n)
    <2>1. /\ known' \in BOOLEAN /\ nicks' \in FiniteNicks /\ count' \in Nat \cup {-1}
          /\ label' \in Nat /\ guessed' \in BOOLEAN /\ spoke' \subseteq Nicks
          /\ LabelIsCount'
      BY <1>1, <1>2, <1>5, TrackTyped
    <2> QED
      BY <1>1, <1>2, <1>3, <2>1 DEF PageTyped
  <1> QED
    BY <1>2, <1>4, <1>5

\* A line that is taken out from among those that wait.
LEMMA LineTaken ==
    ASSUME NEW s \in Seq(Nicks), NEW i \in DOMAIN s
    PROVE  RemoveAt(s, i) \in Seq(Nicks) /\ s[i] \in Nicks
  <1>1. DOMAIN s = 1 .. Len(s) /\ Len(s) \in Nat /\ \A j \in 1 .. Len(s) : s[j] \in Nicks
    BY LenProperties
  <1>2. SubSeq(s, 1, i - 1) \in Seq(Nicks) /\ SubSeq(s, i + 1, Len(s)) \in Seq(Nicks)
    <2>1. i \in Int /\ 1 <= i /\ i <= Len(s) /\ Len(s) \in Int
      BY <1>1
    <2>2. \A j \in 1 .. i - 1 : s[j] \in Nicks
      BY <1>1, <2>1
    <2>3. \A j \in i + 1 .. Len(s) : s[j] \in Nicks
      BY <1>1, <2>1
    <2>4. i - 1 \in Int /\ i + 1 \in Int
      BY <2>1
    <2> QED
      BY <2>1, <2>2, <2>3, <2>4, SubSeqProperties
  <1>3. RemoveAt(s, i) \in Seq(Nicks)
    BY <1>2, ConcatProperties DEF RemoveAt
  <1> QED
    BY <1>1, <1>3

LEMMA LineDecryptedTyped ==
    ASSUME Typed, LabelIsCount, NEW i \in DOMAIN lines, LineDecrypted(i)
    PROVE  PageTyped' /\ LabelIsCount'
  <1>1. PageTyped /\ lines[i] \in Nicks /\ RemoveAt(lines, i) \in Seq(Nicks)
    BY LineTaken DEF Typed, PageTyped
  <1>2. /\ UNCHANGED <<active, past, putBack>> /\ lines' = RemoveAt(lines, i)
        /\ \/ UNCHANGED <<known, nicks, count, label, guessed, spoke>>
           \/ Track(lines[i])
    BY DEF LineDecrypted
  <1>3. CASE UNCHANGED <<known, nicks, count, label, guessed, spoke>>
    BY <1>1, <1>2, <1>3 DEF PageTyped, LabelIsCount
  <1>4. CASE Track(lines[i])
    <2>1. /\ known' \in BOOLEAN /\ nicks' \in FiniteNicks /\ count' \in Nat \cup {-1}
          /\ label' \in Nat /\ guessed' \in BOOLEAN /\ spoke' \subseteq Nicks
          /\ LabelIsCount'
      BY <1>1, <1>2, <1>4, TrackTyped
    <2> QED
      BY <1>1, <1>2, <2>1 DEF PageTyped
  <1> QED
    BY <1>2, <1>3, <1>4

\* A sequence that is not empty, and what is left of it.
LEMMA NickTaken ==
    ASSUME NEW s \in Seq(Nicks), s # <<>>
    PROVE  Head(s) \in Nicks /\ s[1] \in Nicks /\ Tail(s) \in Seq(Nicks)
  <1>1. Len(s) \in Nat \ {0} /\ \A j \in 1 .. Len(s) : s[j] \in Nicks
    BY EmptySeq, LenProperties
  <1> QED
    BY <1>1, HeadTailProperties

LEMMA HistoryBeginTyped ==
    ASSUME Typed, LabelIsCount, history_begin
    PROVE  PageTyped' /\ LabelIsCount'
  <1> DEFINE h == Head(down).nicks
             p == [on |-> TRUE, shared |-> known, left |-> h,
                   set |-> IF known THEN {} ELSE {h[1]}]
  <1>1. PageTyped /\ h \in Seq(Nicks) /\ h # <<>>
    BY Handled, LetterHolds DEF Typed, history_begin
  <1>2. h[1] \in Nicks
    BY <1>1, NickTaken
  <1>3. {h[1]} \in FiniteNicks /\ nicks \cup {h[1]} \in FiniteNicks
    <2>1. {} \cup {h[1]} = {h[1]}
      OBVIOUS
    <2> QED
      BY <1>1, <1>2, <2>1, NoNicks, OneNickMore DEF PageTyped
  <1>4. /\ past' = p /\ nicks' = IF known THEN nicks \cup {h[1]} ELSE nicks
        /\ spoke' = spoke \cup (nicks' \ nicks)
        /\ UNCHANGED <<known, count, label, active, lines, guessed, putBack>>
    BY DEF history_begin
  <1> HIDE DEF h
  <1>5. nicks' \in FiniteNicks
    BY <1>1, <1>3, <1>4 DEF PageTyped
  <1>6. p \in Renderings /\ p.on /\ p.left = h
    BY <1>1, <1>3, NoNicks DEF PageTyped, Renderings
  <1>7. spoke' \subseteq Nicks
    BY <1>1, <1>4, <1>5 DEF PageTyped, FiniteNicks
  <1> HIDE DEF p
  <1>8. past' \in Renderings /\ (past'.on => past'.left # <<>>)
    BY <1>1, <1>4, <1>6
  <1> QED
    BY <1>1, <1>4, <1>5, <1>7, <1>8 DEF PageTyped, Renderings, LabelIsCount

\* One line of the history: what the page makes of it, shown or not.
LEMMA HistoryLineTyped ==
    ASSUME Typed, history_line
    PROVE  /\ PageTyped' /\ LabelIsCount'
           /\ active' = active
           /\ ~guessed' => ~guessed /\ count' = count
           /\ spoke' = spoke \cup (nicks' \ nicks)
           /\ ~putBack' => ~putBack /\ nicks \subseteq nicks'
  <1>1. /\ past \in Renderings /\ past.on /\ past.left # <<>> /\ PageTyped
    BY DEF Typed, PageTyped, Renderings, history_line
  <1>2. Head(past.left) \in Nicks /\ Tail(past.left) \in Seq(Nicks)
    BY <1>1, NickTaken DEF Renderings
  <1> DEFINE rest == Tail(past.left)
  <1>3. PICK shown \in BOOLEAN :
          LET seen    == IF shown THEN nicks \cup {Head(past.left)} ELSE nicks
              counted == IF shown /\ active THEN Cardinality(seen) ELSE count
          IN
          /\ IF rest # <<>>
             THEN /\ past' = [past EXCEPT !.left = rest,
                                  !.set = IF past.shared THEN @ ELSE @ \cup {rest[1]}]
                  /\ nicks' = IF past.shared THEN seen \cup {rest[1]} ELSE seen
                  /\ known' = (known \/ shown)
                  /\ count' = counted
                  /\ UNCHANGED putBack
             ELSE /\ past' = NoPast
                  /\ nicks' = IF past.shared THEN seen ELSE past.set
                  /\ known' = TRUE
                  /\ count' = IF active /\ counted \in {-1, 0} THEN Cardinality(nicks')
                              ELSE counted
                  /\ putBack' = (putBack \/ ~past.shared)
          /\ guessed' = (guessed \/ (active /\ (shown \/ count' # count)))
    BY DEF history_line
  <1> DEFINE seen    == IF shown THEN nicks \cup {Head(past.left)} ELSE nicks
             counted == IF shown /\ active THEN Cardinality(seen) ELSE count
  <1>4. /\ label' = (IF active /\ count' # -1 THEN count' ELSE label)
        /\ spoke' = spoke \cup (nicks' \ nicks) /\ UNCHANGED <<active, lines, down>>
    BY DEF history_line
  <1>5. seen \in FiniteNicks /\ nicks \subseteq seen
    BY <1>1, <1>2, OneNickMore DEF PageTyped
  <1>6. counted \in Nat \cup {-1}
    <2>1. Cardinality(seen) \in Nat
      BY <1>5, CountOfNicks
    <2> HIDE DEF seen
    <2> QED
      BY <1>1, <2>1 DEF PageTyped
  <1>7. ~(shown /\ active) => counted = count
    OBVIOUS
  <1>8. /\ guessed' = (guessed \/ (active /\ (shown \/ count' # count)))
        /\ rest # <<>> =>
             /\ past' = [past EXCEPT !.left = rest,
                             !.set = IF past.shared THEN @ ELSE @ \cup {rest[1]}]
             /\ nicks' = (IF past.shared THEN seen \cup {rest[1]} ELSE seen)
             /\ known' = (known \/ shown) /\ count' = counted /\ putBack' = putBack
        /\ rest = <<>> =>
             /\ past' = NoPast /\ nicks' = (IF past.shared THEN seen ELSE past.set)
             /\ known' = TRUE
             /\ count' = (IF active /\ counted \in {-1, 0} THEN Cardinality(nicks') ELSE counted)
             /\ putBack' = (putBack \/ ~past.shared)
    BY <1>3
  <1> HIDE DEF seen, counted, rest
  <1>9. rest \in Seq(Nicks) /\ (rest # <<>> => rest[1] \in Nicks)
    BY <1>2, NickTaken DEF rest
  <1>10. /\ nicks' \in FiniteNicks /\ past' \in Renderings
         /\ past'.on => past'.left # <<>>
         /\ ~putBack' => ~putBack /\ nicks \subseteq nicks'
         /\ known' \in BOOLEAN /\ putBack' \in BOOLEAN
    <2>1. past.set \in FiniteNicks /\ known \in BOOLEAN /\ putBack \in BOOLEAN
      BY <1>1 DEF Renderings, PageTyped
    <2>2. CASE rest # <<>>
      <3>1. seen \cup {rest[1]} \in FiniteNicks /\ past.set \cup {rest[1]} \in FiniteNicks
        BY <1>5, <1>9, <2>1, <2>2, OneNickMore
      <3>2. PICK t \in FiniteNicks : past' = [past EXCEPT !.left = rest, !.set = t]
        BY <1>8, <2>1, <2>2, <3>1
      <3>3. past' \in Renderings /\ past'.left = rest
        BY <1>1, <1>9, <3>2 DEF Renderings
      <3>4. /\ nicks' = (IF past.shared THEN seen \cup {rest[1]} ELSE seen)
            /\ known' = (known \/ shown) /\ putBack' = putBack
        BY <1>8, <2>2
      <3> QED
        BY <1>5, <2>1, <2>2, <3>1, <3>3, <3>4
    <2>3. CASE rest = <<>>
      <3>1. /\ past' = NoPast /\ nicks' = (IF past.shared THEN seen ELSE past.set)
            /\ known' = TRUE /\ putBack' = (putBack \/ ~past.shared)
        BY <1>8, <2>3
      <3>2. NoPast \in Renderings /\ ~NoPast.on
        BY <1>1, PastTyped
      <3> QED
        BY <1>5, <2>1, <3>1, <3>2
    <2> QED
      BY <2>2, <2>3
  <1>11. count' \in Nat \cup {-1} /\ label' \in Nat
    <2>1. Cardinality(nicks') \in Nat
      BY <1>10, CountOfNicks
    <2>2. count' = counted \/ count' = Cardinality(nicks')
      BY <1>8
    <2>3. count' \in Nat \cup {-1}
      BY <1>6, <2>1, <2>2
    <2> QED
      BY <1>1, <1>4, <2>3 DEF PageTyped
  <1>12. LabelIsCount'
    BY <1>4 DEF LabelIsCount
  <1>13. ~guessed' => ~guessed /\ count' = count
    BY <1>7, <1>8
  <1>14. spoke' \subseteq Nicks /\ guessed' \in BOOLEAN
    BY <1>1, <1>4, <1>8, <1>10 DEF PageTyped, FiniteNicks
  <1>15. active' \in BOOLEAN /\ lines' \in Seq(Nicks)
    BY <1>1, <1>4 DEF PageTyped
  <1>16. PageTyped'
    BY <1>10, <1>11, <1>14, <1>15 DEF PageTyped, Renderings
  <1> QED
    BY <1>4, <1>10, <1>12, <1>13, <1>16

LEMMA SwitchTyped ==
    ASSUME Typed, LabelIsCount, Switch
    PROVE  Typed' /\ LabelIsCount'
  <1>1. ServerTyped /\ SentTyped /\ PageTyped
    BY DEF Typed
  <1>2. /\ active' = ~active /\ label' = IF active THEN label ELSE MemberCount(nicks, count)
        /\ UNCHANGED <<known, nicks, count, past, lines, madeUp, down, roomVars, at, read, sentVars>>
    BY DEF Switch
  <1>3. budget' \in [Events -> Nat]
    BY <1>1, BudgetUsed DEF Switch, Events
  <1>4. Cardinality(nicks) \in Nat
    BY <1>1, CountOfNicks DEF PageTyped
  <1>5. label' \in Nat /\ active' \in BOOLEAN /\ LabelIsCount'
    BY <1>1, <1>2, <1>4 DEF PageTyped, MemberCount, LabelIsCount
  <1>6. PageTyped'
    BY <1>1, <1>2, <1>5 DEF PageTyped, madeUp
  <1>7. ServerTyped' /\ SentTyped'
    BY <1>1, <1>2, <1>3 DEF ServerTyped, SentTyped, roomVars, sentVars
  <1> QED
    BY <1>5, <1>6, <1>7 DEF Typed

-----------------------------------------------------------------------------
(* The readers *)

AllOwed == \A part \in Parts : SomeoneOwes(part)

LEMMA MoveReaders ==
    ASSUME PresenceAssumption, Typed, NEW c \in Clients, Join(c) \/ Part(c)
    PROVE  AllOwed' /\ FreshIsRight' /\ ListsAge'
  <1>1. ServerTyped
    BY DEF Typed
  <1>2. PICK to \in {"history", "joined", "left", "nicks"} : Go(c, "idle", to)
    BY DEF Join, Part, AfterMove
  <1>3. to \in Steps
    BY DEF Steps
  <1>4. at'[c] = to
    BY <1>1, <1>2, <1>3, Gone
  <1>5. AllOwed'
    BY <1>4 DEF AllOwed, SomeoneOwes, Owes
  <1>6. \A d \in Clients : read'[d].fresh = {}
    BY <1>1, AllAged DEF Join, Part
  <1> QED
    BY <1>5, <1>6 DEF FreshIsRight, ListsAge, AllOwed

LEMMA NicksAsTheyWere ==
    ASSUME UNCHANGED <<members, nick>>
    PROVE  NamedNicks(members)' = NamedNicks(members)
  BY DEF NamedNicks

LEMMA AnnounceReaders ==
    ASSUME Typed, FreshIsRight, NEW c \in Clients, Announce(c) \/ (SendHistory /\ c = Me)
    PROVE  AllOwed' /\ FreshIsRight' /\ ListsAge'
  <1>1. ServerTyped
    BY DEF Typed
  <1>2. PICK from \in {"history", "joined", "left"}, to \in {"ownNicks", "nicks"} : Go(c, from, to)
    BY DEF Announce, SendHistory
  <1>3. to \in Steps
    BY DEF Steps
  <1>4. at'[c] = to /\ \A d \in Clients \ {c} : at'[d] = at[d]
    BY <1>1, <1>2, <1>3, Gone
  <1>5. UNCHANGED <<members, nick, read, renamed>>
    BY DEF Announce, SendHistory, roomVars, sentVars
  <1>6. AllOwed'
    BY <1>4 DEF AllOwed, SomeoneOwes, Owes
  <1>7. FreshIsRight'
    BY <1>4, <1>5, NicksAsTheyWere DEF FreshIsRight, Holding
  <1> QED
    BY <1>6, <1>7 DEF ListsAge, AllOwed

LEMMA ReadNicksReaders ==
    ASSUME Typed, FreshIsRight, NEW c \in Clients, ReadNicks(c)
    PROVE  AllOwed' /\ FreshIsRight' /\ ListsAge'
  <1>1. /\ read'[c].fresh = {"nicks"} /\ read'[c].nicks = NamedNicks(members)
        /\ at'[c] \in {"number", "ownNumber"}
        /\ \A d \in Clients \ {c} : at'[d] = at[d] /\ read'[d] = read[d]
    BY ReadNicksTyped
  <1>2. UNCHANGED <<members, nick, renamed>>
    BY DEF ReadNicks, roomVars, sentVars
  <1>3. NamedNicks(members)' = NamedNicks(members)
    BY <1>2, NicksAsTheyWere
  <1>4. AllOwed'
    BY <1>1 DEF AllOwed, SomeoneOwes, Owes, Holding, Parts
  <1>5. ASSUME NEW d \in Clients
        PROVE  /\ Holding(d, "nicks")' /\ "nicks" \in read'[d].fresh =>
                    Alike(read'[d].nicks, NamedNicks(members)', read'[d].renamed)
               /\ Holding(d, "number")' /\ "number" \in read'[d].fresh =>
                    read'[d].number = Cardinality(members')
    <2>1. CASE d = c
      BY <1>1, <1>3, <2>1 DEF Alike
    <2>2. CASE d # c
      <3>1. at'[d] = at[d] /\ read'[d] = read[d]
        BY <1>1, <2>2
      <3> QED
        BY <1>2, <1>3, <3>1 DEF FreshIsRight, Holding
    <2> QED
      BY <2>1, <2>2
  <1>6. FreshIsRight'
    BY <1>5 DEF FreshIsRight
  <1> QED
    BY <1>4, <1>6 DEF ListsAge, AllOwed

\* The number is read after the nicks, which may be old by then.
LEMMA ReadNumberReaders ==
    ASSUME Typed, FreshIsRight, ListsAge, NEW c \in Clients, ReadNumber(c)
    PROVE  /\ SomeoneOwes("number")' /\ (SomeoneOwes("nicks") => SomeoneOwes("nicks")')
           /\ FreshIsRight' /\ ListsAge'
  <1>1. /\ \/ at[c] = "number" /\ at'[c] = "tell"
           \/ at[c] = "ownNumber" /\ at'[c] = "ownTell"
        /\ read'[c].fresh = read[c].fresh \cup {"number"}
        /\ read'[c].number = Cardinality(members)
        /\ read'[c].nicks = read[c].nicks /\ read'[c].renamed = read[c].renamed
        /\ "nicks" \in read[c].overtaken => "nicks" \in read'[c].overtaken
        /\ \A d \in Clients \ {c} : at'[d] = at[d] /\ read'[d] = read[d]
    BY ReadNumberTyped
  <1>2. UNCHANGED <<members, nick>>
    BY DEF ReadNumber, roomVars
  <1>3. NamedNicks(members)' = NamedNicks(members)
    BY <1>2, NicksAsTheyWere
  <1>4. SomeoneOwes("number")'
    <2>1. Owes(c, "number")'
      BY <1>1 DEF Owes, Holding
    <2> QED
      BY <2>1 DEF SomeoneOwes
  <1>5. ASSUME SomeoneOwes("nicks")
        PROVE  SomeoneOwes("nicks")'
    <2>1. PICK d \in Clients : Owes(d, "nicks")
      BY <1>5 DEF SomeoneOwes
    <2>2. CASE d = c
      <3>1. Owes(c, "nicks")'
        BY <1>1, <2>1, <2>2 DEF Owes, Holding
      <3> QED
        BY <3>1 DEF SomeoneOwes
    <2>3. CASE d # c
      <3>1. at'[d] = at[d] /\ read'[d] = read[d]
        BY <1>1, <2>3
      <3>2. Owes(d, "nicks")'
        BY <2>1, <3>1 DEF Owes, Holding
      <3> QED
        BY <3>2 DEF SomeoneOwes
    <2> QED
      BY <2>2, <2>3
  <1>6. ASSUME NEW d \in Clients
        PROVE  /\ Holding(d, "nicks")' /\ "nicks" \in read'[d].fresh =>
                    Alike(read'[d].nicks, NamedNicks(members)', read'[d].renamed)
               /\ Holding(d, "number")' /\ "number" \in read'[d].fresh =>
                    read'[d].number = Cardinality(members')
    <2>1. CASE d = c
      BY <1>1, <1>2, <1>3, <2>1 DEF FreshIsRight, Holding
    <2>2. CASE d # c
      <3>1. at'[d] = at[d] /\ read'[d] = read[d]
        BY <1>1, <2>2
      <3> QED
        BY <1>2, <1>3, <3>1 DEF FreshIsRight, Holding
    <2> QED
      BY <2>1, <2>2
  <1>7. FreshIsRight'
    BY <1>6 DEF FreshIsRight
  <1>8. ASSUME Me \in members', NEW d \in Clients, Holding(d, "nicks")'
        PROVE  "nicks" \in read'[d].fresh \cup read'[d].overtaken \/ SomeoneOwes("nicks")'
    <2>1. Holding(d, "nicks")
      BY <1>1, <1>8 DEF Holding
    <2>2. "nicks" \in read[d].fresh \cup read[d].overtaken \/ SomeoneOwes("nicks")
      BY <1>2, <1>8, <2>1 DEF ListsAge, Parts
    <2> QED
      BY <1>1, <1>5, <2>2
  <1>9. ListsAge'
    BY <1>4, <1>8 DEF ListsAge, Parts
  <1> QED
    BY <1>4, <1>5, <1>7, <1>9

LEMMA TellOwnReaders ==
    ASSUME Typed, FreshIsRight, TellOwn
    PROVE  AllOwed' /\ FreshIsRight' /\ ListsAge'
  <1>1. /\ ServerTyped /\ Turn(Me) /\ at'[Me] \in {"joined", "nicks"}
        /\ \A d \in Clients \ {Me} : at'[d] = at[d]
    BY TellOwnTyped DEF Typed
  <1>2. \A d \in Clients \ {Me} :
            /\ read'[d].fresh = read[d].fresh /\ read'[d].renamed = read[d].renamed
            /\ read'[d].nicks = read[d].nicks /\ read'[d].number = read[d].number
    BY <1>1, Turned, MeIsClient
  <1>3. UNCHANGED <<members, nick>>
    BY DEF TellOwn, roomVars
  <1>4. AllOwed'
    BY <1>1, MeIsClient DEF AllOwed, SomeoneOwes, Owes
  <1>5. FreshIsRight'
    BY <1>1, <1>2, <1>3, NicksAsTheyWere DEF FreshIsRight, Holding
  <1> QED
    BY <1>4, <1>5 DEF ListsAge, AllOwed

\* The page's reader reads the list of rooms, or tells it: it owes nothing
\* before and after.
LEMMA ListReaders ==
    ASSUME Typed, FreshIsRight, ListsAge, ReadList \/ TellList
    PROVE  /\ \A part : SomeoneOwes(part) => SomeoneOwes(part)'
           /\ FreshIsRight' /\ ListsAge'
  <1>1. /\ at[Me] \in {"idle", "list"} /\ at'[Me] \in {"idle", "list"}
        /\ at'[Me] = "list" => read'[Me].fresh = {"number"} /\ read'[Me].number = Cardinality(members)
        /\ \A d \in Clients \ {Me} : at'[d] = at[d] /\ read'[d] = read[d]
    BY ReadListTyped, TellListTyped
  <1>2. UNCHANGED <<members, nick>>
    BY DEF ReadList, TellList, roomVars
  <1>3. ASSUME NEW part, SomeoneOwes(part)
        PROVE  SomeoneOwes(part)'
    <2>1. PICK d \in Clients : Owes(d, part)
      BY <1>3 DEF SomeoneOwes
    <2>2. d # Me
      BY <1>1, <2>1 DEF Owes
    <2>3. at'[d] = at[d] /\ read'[d] = read[d]
      BY <1>1, <2>2
    <2>4. Owes(d, part)'
      BY <2>1, <2>3 DEF Owes, Holding
    <2> QED
      BY <2>4 DEF SomeoneOwes
  <1>4. FreshIsRight'
    BY <1>1, <1>2, NicksAsTheyWere DEF FreshIsRight, Holding
  <1>5. ASSUME Me \in members', NEW d \in Clients, NEW part \in Parts, Holding(d, part)'
        PROVE  part \in read'[d].fresh \cup read'[d].overtaken \/ SomeoneOwes(part)'
    <2>1. CASE d = Me
      BY <1>1, <1>5, <2>1 DEF Holding
    <2>2. CASE d # Me
      <3>1. at'[d] = at[d] /\ read'[d] = read[d]
        BY <1>1, <2>2
      <3>2. Holding(d, part)
        BY <1>5, <3>1 DEF Holding
      <3> QED
        BY <1>2, <1>3, <1>5, <3>1, <3>2 DEF ListsAge
    <2> QED
      BY <2>1, <2>2
  <1>6. ListsAge'
    BY <1>5 DEF ListsAge
  <1> QED
    BY <1>3, <1>4, <1>6

\* A reader tells the nicks: it owed them unless somebody else owes a list.
LEMMA TellUsersReaders ==
    ASSUME Typed, FreshIsRight, ListsAge, NEW c \in Clients, TellUsers(c)
    PROVE  /\ FreshIsRight' /\ ListsAge'
           /\ Me \in members /\ ~SomeoneOwes("nicks")' /\ "nicks" \notin read[c].overtaken =>
                Alike(read[c].nicks, NamedNicks(members), read[c].renamed)
           /\ Me \in members /\ ~SomeoneOwes("number")' /\ "number" \notin read[c].overtaken =>
                read[c].number = Cardinality(members)
  <1>1. /\ ServerTyped /\ at[c] = "tell" /\ at'[c] = "idle"
        /\ Me \in members => Turn(c)
        /\ \A d \in Clients \ {c} : at'[d] = at[d]
    BY TellUsersTyped DEF Typed
  <1>2. UNCHANGED <<members, nick>>
    BY DEF TellUsers, roomVars
  <1>3. \A d \in Clients \ {c} :
            /\ read'[d].fresh = read[d].fresh /\ read'[d].renamed = read[d].renamed
            /\ read'[d].nicks = read[d].nicks /\ read'[d].number = read[d].number
    <2>1. CASE Me \in members
      BY <1>1, <2>1, Turned
    <2>2. CASE Me \notin members
      <3>1. read' = [read EXCEPT ![c] = NoList]
        BY <2>2 DEF TellUsers
      <3> QED
        BY <1>1, <3>1, ReadNoted, NoListRead
    <2> QED
      BY <2>1, <2>2
  <1>4. FreshIsRight'
    BY <1>1, <1>2, <1>3, NicksAsTheyWere DEF FreshIsRight, Holding
  <1>5. ASSUME NEW part, NEW e \in Clients, Owes(e, part), e # c
        PROVE  SomeoneOwes(part)'
    <2>1. at'[e] = at[e] /\ read'[e].fresh = read[e].fresh
      BY <1>1, <1>3, <1>5
    <2>2. Owes(e, part)'
      BY <1>5, <2>1 DEF Owes, Holding
    <2> QED
      BY <2>2 DEF SomeoneOwes
  <1>6. ASSUME Me \in members', NEW d \in Clients, NEW part \in Parts, Holding(d, part)'
        PROVE  part \in read'[d].fresh \cup read'[d].overtaken \/ SomeoneOwes(part)'
    <2>1. d # c
      BY <1>1, <1>6 DEF Holding
    <2>2. Me \in members /\ Holding(d, part) /\ UnderWay(d)
      BY <1>1, <1>2, <1>6, <2>1 DEF Holding, UnderWay
    <2>3. /\ read[d].overtaken \subseteq read'[d].overtaken /\ read'[d].fresh = read[d].fresh
          /\ read[c].fresh \ read[d].fresh \subseteq read'[d].overtaken
      BY <1>1, <1>3, <2>1, <2>2, Turned
    <2>4. part \in read[d].fresh \cup read[d].overtaken \/ SomeoneOwes(part)
      BY <2>2 DEF ListsAge
    <2>5. ASSUME NEW e \in Clients, Owes(e, part)
          PROVE  part \in read'[d].fresh \cup read'[d].overtaken \/ SomeoneOwes(part)'
      <3>1. CASE e = c
        <4>1. part \in read[c].fresh
          BY <1>1, <2>5, <3>1 DEF Owes
        <4> QED
          BY <2>3, <4>1
      <3>2. CASE e # c
        BY <1>5, <2>5, <3>2
      <3> QED
        BY <3>1, <3>2
    <2> QED
      BY <2>3, <2>4, <2>5 DEF SomeoneOwes
  <1>7. ListsAge'
    BY <1>6 DEF ListsAge
  <1>8. ASSUME Me \in members, NEW part \in Parts, ~SomeoneOwes(part)', part \notin read[c].overtaken
        PROVE  part \in read[c].fresh /\ Holding(c, part)
    <2>1. Holding(c, part)
      BY <1>1 DEF Holding
    <2>2. part \in read[c].fresh \/ SomeoneOwes(part)
      BY <1>8, <2>1 DEF ListsAge
    <2>3. ASSUME NEW e \in Clients, Owes(e, part)
          PROVE  part \in read[c].fresh
      BY <1>1, <1>5, <1>8, <2>3 DEF Owes
    <2> QED
      BY <2>1, <2>2, <2>3 DEF SomeoneOwes
  <1>9. "nicks" \in Parts /\ "number" \in Parts
    BY DEF Parts
  <1> QED
    BY <1>4, <1>7, <1>8, <1>9 DEF FreshIsRight

\* A nick given up or taken on makes no difference between sets that are alike.
LEMMA RenamedNicks ==
    ASSUME PresenceAssumption, Typed, NEW c \in Clients, NEW n \in Nicks \ {Bot}, Rename(c, n)
    PROVE  LET changed == {nick[c], n} \ {NoNick} IN
           /\ NamedNicks(members) \subseteq NamedNicks(members)' \cup changed
           /\ NamedNicks(members)' \subseteq NamedNicks(members) \cup changed
           /\ renamed' = renamed \cup changed
  <1>1. /\ nick' = [nick EXCEPT ![c] = n]
        /\ renamed' = renamed \cup ({nick[c], n} \ {NoNick}) /\ members' = members
    BY RenameTyped
  <1>2. /\ nick \in [Clients -> (Nicks \ {Bot}) \cup {NoNick}] /\ members \subseteq Clients
    BY DEF Typed, ServerTyped
  <1>3. n # NoNick
    BY DEF PresenceAssumption
  <1> QED
    BY <1>1, <1>2, <1>3 DEF NamedNicks

LEMMA RenameReaders ==
    ASSUME PresenceAssumption, Typed, FreshIsRight, ListsAge,
           NEW c \in Clients, NEW n \in Nicks \ {Bot}, Rename(c, n)
    PROVE  /\ FreshIsRight' /\ ListsAge'
           /\ \A part : AllTold(part)' => AllTold(part)
           /\ \A S : Alike(S, NamedNicks(members), renamed) =>
                       Alike(S, NamedNicks(members)', renamed')
  <1> DEFINE changed == {nick[c], n} \ {NoNick}
  <1>1. /\ UNCHANGED <<members, at, behind>>
        /\ \A d \in Clients :
             /\ read'[d].fresh = read[d].fresh /\ read'[d].overtaken = read[d].overtaken
             /\ read'[d].nicks = read[d].nicks /\ read'[d].number = read[d].number
             /\ read[d].renamed \subseteq read'[d].renamed
             /\ UnderWay(d) => changed \subseteq read'[d].renamed
    BY RenameTyped
  <1>2. /\ NamedNicks(members) \subseteq NamedNicks(members)' \cup changed
        /\ NamedNicks(members)' \subseteq NamedNicks(members) \cup changed
        /\ renamed' = renamed \cup changed
    BY RenamedNicks
  <1> HIDE DEF changed
  <1>3. ASSUME NEW S, NEW R, NEW Q, R \subseteq Q, changed \subseteq Q,
               Alike(S, NamedNicks(members), R)
        PROVE  Alike(S, NamedNicks(members)', Q)
    BY <1>2, <1>3 DEF Alike
  <1>4. ASSUME NEW d \in Clients
        PROVE  /\ Holding(d, "nicks")' /\ "nicks" \in read'[d].fresh =>
                    Alike(read'[d].nicks, NamedNicks(members)', read'[d].renamed)
               /\ Holding(d, "number")' /\ "number" \in read'[d].fresh =>
                    read'[d].number = Cardinality(members')
    <2>1. Holding(d, "nicks")' => Holding(d, "nicks") /\ UnderWay(d)
      BY <1>1 DEF Holding, UnderWay
    <2>2. Holding(d, "number")' => Holding(d, "number")
      BY <1>1 DEF Holding
    <2> QED
      BY <1>1, <1>3, <2>1, <2>2 DEF FreshIsRight
  <1>5. \A part : SomeoneOwes(part)' <=> SomeoneOwes(part)
    BY <1>1 DEF SomeoneOwes, Owes, Holding
  <1>6. FreshIsRight'
    BY <1>4 DEF FreshIsRight
  <1>7. ListsAge'
    BY <1>1, <1>5 DEF ListsAge, Holding
  <1>8. \A S : Alike(S, NamedNicks(members), renamed) => Alike(S, NamedNicks(members)', renamed')
    BY <1>2, <1>3
  <1> QED
    BY <1>1, <1>5, <1>6, <1>7, <1>8 DEF AllTold

-----------------------------------------------------------------------------
(* What the page is told *)

Told == NewsFirst /\ NicksTold /\ CountTold

LEMMA NewsAppended ==
    ASSUME NEW s \in Seq(Letters), NEW m \in Letters,
           m \in Lists \/ (NewsBefore(s) /\ m.op \notin {"joined", "left"})
    PROVE  NewsBefore(Append(s, m))
  <1> DEFINE t == Append(s, m)
             n == Len(s)
  <1>1. /\ DOMAIN t = 1 .. n + 1 /\ DOMAIN s = 1 .. n /\ n \in Nat
        /\ t[n + 1] = m /\ \A i \in 1 .. n : t[i] = s[i]
    BY LetterAppended
  <1> HIDE DEF t, n
  <1>2. m \in Lists => m.op = "room_users"
    BY DEF Lists
  <1>3. SUFFICES ASSUME NEW i \in DOMAIN t, t[i].op \in {"joined", "left"}
                 PROVE  \E j \in DOMAIN t : j > i /\ t[j] \in Lists
    BY DEF NewsBefore, t
  <1>4. m.op \notin {"joined", "left"}
    BY <1>2
  <1>5. i \in 1 .. n /\ s[i].op \in {"joined", "left"}
    BY <1>1, <1>3, <1>4
  <1>6. CASE m \in Lists
    <2>1. n + 1 \in DOMAIN t /\ n + 1 > i
      BY <1>1, <1>5
    <2> QED
      BY <1>1, <1>6, <2>1
  <1>7. CASE NewsBefore(s)
    <2>1. PICK j \in DOMAIN s : j > i /\ s[j] \in Lists
      BY <1>1, <1>5, <1>7 DEF NewsBefore
    <2> QED
      BY <1>1, <2>1
  <1> QED
    BY <1>6, <1>7

LEMMA NewsTaken ==
    ASSUME NEW s \in Seq(Letters), s # <<>>, NewsBefore(s)
    PROVE  /\ NewsBefore(Tail(s))
           /\ Head(s).op \in {"joined", "left"} => ~Without(Tail(s), Lists)
  <1> DEFINE t == Tail(s)
             h == Head(s)
             n == Len(s)
  <1>1. /\ h = s[1] /\ DOMAIN s = 1 .. n /\ n \in Nat \ {0} /\ DOMAIN t = 1 .. n - 1
        /\ \A i \in 1 .. n - 1 : t[i] = s[i + 1]
    BY HeadTaken
  <1> HIDE DEF t, h, n
  <1>2. ASSUME NEW i \in DOMAIN s, s[i].op \in {"joined", "left"}
        PROVE  \E j \in DOMAIN t : j + 1 > i /\ t[j] \in Lists
    <2>1. PICK j \in DOMAIN s : j > i /\ s[j] \in Lists
      BY <1>2 DEF NewsBefore
    <2>2. j - 1 \in DOMAIN t /\ t[j - 1] = s[j] /\ (j - 1) + 1 > i
      BY <1>1, <2>1
    <2> QED
      BY <2>1, <2>2
  <1>3. ASSUME NEW i \in DOMAIN t, t[i].op \in {"joined", "left"}
        PROVE  \E j \in DOMAIN t : j > i /\ t[j] \in Lists
    <2>1. i + 1 \in DOMAIN s /\ s[i + 1].op \in {"joined", "left"} /\ i \in Int
      BY <1>1, <1>3
    <2>2. PICK j \in DOMAIN t : j + 1 > i + 1 /\ t[j] \in Lists
      BY <1>2, <2>1
    <2>3. j \in Int
      BY <1>1
    <2> QED
      BY <2>1, <2>2, <2>3
  <1>4. h.op \in {"joined", "left"} => \E j \in DOMAIN t : t[j] \in Lists
    <2>1. 1 \in DOMAIN s
      BY <1>1
    <2> QED
      BY <1>1, <1>2, <2>1
  <1> QED
    BY <1>3, <1>4 DEF NewsBefore, Without, t, h

\* While somebody owes a list nothing is claimed.
LEMMA NothingClaimed ==
    ASSUME AllOwed'
    PROVE  Told'
  BY DEF Told, NewsFirst, NicksTold, CountTold, AllTold, AllOwed, Parts

\* A line, or a count, is sent after the last list: of the nicks it says nothing.
LEMMA NicksStayTold ==
    ASSUME Typed, NewsFirst, NicksTold, AllTold("nicks")' => AllTold("nicks"),
           UNCHANGED <<members, nick, renamed, pageVars>>,
           \/ down' = down
           \/ \E m \in Letters : m.op \in {"chat", "room_list"} /\ down' = Append(down, m)
    PROVE  NewsFirst' /\ NicksTold'
  <1>1. SUFFICES ASSUME AllTold("nicks")'
                 PROVE  /\ NewsBefore(down')
                        /\ \A m \in LastOf(down', Lists) : Alike(m.nicks, NamedNicks(members), renamed)
                        /\ Without(down', Lists) /\ ~putBack => NobodyMissing /\ StrangersSpoke
    BY DEF NewsFirst, NicksTold, Alike, NamedNicks, NobodyMissing, StrangersSpoke, pageVars,
           madeUp
  <1>2. /\ NewsBefore(down) /\ down \in Seq(Letters)
        /\ \A m \in LastOf(down, Lists) : Alike(m.nicks, NamedNicks(members), renamed)
        /\ Without(down, Lists) /\ ~putBack => NobodyMissing /\ StrangersSpoke
    BY <1>1 DEF NewsFirst, NicksTold, Typed, SentTyped
  <1>3. CASE down' = down
    BY <1>2, <1>3
  <1>4. ASSUME NEW m \in Letters, m.op \in {"chat", "room_list"}, down' = Append(down, m)
        PROVE  /\ NewsBefore(down') /\ LastOf(down', Lists) \subseteq LastOf(down, Lists)
               /\ Without(down', Lists) => Without(down, Lists)
    <2>1. m \notin Lists /\ m.op \notin {"joined", "left"}
      BY <1>4 DEF Lists
    <2> QED
      BY <1>2, <1>4, <2>1, NewsAppended, LastAfterAppend
  <1> QED
    BY <1>2, <1>3, <1>4

LEMMA CountStaysTold ==
    ASSUME Typed, CountTold, AllTold("number")' => AllTold("number"),
           UNCHANGED <<members, pageVars>>,
           down' = down \/ \E m \in Letters : m.op = "chat" /\ down' = Append(down, m)
    PROVE  CountTold'
  <1>1. SUFFICES ASSUME AllTold("number")'
                 PROVE  /\ \A m \in LastOf(down', Counts) : m.number = Cardinality(members)
                        /\ Without(down', Counts) /\ ~guessed => count = Cardinality(members)
    BY DEF CountTold, pageVars, madeUp
  <1>2. /\ down \in Seq(Letters)
        /\ \A m \in LastOf(down, Counts) : m.number = Cardinality(members)
        /\ Without(down, Counts) /\ ~guessed => count = Cardinality(members)
    BY <1>1 DEF CountTold, Typed, SentTyped
  <1>3. CASE down' = down
    BY <1>2, <1>3
  <1>4. ASSUME NEW m \in Letters, m.op = "chat", down' = Append(down, m)
        PROVE  /\ LastOf(down', Counts) \subseteq LastOf(down, Counts)
               /\ Without(down', Counts) => Without(down, Counts)
    <2>1. m \notin Counts
      BY <1>4 DEF Counts, Lists
    <2> QED
      BY <1>2, <1>4, <2>1, LastAfterAppend
  <1> QED
    BY <1>2, <1>3, <1>4

LEMMA SpeakTold ==
    ASSUME Typed, Told, NEW n \in Nicks, Speak(n)
    PROVE  Told'
  <1>1. /\ UNCHANGED <<members, nick, at, read, behind, renamed, pageVars>>
        /\ \/ down' = down
           \/ \E m \in Letters : m.op = "chat" /\ down' = Append(down, m)
    BY SpeakTyped
  <1>2. \A part : AllTold(part)' => AllTold(part)
    BY <1>1 DEF AllTold, SomeoneOwes, Owes, Holding
  <1>3. NewsFirst' /\ NicksTold'
    BY <1>1, <1>2, NicksStayTold DEF Told
  <1>4. CountTold'
    BY <1>1, <1>2, CountStaysTold DEF Told
  <1> QED
    BY <1>3, <1>4 DEF Told

LEMMA ReadListTold ==
    ASSUME Typed, FreshIsRight, ListsAge, Told, ReadList
    PROVE  Told'
  <1>1. \A part : SomeoneOwes(part) => SomeoneOwes(part)'
    BY ListReaders
  <1>2. UNCHANGED <<members, nick, down, behind, renamed, pageVars>>
    BY DEF ReadList, roomVars, sentVars
  <1>3. \A part : AllTold(part)' => AllTold(part)
    BY <1>1, <1>2 DEF AllTold
  <1>4. NewsFirst' /\ NicksTold'
    BY <1>2, <1>3, NicksStayTold DEF Told
  <1>5. CountTold'
    BY <1>2, <1>3, CountStaysTold DEF Told
  <1> QED
    BY <1>4, <1>5 DEF Told

\* The number told is the one there is, unless it is known to be old.
LEMMA TellListTold ==
    ASSUME Typed, FreshIsRight, ListsAge, Told, TellList
    PROVE  Told'
  <1>1. \A part : SomeoneOwes(part) => SomeoneOwes(part)'
    BY ListReaders
  <1>2. UNCHANGED <<members, nick, renamed, pageVars>>
    BY DEF TellList, roomVars
  <1>3. /\ at[Me] = "list"
        /\ \/ \E m \in Letters : /\ m.op = "room_list" /\ m.number = read[Me].number
                                 /\ down' = Append(down, m)
                                 /\ behind' = (behind \ {"number"})
                                                \cup (read[Me].overtaken \cap {"number"})
           \/ down' = down /\ behind' = behind
    BY TellListTyped
  <1>4. AllTold("nicks")' => AllTold("nicks")
    BY <1>1, <1>2, <1>3 DEF AllTold
  <1>5. NewsFirst' /\ NicksTold'
    BY <1>2, <1>3, <1>4, NicksStayTold DEF Told
  <1>6. CASE down' = down /\ behind' = behind
    <2>1. AllTold("number")' => AllTold("number")
      BY <1>1, <1>2, <1>6 DEF AllTold
    <2> QED
      BY <1>2, <1>5, <1>6, <2>1, CountStaysTold DEF Told
  <1>7. ASSUME NEW m \in Letters, m.op = "room_list", m.number = read[Me].number,
               down' = Append(down, m),
               behind' = (behind \ {"number"}) \cup (read[Me].overtaken \cap {"number"})
        PROVE  CountTold'
    <2>1. SUFFICES ASSUME AllTold("number")'
                   PROVE  /\ \A k \in LastOf(down', Counts) : k.number = Cardinality(members)
                          /\ ~Without(down', Counts)
      BY <1>2 DEF CountTold, pageVars, madeUp
    <2>2. "number" \in read[Me].fresh
      <3>1. /\ Me \in members /\ ~SomeoneOwes("number") /\ "number" \notin read[Me].overtaken
        BY <1>1, <1>2, <1>7, <2>1 DEF AllTold
      <3> QED
        BY <1>3, <3>1, MeIsClient DEF ListsAge, Holding, Parts
    <2>3. m.number = Cardinality(members)
      BY <1>3, <1>7, <2>2, MeIsClient DEF FreshIsRight, Holding
    <2>4. m \in Counts /\ down \in Seq(Letters)
      BY <1>7 DEF Counts, Typed, SentTyped
    <2> QED
      BY <1>7, <2>3, <2>4, LastAfterAppend
  <1> QED
    BY <1>3, <1>5, <1>6, <1>7 DEF Told

\* The nicks were told right; now the number is read.
LEMMA ReadNumberTold ==
    ASSUME Typed, FreshIsRight, ListsAge, Told, NEW c \in Clients, ReadNumber(c)
    PROVE  Told'
  <1>1. SomeoneOwes("number")' /\ (SomeoneOwes("nicks") => SomeoneOwes("nicks")')
    BY ReadNumberReaders
  <1>2. UNCHANGED <<members, nick, down, behind, renamed, pageVars>>
    BY DEF ReadNumber, roomVars, sentVars
  <1>3. AllTold("nicks")' => AllTold("nicks")
    BY <1>1, <1>2 DEF AllTold
  <1>4. NewsFirst' /\ NicksTold'
    BY <1>2, <1>3, NicksStayTold DEF Told
  <1>5. CountTold'
    BY <1>1 DEF CountTold, AllTold
  <1> QED
    BY <1>4, <1>5 DEF Told

\* A list that was not overtaken holds the nicks there are, and their number.
LEMMA TellUsersTold ==
    ASSUME Typed, FreshIsRight, ListsAge, NEW c \in Clients, TellUsers(c)
    PROVE  Told'
  <1>1. UNCHANGED <<members, nick, pageVars>>
    BY DEF TellUsers, roomVars
  <1>2. Me \in members => ListSent(c)
    BY TellUsersTyped
  <1> DEFINE m == UsersMsg(c)
  <1>3. /\ m \in Letters /\ m.op = "room_users" /\ m.nicks = read[c].nicks
        /\ m.number = read[c].number /\ down \in Seq(Letters)
    BY UsersMsgTyped DEF Typed, SentTyped
  <1>4. ASSUME NEW part \in Parts, AllTold(part)'
        PROVE  /\ Me \in members /\ ~SomeoneOwes(part)'
               /\ down' = Append(down, m) /\ renamed' = read[c].renamed
               /\ part \notin read[c].overtaken
               /\ m \in Lists /\ m \in Counts
               /\ LastOf(down', Lists) \subseteq {m} /\ ~Without(down', Lists)
               /\ LastOf(down', Counts) \subseteq {m} /\ ~Without(down', Counts)
    <2>1. Me \in members /\ part \notin behind' /\ ~SomeoneOwes(part)'
      BY <1>1, <1>4 DEF AllTold
    <2>2. /\ down' = Append(down, m) /\ renamed' = read[c].renamed
          /\ part \notin read[c].overtaken /\ read[c].nicks # {}
      BY <1>2, <2>1 DEF ListSent
    <2> HIDE DEF m
    <2>3. m \in Lists /\ m \in Counts
      BY <1>3, <2>2 DEF Lists, Counts
    <2> QED
      BY <1>3, <2>1, <2>2, <2>3, LastAfterAppend
  <1> HIDE DEF m
  <1>5. ASSUME AllTold("nicks")'
        PROVE  /\ NewsBefore(down') /\ ~Without(down', Lists)
               /\ \A k \in LastOf(down', Lists) : Alike(k.nicks, NamedNicks(members)', renamed')
    <2>1. /\ Me \in members /\ ~SomeoneOwes("nicks")' /\ "nicks" \notin read[c].overtaken
          /\ down' = Append(down, m) /\ renamed' = read[c].renamed /\ m \in Lists
          /\ LastOf(down', Lists) \subseteq {m} /\ ~Without(down', Lists)
      BY <1>4, <1>5 DEF Parts
    <2>2. Alike(m.nicks, NamedNicks(members)', renamed')
      BY <1>1, <1>3, <2>1, TellUsersReaders, NicksAsTheyWere
    <2>3. NewsBefore(down')
      BY <1>3, <2>1, NewsAppended
    <2> QED
      BY <2>1, <2>2, <2>3
  <1>6. ASSUME AllTold("number")'
        PROVE  /\ ~Without(down', Counts)
               /\ \A k \in LastOf(down', Counts) : k.number = Cardinality(members')
    <2>1. /\ Me \in members /\ ~SomeoneOwes("number")' /\ "number" \notin read[c].overtaken
          /\ LastOf(down', Counts) \subseteq {m} /\ ~Without(down', Counts)
      BY <1>4, <1>6 DEF Parts
    <2>2. m.number = Cardinality(members')
      BY <1>1, <1>3, <2>1, TellUsersReaders
    <2> QED
      BY <2>1, <2>2
  <1>7. NewsFirst'
    BY <1>5 DEF NewsFirst
  <1>8. NicksTold'
    BY <1>5 DEF NicksTold
  <1>9. CountTold'
    BY <1>6 DEF CountTold
  <1> QED
    BY <1>7, <1>8, <1>9 DEF Told

LEMMA RenameTold ==
    ASSUME PresenceAssumption, Typed, FreshIsRight, ListsAge, Told,
           NEW c \in Clients, NEW n \in Nicks \ {Bot}, Rename(c, n)
    PROVE  Told'
  <1> DEFINE changed == {nick[c], n} \ {NoNick}
  <1>1. UNCHANGED <<members, down, pageVars>>
    BY RenameTyped
  <1>2. /\ \A part : AllTold(part)' => AllTold(part)
        /\ \A S : Alike(S, NamedNicks(members), renamed) =>
                    Alike(S, NamedNicks(members)', renamed')
    BY RenameReaders
  <1>3. /\ NamedNicks(members) \subseteq NamedNicks(members)' \cup changed
        /\ NamedNicks(members)' \subseteq NamedNicks(members) \cup changed
        /\ renamed' = renamed \cup changed
    BY RenamedNicks
  <1> HIDE DEF changed
  <1>4. NewsFirst'
    BY <1>1, <1>2 DEF Told, NewsFirst
  <1>5. NobodyMissing /\ StrangersSpoke => (NobodyMissing /\ StrangersSpoke)'
    BY <1>1, <1>3 DEF NobodyMissing, StrangersSpoke, pageVars, madeUp
  <1>6. ASSUME AllTold("nicks")', NEW m \in LastOf(down', Lists)
        PROVE  Alike(m.nicks, NamedNicks(members)', renamed')
    BY <1>1, <1>2, <1>6 DEF Told, NicksTold
  <1>7. NicksTold'
    BY <1>1, <1>2, <1>5, <1>6 DEF Told, NicksTold, pageVars, madeUp
  <1>8. CountTold'
    BY <1>1, <1>2, CountStaysTold DEF Told
  <1> QED
    BY <1>4, <1>7, <1>8 DEF Told

-----------------------------------------------------------------------------
(* What the page makes of it *)

\* The readers and the members are as they were.
LEMMA PageReaders ==
    ASSUME UNCHANGED <<members, nick, at, read, behind, renamed>>
    PROVE  /\ FreshIsRight => FreshIsRight'
           /\ ListsAge => ListsAge'
           /\ \A part : AllTold(part)' => AllTold(part)
           /\ NamedNicks(members)' = NamedNicks(members)
  BY DEF FreshIsRight, ListsAge, AllTold, SomeoneOwes, Owes, Holding, Alike, NamedNicks

\* A handler of anything but a list or news: the page takes only speakers for
\* members.
LEMMA SpeakersAdded ==
    ASSUME Typed, NewsFirst, NicksTold,
           UNCHANGED <<members, nick, at, read, behind, renamed>>,
           \/ down' = down
           \/ /\ down # <<>> /\ down' = Tail(down) /\ Head(down) \notin Lists,
           nicks' \subseteq nicks \cup spoke', spoke \subseteq spoke',
           ~putBack' => ~putBack /\ nicks \subseteq nicks'
    PROVE  NewsFirst' /\ NicksTold'
  <1>1. SUFFICES ASSUME AllTold("nicks")'
                 PROVE  /\ NewsBefore(down')
                        /\ \A m \in LastOf(down', Lists) : Alike(m.nicks, NamedNicks(members), renamed)
                        /\ Without(down', Lists) /\ ~putBack' =>
                             NobodyMissing' /\ StrangersSpoke'
    BY DEF NewsFirst, NicksTold, Alike, NamedNicks
  <1>2. AllTold("nicks") /\ NamedNicks(members)' = NamedNicks(members)
    BY <1>1, PageReaders
  <1>3. /\ NewsBefore(down) /\ down \in Seq(Letters)
        /\ \A m \in LastOf(down, Lists) : Alike(m.nicks, NamedNicks(members), renamed)
        /\ Without(down, Lists) /\ ~putBack => NobodyMissing /\ StrangersSpoke
    BY <1>2 DEF NewsFirst, NicksTold, Typed, SentTyped
  <1>4. /\ NewsBefore(down') /\ LastOf(down', Lists) \subseteq LastOf(down, Lists)
        /\ Without(down', Lists) => Without(down, Lists)
    BY <1>3, NewsTaken, LastAfterTail
  <1>5. ~putBack' /\ NobodyMissing /\ StrangersSpoke => NobodyMissing' /\ StrangersSpoke'
    BY <1>2 DEF NobodyMissing, StrangersSpoke
  <1> QED
    BY <1>3, <1>4, <1>5

LEMMA CountKept ==
    ASSUME Typed, CountTold,
           UNCHANGED <<members, nick, at, read, behind, renamed>>,
           \/ down' = down
           \/ /\ down # <<>> /\ down' = Tail(down) /\ Head(down) \notin Counts,
           ~guessed' => ~guessed /\ count' = count
    PROVE  CountTold'
  <1>1. SUFFICES ASSUME AllTold("number")'
                 PROVE  /\ \A m \in LastOf(down', Counts) : m.number = Cardinality(members)
                        /\ Without(down', Counts) /\ ~guessed' => count' = Cardinality(members)
    BY DEF CountTold
  <1>2. AllTold("number")
    BY <1>1, PageReaders
  <1>3. /\ down \in Seq(Letters)
        /\ \A m \in LastOf(down, Counts) : m.number = Cardinality(members)
        /\ Without(down, Counts) /\ ~guessed => count = Cardinality(members)
    BY <1>2 DEF CountTold, Typed, SentTyped
  <1>4. /\ LastOf(down', Counts) \subseteq LastOf(down, Counts)
        /\ Without(down', Counts) => Without(down, Counts)
    BY <1>3, LastAfterTail
  <1> QED
    BY <1>3, <1>4

\* A count has come: if no other is under way, it is the number of members.
LEMMA CountCame ==
    ASSUME Typed, CountTold,
           UNCHANGED <<members, nick, at, read, behind, renamed>>,
           down # <<>>, down' = Tail(down), Head(down) \in Counts,
           count' = Head(down).number
    PROVE  CountTold'
  <1>1. SUFFICES ASSUME AllTold("number")'
                 PROVE  /\ \A m \in LastOf(down', Counts) : m.number = Cardinality(members)
                        /\ Without(down', Counts) => count' = Cardinality(members)
    BY DEF CountTold
  <1>2. AllTold("number")
    BY <1>1, PageReaders
  <1>3. /\ down \in Seq(Letters)
        /\ \A m \in LastOf(down, Counts) : m.number = Cardinality(members)
    BY <1>2 DEF CountTold, Typed, SentTyped
  <1>4. /\ LastOf(down', Counts) \subseteq LastOf(down, Counts)
        /\ Without(down', Counts) => Head(down) \in LastOf(down, Counts)
    BY <1>3, LastAfterTail
  <1> QED
    BY <1>3, <1>4

\* The same for a list of nicks.
LEMMA ListCame ==
    ASSUME Typed, NewsFirst, NicksTold,
           UNCHANGED <<members, nick, at, read, behind, renamed>>,
           down # <<>>, down' = Tail(down), Head(down) \in Lists,
           nicks' = Head(down).nicks
    PROVE  NewsFirst' /\ NicksTold'
  <1>1. SUFFICES ASSUME AllTold("nicks")'
                 PROVE  /\ NewsBefore(down')
                        /\ \A m \in LastOf(down', Lists) : Alike(m.nicks, NamedNicks(members), renamed)
                        /\ Without(down', Lists) => NobodyMissing' /\ StrangersSpoke'
    BY DEF NewsFirst, NicksTold, Alike, NamedNicks
  <1>2. AllTold("nicks") /\ NamedNicks(members)' = NamedNicks(members)
    BY <1>1, PageReaders
  <1>3. /\ NewsBefore(down) /\ down \in Seq(Letters)
        /\ \A m \in LastOf(down, Lists) : Alike(m.nicks, NamedNicks(members), renamed)
    BY <1>2 DEF NewsFirst, NicksTold, Typed, SentTyped
  <1>4. /\ NewsBefore(down') /\ LastOf(down', Lists) \subseteq LastOf(down, Lists)
        /\ Without(down', Lists) => Head(down) \in LastOf(down, Lists)
    BY <1>3, NewsTaken, LastAfterTail
  <1>5. Alike(nicks', NamedNicks(members), renamed) => NobodyMissing' /\ StrangersSpoke'
    BY <1>2 DEF Alike, NobodyMissing, StrangersSpoke
  <1> QED
    BY <1>3, <1>4, <1>5

\* News are followed by a list, or somebody owes one: what the page makes of
\* them does not last.
LEMMA NewsCame ==
    ASSUME Typed, Told,
           UNCHANGED <<members, nick, at, read, behind, renamed>>,
           down # <<>>, down' = Tail(down), Head(down).op \in {"joined", "left"}, guessed'
    PROVE  Told'
  <1>1. down \in Seq(Letters) /\ Head(down) \notin Counts
    BY DEF Typed, SentTyped, Counts, Lists
  <1>2. CountTold'
    BY <1>1, CountKept DEF Told
  <1>3. SUFFICES ASSUME AllTold("nicks")'
                 PROVE  /\ NewsBefore(down') /\ ~Without(down', Lists)
                        /\ \A m \in LastOf(down', Lists) : Alike(m.nicks, NamedNicks(members), renamed)
    BY <1>2 DEF Told, NewsFirst, NicksTold, Alike, NamedNicks
  <1>4. AllTold("nicks")
    BY <1>3, PageReaders
  <1> QED
    BY <1>1, <1>4, NewsTaken, LastAfterTail DEF Told, NewsFirst, NicksTold

\* The page's steps, one by one.
PageStill == UNCHANGED <<members, nick, at, read, behind, renamed>>

LEMMA PageFrameStill ==
    ASSUME pageFrame
    PROVE  PageStill
  BY DEF pageFrame, PageStill, roomVars, sentVars

LEMMA UsersListTold ==
    ASSUME Typed, Told, room_users
    PROVE  Told'
  <1>1. /\ down # <<>> /\ down' = Tail(down) /\ Head(down) \in Letters
        /\ Head(down).op = "room_users"
    BY Handled DEF room_users
  <1>2. UNCHANGED <<members, nick, at, read, behind, renamed>>
    BY PageFrameStill DEF room_users, PageStill
  <1>3. CASE Head(down).nicks = {}
    <2>1. Head(down) \notin Lists /\ Head(down) \notin Counts
      BY <1>1, <1>3 DEF Lists, Counts
    <2>2. UNCHANGED pageVars
      BY <1>3 DEF room_users
    <2>3. /\ nicks' \subseteq nicks \cup spoke' /\ spoke \subseteq spoke'
          /\ ~putBack' => ~putBack /\ nicks \subseteq nicks'
          /\ ~guessed' => ~guessed /\ count' = count
      BY <2>2 DEF pageVars, madeUp
    <2> QED
      BY <1>1, <1>2, <2>1, <2>3, SpeakersAdded, CountKept DEF Told
  <1>4. CASE Head(down).nicks # {}
    <2>1. Head(down) \in Lists /\ Head(down) \in Counts
      BY <1>1, <1>4 DEF Lists, Counts
    <2>2. nicks' = Head(down).nicks /\ count' = Head(down).number
      BY <1>4 DEF room_users, refreshRoomPresence
    <2> QED
      BY <1>1, <1>2, <2>1, <2>2, ListCame, CountCame DEF Told
  <1> QED
    BY <1>3, <1>4

LEMMA RoomListTold ==
    ASSUME Typed, Told, room_list
    PROVE  Told'
  <1>1. /\ down # <<>> /\ down' = Tail(down) /\ Head(down) \in Letters
        /\ Head(down).op = "room_list"
    BY Handled DEF room_list
  <1>2. UNCHANGED <<members, nick, at, read, behind, renamed>>
    BY PageFrameStill DEF room_list, PageStill
  <1>3. Head(down) \notin Lists /\ Head(down) \in Counts
    BY <1>1 DEF Lists, Counts
  <1>4. UNCHANGED <<nicks, spoke, putBack>> /\ count' = Head(down).number
    BY DEF room_list
  <1> QED
    BY <1>1, <1>2, <1>3, <1>4, SpeakersAdded, CountCame DEF Told

LEMMA NewsTold ==
    ASSUME Typed, Told, system_joined \/ system_left
    PROVE  Told'
  <1>1. PICK op \in {"joined", "left"} : Handle(op)
    BY DEF system_joined, system_left
  <1>2. UNCHANGED <<members, nick, at, read, behind, renamed>>
    BY PageFrameStill DEF system_joined, system_left, PageStill
  <1>3. guessed'
    BY DEF system_joined, system_left
  <1> QED
    BY <1>1, <1>2, <1>3, Handled, NewsCame

\* A speaker is taken for a member.
LEMMA Tracked ==
    ASSUME NEW n, Track(n)
    PROVE  /\ nicks' \subseteq nicks \cup spoke' /\ spoke \subseteq spoke'
           /\ nicks \subseteq nicks'
           /\ ~guessed' => ~guessed /\ count' = count
  BY DEF Track

LEMMA ChatTold ==
    ASSUME Typed, Told, chat
    PROVE  Told'
  <1>1. /\ down # <<>> /\ down' = Tail(down) /\ Head(down).op = "chat"
    BY Handled DEF chat
  <1>2. UNCHANGED <<members, nick, at, read, behind, renamed>>
    BY PageFrameStill DEF chat, PageStill
  <1>3. Head(down) \notin Lists /\ Head(down) \notin Counts
    BY <1>1 DEF Lists, Counts
  <1>4. /\ putBack' = putBack
        /\ \/ UNCHANGED <<nicks, count, guessed, spoke>>
           \/ Track(Head(down).nick)
    BY DEF chat
  <1>5. /\ nicks' \subseteq nicks \cup spoke' /\ spoke \subseteq spoke'
        /\ ~putBack' => ~putBack /\ nicks \subseteq nicks'
        /\ ~guessed' => ~guessed /\ count' = count
    BY <1>4, Tracked
  <1> QED
    BY <1>1, <1>2, <1>3, <1>5, SpeakersAdded, CountKept DEF Told

LEMMA LineDecryptedTold ==
    ASSUME Typed, Told, NEW i \in DOMAIN lines, LineDecrypted(i)
    PROVE  Told'
  <1>1. UNCHANGED <<members, nick, at, read, behind, renamed>>
    BY PageFrameStill DEF LineDecrypted, PageStill
  <1>2. /\ down' = down /\ putBack' = putBack
        /\ \/ UNCHANGED <<nicks, count, guessed, spoke>>
           \/ Track(lines[i])
    BY DEF LineDecrypted
  <1>3. /\ nicks' \subseteq nicks \cup spoke' /\ spoke \subseteq spoke'
        /\ ~putBack' => ~putBack /\ nicks \subseteq nicks'
        /\ ~guessed' => ~guessed /\ count' = count
    BY <1>2, Tracked
  <1> QED
    BY <1>1, <1>2, <1>3, SpeakersAdded, CountKept DEF Told

LEMMA HistoryBeginTold ==
    ASSUME Typed, Told, history_begin
    PROVE  Told'
  <1>1. down # <<>> /\ down' = Tail(down) /\ Head(down).op = "history"
    BY Handled DEF history_begin
  <1>2. UNCHANGED <<members, nick, at, read, behind, renamed>>
    BY PageFrameStill DEF history_begin, PageStill
  <1>3. Head(down) \notin Lists /\ Head(down) \notin Counts
    BY <1>1 DEF Lists, Counts
  <1>4. /\ nicks \subseteq nicks' /\ spoke' = spoke \cup (nicks' \ nicks)
        /\ UNCHANGED <<count, guessed, putBack>>
    BY DEF history_begin
  <1> QED
    BY <1>1, <1>2, <1>3, <1>4, SpeakersAdded, CountKept DEF Told

LEMMA HistoryLineTold ==
    ASSUME Typed, Told, history_line
    PROVE  Told'
  <1>1. UNCHANGED <<members, nick, at, read, behind, renamed>>
    BY PageFrameStill DEF history_line, PageStill
  <1>2. down' = down
    BY DEF history_line
  <1>3. /\ ~guessed' => ~guessed /\ count' = count
        /\ spoke' = spoke \cup (nicks' \ nicks)
        /\ ~putBack' => ~putBack /\ nicks \subseteq nicks'
    BY HistoryLineTyped
  <1> QED
    BY <1>1, <1>2, <1>3, SpeakersAdded, CountKept DEF Told

LEMMA SwitchTold ==
    ASSUME Typed, Told, Switch
    PROVE  Told'
  <1>1. UNCHANGED <<members, nick, at, read, behind, renamed>>
    BY DEF Switch, roomVars, sentVars
  <1>2. UNCHANGED <<nicks, count, guessed, spoke, putBack, down>>
    BY DEF Switch, madeUp
  <1> QED
    BY <1>1, <1>2, SpeakersAdded, CountKept DEF Told

-----------------------------------------------------------------------------
(* The invariant holds *)

LEMMA ServerStep ==
    ASSUME PresenceAssumption, Typed, FreshIsRight, ListsAge, Told, Server
    PROVE  ServerTyped' /\ SentTyped' /\ FreshIsRight' /\ ListsAge' /\ Told'
  <1>1. ASSUME NEW c \in Clients, Join(c) \/ Part(c)
        PROVE  ServerTyped' /\ SentTyped' /\ FreshIsRight' /\ ListsAge' /\ Told'
    BY <1>1, MoveTyped, MoveReaders, NothingClaimed
  <1>2. ASSUME NEW c \in Clients, Announce(c) \/ (SendHistory /\ c = Me)
        PROVE  ServerTyped' /\ SentTyped' /\ FreshIsRight' /\ ListsAge' /\ Told'
    BY <1>2, AnnounceTyped, AnnounceReaders, NothingClaimed
  <1>3. ASSUME NEW c \in Clients, ReadNicks(c)
        PROVE  ServerTyped' /\ SentTyped' /\ FreshIsRight' /\ ListsAge' /\ Told'
    BY <1>3, ReadNicksTyped, ReadNicksReaders, NothingClaimed
  <1>10. ASSUME NEW c \in Clients, ReadNumber(c)
         PROVE  ServerTyped' /\ SentTyped' /\ FreshIsRight' /\ ListsAge' /\ Told'
    BY <1>10, ReadNumberTyped, ReadNumberReaders, ReadNumberTold
  <1>4. ASSUME TellOwn
        PROVE  ServerTyped' /\ SentTyped' /\ FreshIsRight' /\ ListsAge' /\ Told'
    BY <1>4, TellOwnTyped, TellOwnReaders, NothingClaimed
  <1>5. ASSUME NEW c \in Clients, TellUsers(c)
        PROVE  ServerTyped' /\ SentTyped' /\ FreshIsRight' /\ ListsAge' /\ Told'
    BY <1>5, TellUsersTyped, TellUsersReaders, TellUsersTold
  <1>6. ASSUME NEW c \in Clients, NEW n \in Nicks \ {Bot}, Rename(c, n)
        PROVE  ServerTyped' /\ SentTyped' /\ FreshIsRight' /\ ListsAge' /\ Told'
    BY <1>6, RenameTyped, RenameReaders, RenameTold
  <1>7. ASSUME NEW n \in Nicks, Speak(n)
        PROVE  ServerTyped' /\ SentTyped' /\ FreshIsRight' /\ ListsAge' /\ Told'
    BY <1>7, SpeakTyped, SpeakTold, PageReaders
  <1>8. ASSUME ReadList
        PROVE  ServerTyped' /\ SentTyped' /\ FreshIsRight' /\ ListsAge' /\ Told'
    BY <1>8, ReadListTyped, ListReaders, ReadListTold
  <1>9. ASSUME TellList
        PROVE  ServerTyped' /\ SentTyped' /\ FreshIsRight' /\ ListsAge' /\ Told'
    BY <1>9, TellListTyped, ListReaders, TellListTold
  <1> QED
    BY <1>1, <1>2, <1>3, <1>4, <1>5, <1>6, <1>7, <1>8, <1>9, <1>10, MeIsClient DEF Server

\* What a handler does to the queue, and that it leaves the rest alone.
LEMMA PageStepKeeps ==
    ASSUME Typed, Page, ~Switch
    PROVE  pageFrame /\ (down' = down \/ (down # <<>> /\ down' = Tail(down)))
  BY DEF Page, Handle, room_users, room_list, system_joined, system_left, chat, history_begin,
         history_line, LineDecrypted

LEMMA PageStep ==
    ASSUME Typed, FreshIsRight, ListsAge, Told, LabelIsCount, Page
    PROVE  Typed' /\ FreshIsRight' /\ ListsAge' /\ Told' /\ LabelIsCount'
  <1>1. PageTyped' /\ LabelIsCount' /\ Told'
    <2>1. CASE room_users
      BY <2>1, UsersListTyped, UsersListTold
    <2>2. CASE room_list
      BY <2>2, RoomListTyped, RoomListTold
    <2>3. CASE system_joined \/ system_left
      BY <2>3, NewsTyped, NewsTold
    <2>4. CASE chat
      BY <2>4, ChatTyped, ChatTold
    <2>5. CASE history_begin
      BY <2>5, HistoryBeginTyped, HistoryBeginTold
    <2>6. CASE history_line
      BY <2>6, HistoryLineTyped, HistoryLineTold
    <2>7. CASE Switch
      BY <2>7, SwitchTyped, SwitchTold DEF Typed
    <2>8. ASSUME NEW i \in DOMAIN lines, LineDecrypted(i)
          PROVE  PageTyped' /\ LabelIsCount' /\ Told'
      BY <2>8, LineDecryptedTyped, LineDecryptedTold
    <2> QED
      BY <2>1, <2>2, <2>3, <2>4, <2>5, <2>6, <2>7, <2>8 DEF Page
  <1>2. ServerTyped' /\ SentTyped' /\ UNCHANGED <<members, nick, at, read, behind, renamed>>
    <2>1. CASE Switch
      BY <2>1, SwitchTyped DEF Switch, roomVars, sentVars, Typed
    <2>2. CASE ~Switch
      BY <2>2, PageStepKeeps, PageLeavesServer, PageFrameStill DEF PageStill
    <2> QED
      BY <2>1, <2>2
  <1> QED
    BY <1>1, <1>2, PageReaders DEF Typed

\* The server leaves the page alone.
LEMMA ServerLeavesPage ==
    ASSUME Server
    PROVE  UNCHANGED pageVars
  BY DEF Server, SendHistory, TellOwn, ReadList, TellList, Join, Part, ReadNicks, ReadNumber, Announce,
         TellUsers, Rename, Speak

LEMMA InitHolds ==
    ASSUME PresenceAssumption, Init
    PROVE  IInv
  <1>1. Typed
    BY InitTyped
  <1>2. FreshIsRight /\ ListsAge /\ NewsFirst /\ NicksTold /\ CountTold
    BY DEF Init, NoList, FreshIsRight, Holding, ListsAge, NewsFirst, NicksTold, CountTold, AllTold
  <1>3. LabelIsCount
    BY DEF Init, LabelIsCount
  <1> QED
    BY <1>1, <1>2, <1>3 DEF IInv

LEMMA NextHolds ==
    ASSUME PresenceAssumption, IInv, [Next]_vars
    PROVE  IInv'
  <1>1. Typed /\ FreshIsRight /\ ListsAge /\ Told /\ LabelIsCount
    BY DEF IInv, Told
  <1>2. CASE Server
    <2>1. ServerTyped' /\ SentTyped' /\ FreshIsRight' /\ ListsAge' /\ Told'
      BY <1>1, <1>2, ServerStep
    <2>2. UNCHANGED pageVars
      BY <1>2, ServerLeavesPage
    <2>3. PageTyped' /\ LabelIsCount'
      BY <1>1, <2>2 DEF Typed, PageTyped, LabelIsCount, pageVars, madeUp
    <2> QED
      BY <2>1, <2>3 DEF IInv, Typed, Told
  <1>3. CASE Page
    BY <1>1, <1>3, PageStep DEF IInv, Told
  <1>4. CASE UNCHANGED vars
    <2>1. UNCHANGED <<members, nick, at, read, behind, renamed, down, pageVars>>
      BY <1>4 DEF vars, roomVars, sentVars
    <2>2. ServerTyped' /\ SentTyped' /\ PageTyped' /\ LabelIsCount'
      BY <1>1, <1>4 DEF vars, roomVars, sentVars, pageVars, madeUp, Typed, ServerTyped, SentTyped,
                        PageTyped, LabelIsCount
    <2>3. FreshIsRight' /\ ListsAge' /\ (\A part : AllTold(part)' => AllTold(part))
      BY <1>1, <2>1, PageReaders
    <2>4. NewsFirst' /\ NicksTold'
      BY <1>1, <2>1, <2>3, NicksStayTold DEF Told
    <2>5. CountTold'
      BY <1>1, <2>1, <2>3, CountStaysTold DEF Told
    <2> QED
      BY <2>2, <2>3, <2>4, <2>5 DEF IInv, Typed
  <1> QED
    BY <1>2, <1>3, <1>4 DEF Next

LEMMA Invariant == Spec => []IInv
  <1>1. Init => IInv
    BY InitHolds, PresenceAssumption
  <1>2. IInv /\ [Next]_vars => IInv'
    BY NextHolds, PresenceAssumption
  <1> QED
    BY <1>1, <1>2, PTL DEF Spec

-----------------------------------------------------------------------------
LEMMA TypesFollow ==
    ASSUME IInv
    PROVE  TypeOK
  <1>1. ServerTyped /\ SentTyped /\ PageTyped
    BY DEF IInv, Typed
  <1>2. down \in Seq(Messages)
    BY <1>1, LettersAreMessages, SeqMonotonic DEF SentTyped
  <1>3. read \in [Clients -> [nicks : SUBSET Nicks, number : Nat, fresh : SUBSET Parts,
                              overtaken : SUBSET Parts, renamed : SUBSET Nicks]]
        /\ behind \subseteq Parts
    BY <1>1 DEF ServerTyped, SentTyped, Reads, FiniteNicks
  <1>4. past \in [on : BOOLEAN, shared : BOOLEAN, set : SUBSET Nicks, left : Seq(Nicks)]
    BY <1>1 DEF PageTyped, FiniteNicks
  <1>5. {private, known, active, guessed, putBack} \subseteq BOOLEAN
    BY <1>1 DEF ServerTyped, SentTyped, PageTyped
  <1>6. nicks \cup renamed \cup spoke \subseteq Nicks
    BY <1>1 DEF SentTyped, PageTyped, FiniteNicks
  <1> QED
    BY <1>1, <1>2, <1>3, <1>4, <1>5, <1>6 DEF TypeOK, ServerTyped, PageTyped

\* In a quiet room nobody owes a list, and none is under way.
LEMMA QuietIsTold ==
    ASSUME Quiet
    PROVE  /\ \A part : part \notin behind => AllTold(part)
           /\ \A K : Without(down, K)
  BY DEF Quiet, AllTold, SomeoneOwes, Owes, Without

\* The state of the room, of its readers, of the messages under way and of the
\* page keep their types.
THEOREM TypeCorrect == Spec => []TypeOK
  BY Invariant, TypesFollow, PTL

\* When all is quiet, the page (web/app.js) has everybody who is in the room,
\* and whomever it has besides has spoken, but for a list that was overtaken or
\* lost, a set that was put back, and nicks that changed since the last list
\* was read.
THEOREM PageAgrees == Spec => []ListAgrees
  <1>1. IInv => ListAgrees
    BY QuietIsTold DEF IInv, NicksTold, ListAgrees
  <1> QED
    BY <1>1, Invariant, PTL

\* The number beside the room's name is the number of its members, unless the
\* number told last was overtaken or lost, or the page has counted by itself.
THEOREM LabelIsRight == Spec => []LabelCounts
  <1>1. ASSUME IInv, Quiet, active, "number" \notin behind, ~guessed
        PROVE  label = Cardinality(members)
    <2>1. count = Cardinality(members)
      BY <1>1, QuietIsTold DEF IInv, CountTold
    <2>2. Cardinality(members) \in Nat
      BY <1>1, FS_CardinalityType DEF IInv, Typed, ServerTyped
    <2>3. count # -1
      BY <2>1, <2>2
    <2> QED
      BY <1>1, <2>1, <2>3 DEF IInv, LabelIsCount
  <1>2. IInv => LabelCounts
    BY <1>1 DEF LabelCounts
  <1> QED
    BY <1>2, Invariant, PTL
=============================================================================
