----------------------------- MODULE ChatSyncProofs -----------------------------
(***************************************************************************)
(* That no client's revision claims a stored turn that the client does not *)
(* show, and that no question is answered from a history that lacks stored *)
(* turns, for any clients, calls and restarts.                             *)
(*                                                                         *)
(* A revision tells of a chat once the chat it was made of is told from    *)
(* every other: by the daemon's life, and by the generation, which a       *)
(* writer counts after it replaced the rows.  So Known says that none is   *)
(* ahead of the chat, and Speaks that it covers only what the client was   *)
(* sent; both outlive what any other call does to the chat (TruthsStay).   *)
(* The rest of the invariant follows a turn, a catch-up and a replacement  *)
(* from where they are sent to where the client takes their answer.        *)
(***************************************************************************)
EXTENDS ChatSync, NumberTheorems, SequenceTheorems, TLAPS

Revisions == Nat \X Nat \X Nat
Entries   == (Nat \X {"question", "answer", "summary"})
Rows      == [id : Nat \ {0}, turn : Entries]

Stages(kind) ==
  CASE kind = "turn"    -> {"catching", "catchingUp", "unreached", "asked", "reading",
                            "answering", "saving", "saved", "replied", "failed", "over"}
    [] kind = "fetch"   -> {"asked", "reading", "replied", "failed", "over"}
    [] kind = "compact" -> {"asked", "summarising", "replaced", "replied", "failed", "over"}
    [] OTHER            -> {"asked", "replaced", "replied", "failed", "over"}

EveryStage ==
  {"catching", "catchingUp", "unreached", "asked", "reading", "answering", "saving", "saved",
   "summarising", "replaced", "replied", "failed", "over"}

CallRecords ==
  [kind : Kinds, by : Clients, at : EveryStage,
   sent : Revisions, gen : Nat, mine : SUBSET Entries, before : Revisions,
   rev : Revisions, turns : Seq(Entries), add : BOOLEAN]

ClientRecords ==
  [ui : {"idle", "catching", "asking", "replacing"}, rev : Revisions, turnRev : Revisions,
   pending : BOOLEAN, shown : Seq(Entries)]

Types ==
  /\ epoch \in 1 .. MaxRestarts + 1 /\ gen \in Nat
  /\ chat \in Seq(Rows)
  /\ \A m, n \in DOMAIN chat : m < n => chat[m].id < chat[n].id
  /\ holder \in 0 .. Len(call)
  /\ call \in Seq(CallRecords)
  /\ \A i \in DOMAIN call : call[i].at \in Stages(call[i].kind)
  /\ client \in [Clients -> ClientRecords]

\* The call that changes the chat holds historyMu.
Locked == {"saving", "saved", "summarising", "replaced"}
Holding == \A i \in DOMAIN call : call[i].at \in Locked <=> holder = i

\* What may be said of a revision: that it is not ahead of the chat, and that, of this chat,
\* the rows after an id up to its own are among these turns.
Known(rev) ==
  /\ rev[1] <= epoch /\ (rev[1] = epoch => rev[2] <= gen)
  /\ Current(rev) => rev[3] <= Last

Speaks(rev, from, turns) ==
  Current(rev) =>
    \A n \in DOMAIN chat : from < chat[n].id /\ chat[n].id <= rev[3] => chat[n].turn \in turns

Truths ==
  {truth \in Revisions \X Nat \X SUBSET Entries :
     Known(truth[1]) /\ Speaks(truth[1], truth[2], truth[3])}

Shown(c) == Range(client[c].shown)

\* What a client shows has all its revision covers.
Clear(c) == <<client[c].rev, 0, Shown(c)>> \in Truths

\* A question that is not sent yet is its client's last, and goes with what that has seen.
Unsent == {"catching", "catchingUp", "unreached"}
LastTurn(c, i) == \A j \in DOMAIN call : j > i /\ call[j].by = c => call[j].kind # "turn"
Catching(i) ==
  call[i].at \in Unsent =>
    \A c \in Clients : call[i].by = c =>
      /\ client[c].ui = "catching" /\ LastTurn(c, i)
      /\ call[i].sent # NoRev => client[c].rev = call[i].sent

\* What is shown beside a question under way has all that the revision sent with it covers.
Asking(i) ==
  \A c \in Clients : InFlight(c, i) =>
    /\ call[i].at # "over" /\ client[c].turnRev = call[i].sent
    /\ Question(i) \in Shown(c) /\ <<call[i].sent, 0, Shown(c)>> \in Truths

\* So has the history that is sent with it.
Sending(i) ==
  call[i].kind = "turn" /\ call[i].at \in {"asked", "reading"} =>
    <<call[i].sent, 0, call[i].mine>> \in Truths

\* A question is saved on top of the revision before; where that is what the client has seen,
\* the client shows all of the chat with it.  A chat that is cleared is empty.
Saving(i) ==
  /\ call[i].at = "saving" => call[i].before = Revision
  /\ call[i].at = "saved" /\ call[i].sent # NoRev /\ call[i].sent = call[i].before =>
       \A c \in Clients : InFlight(c, i) => \A n \in DOMAIN chat : chat[n].turn \in Shown(c)
  /\ Is(i, "reset", "replaced") => chat = << >>

\* No revision is ahead, and there is none before the answer.
Dated(i) ==
  /\ <<call[i].sent, 0, Entries>> \in Truths
  /\ call[i].at # "replied" => call[i].rev = NoRev
  /\ call[i].at \in {"reading", "catchingUp"} => call[i].gen <= gen

\* What the answers tell.
Since(i) == IF call[i].add THEN call[i].sent[3] ELSE 0

TurnTold(i) ==
  call[i].kind = "turn" /\ call[i].at = "replied" =>
    /\ <<call[i].rev, 0, Entries>> \in Truths
    /\ ~call[i].add /\ call[i].sent # NoRev =>
         \A c \in Clients : InFlight(c, i) =>
           <<call[i].rev, 0, Shown(c) \cup {Reply(i)}>> \in Truths

FetchTold(i) ==
  call[i].kind = "fetch" /\ call[i].at = "replied" =>
    /\ call[i].add => call[i].sent[1] = call[i].rev[1] /\ call[i].sent[2] = call[i].rev[2]
    /\ <<call[i].rev, Since(i), Range(call[i].turns)>> \in Truths

ReplaceTold(i) ==
  call[i].at = "replied" =>
    /\ call[i].kind = "reset" => <<call[i].rev, 0, {}>> \in Truths
    /\ call[i].kind \in {"resume", "compact"} =>
         <<call[i].rev, 0, Range(call[i].turns)>> \in Truths

CallInv(i) ==
  /\ Catching(i) /\ Asking(i) /\ Sending(i) /\ Saving(i) /\ Dated(i)
  /\ TurnTold(i) /\ FetchTold(i) /\ ReplaceTold(i)

\* Who replaces the chat waits for it, and for nothing else.
Replaces(i) == call[i].kind \in {"resume", "compact"} /\ call[i].at # "over"
Waiting ==
  /\ \A i \in DOMAIN call, c \in Clients :
       Replaces(i) /\ call[i].by = c => client[c].ui = "replacing"
  /\ \A i, j \in DOMAIN call : Replaces(i) /\ Replaces(j) /\ call[i].by = call[j].by => i = j

Inv ==
  /\ Types /\ Holding /\ Waiting
  /\ \A c \in Clients : Clear(c)
  /\ \A i \in DOMAIN call : CallInv(i)

USE ChatAssumption
-----------------------------------------------------------------------------
\* Rows and truths.

LEMMA IdsGrow ==
  ASSUME Types, NEW n \in DOMAIN chat
  PROVE  chat[n].id \in Nat \ {0} /\ chat[n].turn \in Entries /\ chat[n].id <= Last
<1>1. /\ Len(chat) \in Nat /\ DOMAIN chat = 1 .. Len(chat)
      /\ \A m \in DOMAIN chat : chat[m] \in Rows
  BY DEF Types
<1>2. chat # << >> /\ Len(chat) \in DOMAIN chat
  BY <1>1
<1>3. n = Len(chat) \/ n < Len(chat)
  BY <1>1
<1>4. chat[n].id <= chat[Len(chat)].id
  BY <1>1, <1>2, <1>3 DEF Types, Rows
<1>. QED  BY <1>1, <1>2, <1>4 DEF Last, Rows

LEMMA LastIsNat == ASSUME Types PROVE  Last \in Nat
<1>1. CASE chat = << >>
  BY <1>1 DEF Last
<1>2. CASE chat # << >>
  <2>1. Len(chat) \in DOMAIN chat
    BY <1>2 DEF Types
  <2>. QED  BY <1>2, <2>1, IdsGrow DEF Last
<1>. QED  BY <1>1, <1>2

LEMMA RevisionTyped == ASSUME Types PROVE  Revision \in Revisions /\ NoRev \in Revisions
BY LastIsNat DEF Types, Revision, Revisions, NoRev

LEMMA TruthIs ==
  \A rev \in Revisions, from \in Nat, turns \in SUBSET Entries :
    <<rev, from, turns>> \in Truths <=> Known(rev) /\ Speaks(rev, from, turns)
BY DEF Truths

LEMMA MoreTurns ==
  \A rev, from, turns : \A more \in SUBSET Entries :
    <<rev, from, turns>> \in Truths /\ turns \subseteq more => <<rev, from, more>> \in Truths
BY DEF Truths, Speaks

\* What is not of this chat may be said to tell anything.
LEMMA NoRevSpeaks ==
  ASSUME Types, NEW turns \in SUBSET Entries
  PROVE  <<NoRev, 0, turns>> \in Truths
<1>1. NoRev \in Revisions
  BY DEF NoRev, Revisions
<1>2. Known(NoRev) /\ Speaks(NoRev, 0, turns)
  BY DEF Known, Speaks, Current, NoRev, Types
<1>. QED  BY <1>1, <1>2, TruthIs

\* Of the chat as it is.
LEMMA AllIsTold ==
  ASSUME Types, NEW turns \in SUBSET Entries, \A n \in DOMAIN chat : chat[n].turn \in turns
  PROVE  <<Revision, 0, turns>> \in Truths
<1>1. Revision \in Revisions
  BY RevisionTyped
<1>2. Known(Revision) /\ Speaks(Revision, 0, turns)
  BY LastIsNat DEF Known, Speaks, Revision, Types
<1>. QED  BY <1>1, <1>2, TruthIs

-----------------------------------------------------------------------------
\* Sequences of turns.

LEMMA RangeAppends ==
  ASSUME NEW S, NEW s \in Seq(S), NEW e \in S
  PROVE  Append(s, e) \in Seq(S) /\ Range(Append(s, e)) = Range(s) \cup {e}
<1>1. /\ Append(s, e) \in Seq(S) /\ Len(Append(s, e)) = Len(s) + 1
      /\ \A n \in 1 .. Len(s) : Append(s, e)[n] = s[n]
      /\ Append(s, e)[Len(s) + 1] = e
  BY AppendProperties
<1>2. DOMAIN s = 1 .. Len(s) /\ DOMAIN Append(s, e) = 1 .. Len(s) + 1 /\ Len(s) \in Nat
  BY <1>1
<1>3. 1 .. Len(s) + 1 = (1 .. Len(s)) \cup {Len(s) + 1}
  BY <1>2
<1>. QED  BY <1>1, <1>2, <1>3 DEF Range

LEMMA RangeConcats ==
  ASSUME NEW S, NEW s \in Seq(S), NEW t \in Seq(S)
  PROVE  s \o t \in Seq(S) /\ Range(s \o t) = Range(s) \cup Range(t)
BY ConcatProperties, RangeConcatenation

LEMMA RangeTyped ==
  ASSUME NEW S, NEW s \in Seq(S)
  PROVE  Range(s) \in SUBSET S
BY DEF Range

-----------------------------------------------------------------------------
\* The rows past an id, and what is new since a revision.

LEMMA PastIs ==
  ASSUME Types, NEW last \in Int
  PROVE  /\ Past(last) \in 0 .. Len(chat)
         /\ \A m \in DOMAIN chat : m <= Past(last) <=> chat[m].id <= last
<1>. DEFINE T == {n \in 0 .. Len(chat) : \A m \in DOMAIN chat : m > n => chat[m].id > last}
<1>1. Len(chat) \in Nat /\ DOMAIN chat = 1 .. Len(chat)
  BY DEF Types
<1>2. \A m \in DOMAIN chat : chat[m].id \in Nat
  BY IdsGrow
<1>3. T \in SUBSET Nat /\ Len(chat) \in T
  BY <1>1
<1>4. PICK n \in T : \A k \in T : ~(k < n)
  <2>. HIDE DEF T
  <2>1. PICK n \in T : \A k \in T : n <= k
    BY <1>3, LeastNumber
  <2>. QED  BY <1>3, <2>1
<1>5. \A m \in DOMAIN chat : m <= n => chat[m].id <= last
  <2>1. SUFFICES ASSUME n # 0
                 PROVE  chat[n].id <= last
    <3>1. ASSUME NEW m \in DOMAIN chat, m <= n, chat[n].id <= last
          PROVE  chat[m].id <= last
      <4>1. n \in DOMAIN chat /\ n \in Nat
        BY <1>1, <3>1
      <4>2. m = n \/ chat[m].id < chat[n].id
        BY <1>1, <4>1, <3>1 DEF Types
      <4>. QED  BY <1>2, <3>1, <4>1, <4>2
    <3>2. n = 0 => \A m \in DOMAIN chat : ~(m <= n)
      BY <1>1
    <3>. QED  BY <3>1, <3>2
  <2>2. n - 1 \in 0 .. Len(chat) /\ n - 1 \notin T
    BY <1>1, <1>3, <1>4, <2>1
  <2>3. PICK m \in DOMAIN chat : m > n - 1 /\ ~(chat[m].id > last)
    BY <2>2
  <2>4. ~(m > n)
    BY <2>3
  <2>5. m = n
    BY <1>1, <2>3, <2>4
  <2>. QED  BY <1>2, <2>3, <2>5
<1>6. \A m \in DOMAIN chat : m <= n <=> chat[m].id <= last
  BY <1>1, <1>2, <1>5
<1>. QED  BY <1>6 DEF Past

LEMMA AfterIs ==
  ASSUME Types, NEW last \in Int
  PROVE  /\ After(last) \in Seq(Rows)
         /\ Turns(After(last)) \in Seq(Entries)
         /\ \A n \in DOMAIN chat : last < chat[n].id =>
              After(last) # << >> /\ chat[n].turn \in Range(Turns(After(last)))
         /\ After(last) # << >> => After(last)[Len(After(last))].id = Last
<1>. DEFINE p == Past(last)
<1>1. /\ p \in 0 .. Len(chat) /\ \A m \in DOMAIN chat : m <= p <=> chat[m].id <= last
      /\ Len(chat) \in Nat /\ DOMAIN chat = 1 .. Len(chat)
      /\ \A m \in DOMAIN chat : chat[m] \in Rows /\ chat[m].id \in Nat /\ chat[m].turn \in Entries
  <2>1. p \in 0 .. Len(chat) /\ \A m \in DOMAIN chat : m <= p <=> chat[m].id <= last
    BY PastIs
  <2>2. Len(chat) \in Nat /\ DOMAIN chat = 1 .. Len(chat) /\ \A m \in DOMAIN chat : chat[m] \in Rows
    BY DEF Types
  <2>3. \A m \in DOMAIN chat : chat[m].id \in Nat /\ chat[m].turn \in Entries
    BY IdsGrow
  <2>. QED  BY <2>1, <2>2, <2>3
<1>. HIDE DEF p
<1>2. /\ SubSeq(chat, p + 1, Len(chat)) \in Seq(Rows)
      /\ Len(SubSeq(chat, p + 1, Len(chat))) = Len(chat) - p
      /\ \A k \in 1 .. Len(chat) - p : SubSeq(chat, p + 1, Len(chat))[k] = chat[p + k]
  <2>1. \A k \in p + 1 .. Len(chat) : chat[k] \in Rows
    BY <1>1
  <2>2. p + 1 \in Int /\ Len(chat) \in Int /\ Len(chat) - (p + 1) + 1 = Len(chat) - p
    BY <1>1
  <2>3. /\ SubSeq(chat, p + 1, Len(chat)) \in Seq(Rows)
        /\ Len(SubSeq(chat, p + 1, Len(chat))) =
             IF p + 1 <= Len(chat) THEN Len(chat) - (p + 1) + 1 ELSE 0
        /\ \A k \in 1 .. Len(chat) - (p + 1) + 1 :
             SubSeq(chat, p + 1, Len(chat))[k] = chat[p + 1 + k - 1]
    BY <2>1, <2>2, SubSeqProperties
  <2>4. \A k \in 1 .. Len(chat) - p : p + 1 + k - 1 = p + k
    BY <1>1
  <2>5. p + 1 <= Len(chat) \/ Len(chat) - p = 0
    <3>1. p \in 0 .. Len(chat) /\ Len(chat) \in Nat
      BY <1>1
    <3>. QED  BY <3>1
  <2>6. Len(SubSeq(chat, p + 1, Len(chat))) = Len(chat) - p
    <3>. HIDE DEF p
    <3>. QED  BY <2>2, <2>3, <2>5
  <2>7. \A k \in 1 .. Len(chat) - p : SubSeq(chat, p + 1, Len(chat))[k] = chat[p + k]
    BY <2>2, <2>3, <2>4
  <2>. QED  BY <2>3, <2>6, <2>7
<1>3. /\ After(last) \in Seq(Rows) /\ Len(After(last)) = Len(chat) - p
      /\ \A k \in 1 .. Len(chat) - p : After(last)[k] = chat[p + k]
  BY <1>2 DEF After, p
<1>4. \A k \in 1 .. Len(After(last)) : After(last)[k].turn \in Entries
  <2>1. \A k \in 1 .. Len(After(last)) : p + k \in DOMAIN chat /\ After(last)[k] = chat[p + k]
    <3>1. p \in 0 .. Len(chat) /\ Len(chat) \in Nat /\ DOMAIN chat = 1 .. Len(chat)
      BY <1>1
    <3>. QED  BY <1>3, <3>1
  <2>. QED  BY <1>1, <2>1
<1>5. Turns(After(last)) \in Seq(Entries)
  BY <1>3, <1>4 DEF Turns
<1>6. ASSUME NEW n \in DOMAIN chat, last < chat[n].id
      PROVE  After(last) # << >> /\ chat[n].turn \in Range(Turns(After(last)))
  <2>1. p < n /\ n - p \in 1 .. Len(After(last)) /\ p + (n - p) = n
    BY <1>1, <1>3, <1>6
  <2>2. After(last)[n - p] = chat[n]
    BY <1>3, <2>1
  <2>3. n - p \in DOMAIN Turns(After(last)) /\ Turns(After(last))[n - p] = chat[n].turn
    BY <2>1, <2>2 DEF Turns
  <2>. QED  BY <1>3, <2>1, <2>3 DEF Range
<1>7. ASSUME After(last) # << >>
      PROVE  After(last)[Len(After(last))].id = Last
  <2>1. Len(chat) - p # 0
    BY <1>3, <1>7
  <2>2. Len(chat) - p \in 1 .. Len(chat) - p /\ p + (Len(chat) - p) = Len(chat) /\ Len(chat) # 0
    <3>1. p \in 0 .. Len(chat) /\ Len(chat) \in Nat
      BY <1>1
    <3>. QED  BY <2>1, <3>1
  <2>3. After(last)[Len(chat) - p] = chat[p + (Len(chat) - p)]
    BY <1>3, <2>2
  <2>4. chat # << >>
    BY <2>2
  <2>. QED  BY <1>3, <2>2, <2>3, <2>4 DEF Last
<1>. QED  BY <1>3, <1>5, <1>6, <1>7

LEMMA TurnsAreAll ==
  ASSUME Types
  PROVE  /\ Turns(chat) \in Seq(Entries)
         /\ \A n \in DOMAIN chat : chat[n].turn \in Range(Turns(chat))
<1>1. /\ Len(chat) \in Nat /\ DOMAIN chat = 1 .. Len(chat)
      /\ \A n \in DOMAIN chat : chat[n].turn \in Entries
  BY IdsGrow DEF Types
<1>. QED  BY <1>1 DEF Turns, Range

\* What is new since a revision that is not ahead is told of this chat from its last turn.
LEMMA NewsIsTold ==
  ASSUME Types, NEW i \in DOMAIN call, call[i].gen <= gen, NEW since \in Revisions, Known(since)
  PROVE  /\ News(i, since).turns \in Seq(Entries) /\ News(i, since).add \in BOOLEAN
         /\ News(i, since).add =>
              /\ since # NoRev
              /\ since[1] = News(i, since).rev[1] /\ since[2] = News(i, since).rev[2]
         /\ <<News(i, since).rev, IF News(i, since).add THEN since[3] ELSE 0,
              Range(News(i, since).turns)>> \in Truths
<1>. DEFINE from == IF Grown(i, since) THEN since[3] ELSE 0
            rows == After(from)
            last == IF rows = << >> THEN from ELSE rows[Len(rows)].id
            rev  == <<epoch, call[i].gen, last>>
<1>1. /\ epoch \in Nat /\ epoch # 0 /\ gen \in Nat /\ call[i].gen \in Nat /\ Last \in Nat
      /\ since[1] \in Nat /\ since[2] \in Nat /\ since[3] \in Nat
  <2>1. call[i] \in CallRecords
    BY DEF Types
  <2>2. call[i].gen \in Nat
    BY <2>1 DEF CallRecords
  <2>3. epoch \in Nat /\ epoch # 0 /\ gen \in Nat
    BY DEF Types
  <2>4. since[1] \in Nat /\ since[2] \in Nat /\ since[3] \in Nat
    BY DEF Revisions
  <2>. QED  BY <2>2, <2>3, <2>4, LastIsNat
<1>2. from \in Nat
  BY <1>1
<1>3. News(i, since) = [rev |-> rev, turns |-> Turns(rows), add |-> Grown(i, since)]
  BY DEF News, GenOf
<1>4. Grown(i, since) \in BOOLEAN /\ (Grown(i, since) => since[1] = epoch /\ since[2] = call[i].gen)
  BY DEF Grown
<1>5. since[1] = epoch => since # NoRev
  BY <1>1 DEF NoRev
<1>6. /\ rows \in Seq(Rows) /\ Turns(rows) \in Seq(Entries)
      /\ \A n \in DOMAIN chat : from < chat[n].id =>
           rows # << >> /\ chat[n].turn \in Range(Turns(rows))
      /\ rows # << >> => rows[Len(rows)].id = Last
  <2>. HIDE DEF from
  <2>. QED  BY <1>2, AfterIs
<1>7. last \in Nat /\ rev \in Revisions
  BY <1>1, <1>2, <1>6 DEF Revisions
<1>8. Known(rev)
  <2>1. Current(rev) /\ Grown(i, since) => Current(since)
    BY <1>1, <1>4, <1>5 DEF Current
  <2>2. Current(rev) => last <= Last
    BY <1>1, <1>6, <2>1 DEF Known
  <2>. QED  BY <1>1, <2>2 DEF Known
<1>9. Speaks(rev, from, Range(Turns(rows)))
  BY <1>6 DEF Speaks
<1>10. Range(Turns(rows)) \in SUBSET Entries
  BY <1>6, RangeTyped
<1>11. <<rev, from, Range(Turns(rows))>> \in Truths
  <2>. HIDE DEF rev, from, rows
  <2>. QED  BY <1>2, <1>7, <1>8, <1>9, <1>10, TruthIs
<1>. QED  BY <1>3, <1>4, <1>5, <1>6, <1>11

-----------------------------------------------------------------------------
\* Truths outlive what any call does to the chat.

LEMMA ChatGrows ==
  ASSUME Types, NEW turn \in Entries, chat' = Append(chat, [id |-> Last + 1, turn |-> turn])
  PROVE  /\ chat' \in Seq(Rows) /\ Last' = Last + 1
         /\ \A m, n \in DOMAIN chat' : m < n => chat'[m].id < chat'[n].id
         /\ \A n \in DOMAIN chat' : \/ n \in DOMAIN chat /\ chat'[n] = chat[n]
                                    \/ chat'[n].id = Last + 1 /\ chat'[n].turn = turn
<1>. DEFINE row == [id |-> Last + 1, turn |-> turn]
<1>1. Last \in Nat /\ row \in Rows /\ row.id = Last + 1 /\ row.turn = turn
  BY LastIsNat DEF Rows
<1>2. Len(chat) \in Nat /\ DOMAIN chat = 1 .. Len(chat) /\ chat \in Seq(Rows)
  BY DEF Types
<1>. HIDE DEF row
<1>3. /\ chat' \in Seq(Rows) /\ Len(chat') = Len(chat) + 1
      /\ \A n \in 1 .. Len(chat) : chat'[n] = chat[n]
      /\ chat'[Len(chat) + 1] = row
  <2>1. chat' = Append(chat, row)
    BY DEF row
  <2>. QED  BY <1>1, <1>2, <2>1, AppendProperties
<1>4. DOMAIN chat' = 1 .. Len(chat) + 1
  BY <1>2, <1>3
<1>5. \A n \in DOMAIN chat' : n \in DOMAIN chat \/ n = Len(chat) + 1
  BY <1>2, <1>4
<1>6. \A n \in DOMAIN chat' : \/ n \in DOMAIN chat /\ chat'[n] = chat[n]
                              \/ n = Len(chat) + 1 /\ chat'[n] = row
  BY <1>2, <1>3, <1>5
<1>7. \A m, n \in DOMAIN chat' : m < n => chat'[m].id < chat'[n].id
  <2>1. SUFFICES ASSUME NEW m \in DOMAIN chat', NEW n \in DOMAIN chat', m < n
                 PROVE  chat'[m].id < chat'[n].id
    OBVIOUS
  <2>2. m \in DOMAIN chat /\ chat'[m] = chat[m]
    BY <1>2, <1>3, <1>4, <2>1
  <2>3. chat[m].id \in Nat /\ chat[m].id <= Last
    BY <2>2, IdsGrow
  <2>4. CASE n \in DOMAIN chat /\ chat'[n] = chat[n]
    BY <2>1, <2>2, <2>4 DEF Types
  <2>5. CASE chat'[n] = row
    BY <1>1, <2>2, <2>3, <2>5
  <2>. QED  BY <1>6, <2>4, <2>5
<1>8. Last' = Last + 1
  <2>1. chat' # << >> /\ chat'[Len(chat')].id = Last + 1
    <3>1. Len(chat') # 0 /\ chat'[Len(chat')] = row
      BY <1>2, <1>3
    <3>. QED  BY <1>1, <3>1
  <2>. QED  BY <2>1 DEF Last
<1>. QED  BY <1>1, <1>3, <1>6, <1>7, <1>8

LEMMA TruthsStay ==
  ASSUME Types, epoch' = epoch, gen' = gen,
         \/ Replacing'
         \/ ~Replacing /\ chat' = chat
         \/ ~Replacing /\ \E turn \in Entries : chat' = Append(chat, [id |-> Last + 1, turn |-> turn])
  PROVE  Truths \subseteq Truths'
<1>1. SUFFICES ASSUME NEW truth \in Truths
               PROVE  Known(truth[1])' /\ Speaks(truth[1], truth[2], truth[3])'
  BY DEF Truths
<1>. DEFINE rev   == truth[1]
            from  == truth[2]
            turns == truth[3]
<1>2. /\ rev \in Revisions /\ rev[3] \in Nat /\ from \in Nat
      /\ Known(rev) /\ Speaks(rev, from, turns)
  BY DEF Truths, Revisions
<1>. HIDE DEF rev, from, turns
<1>3. Last \in Nat
  BY LastIsNat
<1>4. CASE Replacing'
  BY <1>2, <1>4 DEF Known, Speaks, Current, rev, from, turns
<1>5. CASE ~Replacing /\ chat' = chat
  <2>1. Current(rev)' => Current(rev)
    BY <1>5 DEF Current
  <2>2. Last' = Last
    BY <1>5 DEF Last
  <2>3. Known(rev)'
    BY <1>2, <2>1, <2>2 DEF Known
  <2>4. Speaks(rev, from, turns)'
    BY <1>2, <1>5, <2>1 DEF Speaks
  <2>. QED  BY <2>3, <2>4 DEF rev, from, turns
<1>6. CASE ~Replacing /\ \E turn \in Entries : chat' = Append(chat, [id |-> Last + 1, turn |-> turn])
  <2>1. Current(rev)' => Current(rev)
    BY <1>6 DEF Current
  <2>2. PICK turn \in Entries : chat' = Append(chat, [id |-> Last + 1, turn |-> turn])
    BY <1>6
  <2>3. /\ Last' = Last + 1
        /\ \A n \in DOMAIN chat' : \/ n \in DOMAIN chat /\ chat'[n] = chat[n]
                                   \/ chat'[n].id = Last + 1 /\ chat'[n].turn = turn
    BY <2>2, ChatGrows
  <2>4. Current(rev)' => rev[3] <= Last
    BY <1>2, <2>1 DEF Known
  <2>5. Known(rev)'
    BY <1>2, <1>3, <2>1, <2>3, <2>4 DEF Known
  <2>6. Speaks(rev, from, turns)'
    <3>1. SUFFICES ASSUME Current(rev)', NEW n \in DOMAIN chat',
                          from < chat'[n].id, chat'[n].id <= rev[3]
                   PROVE  chat'[n].turn \in turns
      BY DEF Speaks
    <3>2. ~(chat'[n].id = Last + 1)
      BY <1>2, <1>3, <2>4, <3>1
    <3>3. n \in DOMAIN chat /\ chat'[n] = chat[n]
      BY <2>3, <3>2
    <3>. QED  BY <1>2, <2>1, <3>1, <3>3 DEF Speaks
  <2>. QED  BY <2>5, <2>6 DEF rev, from, turns
<1>. QED  BY <1>4, <1>5, <1>6

LEMMA TruthsAge ==
  ASSUME Types, \/ epoch' = epoch /\ gen' = gen + 1
                \/ epoch' = epoch + 1
  PROVE  Truths \subseteq Truths'
<1>1. SUFFICES ASSUME NEW truth \in Truths
               PROVE  Known(truth[1])' /\ Speaks(truth[1], truth[2], truth[3])'
  BY DEF Truths
<1>. DEFINE rev == truth[1]
<1>2. rev \in Revisions /\ rev[1] \in Nat /\ rev[2] \in Nat /\ Known(rev)
  BY DEF Truths, Revisions
<1>. HIDE DEF rev
<1>3. epoch \in Nat /\ gen \in Nat
  BY DEF Types
<1>4. rev[1] <= epoch' /\ (rev[1] = epoch' => rev[2] <= gen') /\ ~(rev[1] = epoch' /\ rev[2] = gen')
  BY <1>2, <1>3 DEF Known
<1>5. ~Current(rev)'
  BY <1>4 DEF Current
<1>. QED  BY <1>4, <1>5 DEF Known, Speaks, rev

LEMMA ReplacingIs ==
  Types /\ Holding => (Replacing <=> \E i \in DOMAIN call : call[i].at = "replaced")
<1>1. SUFFICES ASSUME Types, Holding
               PROVE  Replacing <=> \E i \in DOMAIN call : call[i].at = "replaced"
  OBVIOUS
<1>2. DOMAIN call = 1 .. Len(call) /\ Len(call) \in Nat /\ holder \in 0 .. Len(call)
  BY <1>1 DEF Types
<1>3. Replacing => holder \in DOMAIN call
  BY <1>2 DEF Replacing
<1>4. ASSUME NEW i \in DOMAIN call, call[i].at = "replaced"
      PROVE  Replacing
  BY <1>1, <1>2, <1>4 DEF Replacing, Holding, Locked
<1>. QED  BY <1>3, <1>4 DEF Replacing

-----------------------------------------------------------------------------
\* What a step leaves of the calls it is not of.

LEMMA CallIsTyped ==
  ASSUME Types, NEW i \in DOMAIN call
  PROVE  /\ call[i] \in CallRecords /\ call[i].kind \in Kinds /\ call[i].by \in Clients
         /\ call[i].at \in Stages(call[i].kind)
         /\ call[i].sent \in Revisions /\ call[i].gen \in Nat /\ call[i].mine \in SUBSET Entries
         /\ call[i].before \in Revisions /\ call[i].rev \in Revisions
         /\ call[i].turns \in Seq(Entries) /\ call[i].add \in BOOLEAN
         /\ i \in Nat /\ i # 0
<1>1. call[i] \in CallRecords /\ call[i].at \in Stages(call[i].kind) /\ i \in Nat /\ i # 0
  BY DEF Types
<1>. QED  BY <1>1 DEF CallRecords

LEMMA ClientIsTyped ==
  ASSUME Types, NEW c \in Clients
  PROVE  /\ client[c] \in ClientRecords /\ client[c].rev \in Revisions
         /\ client[c].turnRev \in Revisions /\ client[c].pending \in BOOLEAN
         /\ client[c].shown \in Seq(Entries) /\ Shown(c) \in SUBSET Entries
<1>1. client[c] \in ClientRecords
  BY DEF Types
<1>2. client[c].shown \in Seq(Entries)
  BY <1>1 DEF ClientRecords
<1>. QED  BY <1>1, <1>2, RangeTyped DEF ClientRecords, Shown

LEMMA ShownIsTyped ==
  ASSUME Types', NEW c \in Clients
  PROVE  Shown(c)' \in SUBSET Entries
<1>1. client'[c].shown \in Seq(Entries)
  BY DEF Types, ClientRecords
<1>. QED  BY <1>1, RangeTyped DEF Shown

LEMMA CallChanges ==
  ASSUME Types, NEW i \in DOMAIN call, NEW r \in CallRecords, r.at \in Stages(r.kind),
         call' = [call EXCEPT ![i] = r]
  PROVE  /\ call' \in Seq(CallRecords) /\ Len(call') = Len(call) /\ DOMAIN call' = DOMAIN call
         /\ call'[i] = r /\ \A j \in DOMAIN call : j # i => call'[j] = call[j]
         /\ \A j \in DOMAIN call' : call'[j].at \in Stages(call'[j].kind)
<1>1. call \in Seq(CallRecords) /\ DOMAIN call = 1 .. Len(call) /\ Len(call) \in Nat
  BY DEF Types
<1>2. /\ call' \in Seq(CallRecords) /\ Len(call') = Len(call)
      /\ \A j \in 1 .. Len(call) : call'[j] = IF j = i THEN r ELSE call[j]
  BY <1>1, ExceptSeq
<1>. QED  BY <1>1, <1>2 DEF Types

LEMMA CallAppends ==
  ASSUME Types, NEW r \in CallRecords, r.at \in Stages(r.kind), call' = Append(call, r)
  PROVE  /\ call' \in Seq(CallRecords) /\ Len(call') = Len(call) + 1 /\ Len(call) \in Nat
         /\ DOMAIN call' = DOMAIN call \cup {Len(call) + 1} /\ Len(call) + 1 \notin DOMAIN call
         /\ \A j \in DOMAIN call : j < Len(call) + 1
         /\ call'[Len(call) + 1] = r /\ \A j \in DOMAIN call : call'[j] = call[j]
         /\ \A j \in DOMAIN call' : call'[j].at \in Stages(call'[j].kind)
<1>1. call \in Seq(CallRecords) /\ DOMAIN call = 1 .. Len(call) /\ Len(call) \in Nat
  BY DEF Types
<1>2. /\ call' \in Seq(CallRecords) /\ Len(call') = Len(call) + 1
      /\ \A j \in 1 .. Len(call) : call'[j] = call[j]
      /\ call'[Len(call) + 1] = r
  BY <1>1, AppendProperties
<1>3. DOMAIN call' = 1 .. Len(call) + 1
  BY <1>2
<1>4. 1 .. Len(call) + 1 = (1 .. Len(call)) \cup {Len(call) + 1}
  BY <1>1
<1>5. DOMAIN call' = DOMAIN call \cup {Len(call) + 1}
  BY <1>1, <1>3, <1>4
<1>6. \A j \in DOMAIN call' : call'[j].at \in Stages(call'[j].kind)
  BY <1>1, <1>2, <1>5 DEF Types
<1>. QED  BY <1>1, <1>2, <1>5, <1>6

LEMMA CallKeeps ==
  ASSUME Types, Types', NEW j \in DOMAIN call, CallInv(j), call'[j] = call[j],
         Truths \subseteq Truths',
         \A c \in Clients : InFlight(c, j)' =>
           /\ InFlight(c, j)
           /\ client'[c].turnRev = client[c].turnRev /\ Shown(c) \subseteq Shown(c)',
         call[j].at \in Unsent => \A c \in Clients : call[j].by = c =>
           /\ client'[c].ui = client[c].ui /\ (LastTurn(c, j) => LastTurn(c, j)')
           /\ client[c].rev # NoRev => client'[c].rev = client[c].rev,
         call[j].at \in {"saving", "saved", "replaced"} => UNCHANGED <<epoch, gen, chat>>,
         call[j].at \in {"reading", "catchingUp"} => gen <= gen'
  PROVE  CallInv(j)'
<1>1. Catching(j)'
  BY DEF CallInv, Catching
<1>2. Asking(j)'
  <2>1. SUFFICES ASSUME NEW c \in Clients, InFlight(c, j)'
                 PROVE  /\ call'[j].at # "over" /\ client'[c].turnRev = call'[j].sent
                        /\ Question(j) \in Shown(c)' /\ <<call'[j].sent, 0, Shown(c)'>> \in Truths'
    BY DEF Asking, Question
  <2>2. /\ InFlight(c, j) /\ client'[c].turnRev = client[c].turnRev
        /\ Shown(c) \subseteq Shown(c)'
    BY <2>1
  <2>3. /\ call[j].at # "over" /\ client[c].turnRev = call[j].sent
        /\ Question(j) \in Shown(c) /\ <<call[j].sent, 0, Shown(c)>> \in Truths
    BY <2>2 DEF CallInv, Asking
  <2>4. Shown(c)' \in SUBSET Entries
    BY ShownIsTyped
  <2>5. <<call[j].sent, 0, Shown(c)'>> \in Truths
    BY <2>2, <2>3, <2>4, MoreTurns
  <2>. QED  BY <2>2, <2>3, <2>5
<1>3. Sending(j)'
  BY DEF CallInv, Sending
<1>4. Saving(j)'
  <2>1. call[j].at = "saving" => call[j].before = Revision'
    BY DEF CallInv, Saving, Revision, Last
  <2>2. ASSUME call[j].at = "saved", call[j].sent # NoRev, call[j].sent = call[j].before,
               NEW c \in Clients, InFlight(c, j)', NEW n \in DOMAIN chat'
        PROVE  chat'[n].turn \in Shown(c)'
    BY <2>2 DEF CallInv, Saving
  <2>3. Is(j, "reset", "replaced") => chat' = << >>
    BY DEF CallInv, Saving, Is
  <2>. QED  BY <2>1, <2>2, <2>3 DEF Saving, Is
<1>5. Dated(j)'
  <2>1. Dated(j) /\ call[j].gen \in Nat /\ gen \in Nat /\ gen' \in Nat
    BY CallIsTyped DEF CallInv, Types
  <2>2. <<call[j].sent, 0, Entries>> \in Truths' /\ (call[j].at # "replied" => call[j].rev = NoRev)
    BY <2>1 DEF Dated
  <2>3. call[j].at \in {"reading", "catchingUp"} => call[j].gen <= gen'
    BY <2>1 DEF Dated
  <2>. QED  BY <2>2, <2>3 DEF Dated, Entries
<1>6. TurnTold(j)'
  <2>1. SUFFICES ASSUME call[j].kind = "turn", call[j].at = "replied"
                 PROVE  /\ <<call[j].rev, 0, Entries>> \in Truths'
                        /\ ~call[j].add /\ call[j].sent # NoRev =>
                             \A c \in Clients : InFlight(c, j)' =>
                               <<call[j].rev, 0, Shown(c)' \cup {Reply(j)}>> \in Truths'
    BY DEF TurnTold, Reply
  <2>2. TurnTold(j)
    BY DEF CallInv
  <2>3. ASSUME ~call[j].add, call[j].sent # NoRev, NEW c \in Clients, InFlight(c, j)'
        PROVE  <<call[j].rev, 0, Shown(c)' \cup {Reply(j)}>> \in Truths'
    <3>1. InFlight(c, j) /\ Shown(c) \subseteq Shown(c)'
      BY <2>3
    <3>2. <<call[j].rev, 0, Shown(c) \cup {Reply(j)}>> \in Truths
      BY <2>1, <2>2, <2>3, <3>1 DEF TurnTold
    <3>3. Shown(c)' \in SUBSET Entries
      BY ShownIsTyped
    <3>4. Reply(j) \in Entries
      BY CallIsTyped DEF Reply, Entries
    <3>. QED  BY <3>1, <3>2, <3>3, <3>4, MoreTurns
  <2>. QED  BY <2>1, <2>2, <2>3 DEF TurnTold
<1>7. FetchTold(j)' /\ ReplaceTold(j)'
  BY DEF CallInv, FetchTold, Since, ReplaceTold
<1>. QED  BY <1>1, <1>2, <1>3, <1>4, <1>5, <1>6, <1>7 DEF CallInv

\* A call stays of its kind and its client's.
LEMMA FlightsStay ==
  ASSUME Types, DOMAIN call' = DOMAIN call, client' = client,
         \A j \in DOMAIN call : call'[j].kind = call[j].kind /\ call'[j].by = call[j].by
  PROVE  \A j \in DOMAIN call : \A c \in Clients :
           (InFlight(c, j)' <=> InFlight(c, j)) /\ (LastTurn(c, j)' <=> LastTurn(c, j))
BY DEF InFlight, LastTurn

\* A step of the daemon for a call: the call is still what it was and known truths are true.
LEMMA DaemonKeeps ==
  ASSUME Inv, NEW i \in DOMAIN call, NEW r \in CallRecords, r.at \in Stages(r.kind),
         r.kind = call[i].kind, r.by = call[i].by, call[i].at # "over",
         call' = [call EXCEPT ![i] = r], client' = client,
         epoch' = epoch, gen' \in Nat, gen <= gen', chat' \in Seq(Rows),
         \A m, n \in DOMAIN chat' : m < n => chat'[m].id < chat'[n].id,
         \/ holder \in {0, i} /\ holder' \in {0, i} /\ (r.at \in Locked <=> holder' = i)
         \/ UNCHANGED <<chat, gen, holder>> /\ r.at \notin Locked /\ call[i].at \notin Locked,
         Truths \subseteq Truths', CallInv(i)'
  PROVE  Inv'
<1>1. /\ call' \in Seq(CallRecords) /\ Len(call') = Len(call) /\ DOMAIN call' = DOMAIN call
      /\ call'[i] = r /\ \A j \in DOMAIN call : j # i => call'[j] = call[j]
      /\ \A j \in DOMAIN call' : call'[j].at \in Stages(call'[j].kind)
  BY CallChanges DEF Inv
<1>2. DOMAIN call = 1 .. Len(call) /\ Len(call) \in Nat /\ holder \in 0 .. Len(call)
  BY DEF Inv, Types
<1>3. Types'
  <2>1. holder' \in 0 .. Len(call')
    BY <1>1, <1>2
  <2>. QED  BY <1>1, <2>1 DEF Inv, Types
<1>4. Holding'
  <2>1. ASSUME NEW j \in DOMAIN call'
        PROVE  call'[j].at \in Locked <=> holder' = j
    <3>1. (call[j].at \in Locked <=> holder = j) /\ (call[i].at \in Locked <=> holder = i) /\ j # 0
      BY <1>1, <1>2, <2>1 DEF Inv, Holding
    <3>. QED  BY <1>1, <2>1, <3>1
  <2>. QED  BY <2>1 DEF Holding, Locked
<1>5. Waiting'
  <2>1. \A j \in DOMAIN call : call'[j].by = call[j].by /\ (Replaces(j)' => Replaces(j))
    BY <1>1 DEF Replaces
  <2>. QED  BY <1>1, <2>1 DEF Inv, Waiting
<1>6. \A c \in Clients : Clear(c)'
  BY DEF Inv, Clear, Shown
<1>7. ASSUME NEW j \in DOMAIN call', j # i
      PROVE  CallInv(j)'
  <2>1. j \in DOMAIN call /\ call'[j] = call[j]
    BY <1>1, <1>7
  <2>2. \A c \in Clients : InFlight(c, j)' => /\ InFlight(c, j)
                                              /\ client'[c].turnRev = client[c].turnRev
                                              /\ Shown(c) \subseteq Shown(c)'
    <3>1. \A k \in DOMAIN call : call'[k].kind = call[k].kind /\ call'[k].by = call[k].by
      BY <1>1
    <3>. QED  BY <1>1, <2>1, <3>1, FlightsStay DEF Inv, Shown
  <2>3. \A c \in Clients : LastTurn(c, j) => LastTurn(c, j)'
    BY <1>1 DEF LastTurn
  <2>4. call[j].at \in {"saving", "saved", "replaced"} => UNCHANGED <<epoch, gen, chat>>
    <3>1. call[j].at \in {"saving", "saved", "replaced"} => holder = j
      BY <2>1 DEF Inv, Holding, Locked
    <3>2. j # 0
      BY <1>2, <2>1
    <3>. QED  BY <1>7, <3>1, <3>2
  <2>. QED  BY <1>3, <2>1, <2>2, <2>3, <2>4, CallKeeps DEF Inv
<1>. QED  BY <1>1, <1>3, <1>4, <1>5, <1>6, <1>7 DEF Inv

\* A step that tells nobody anything.
LEMMA QuietKeeps ==
  ASSUME Inv, NEW i \in DOMAIN call, NEW r \in CallRecords, r.at \in Stages(r.kind),
         r.kind = call[i].kind, r.by = call[i].by, r.sent = call[i].sent, r.rev = call[i].rev,
         call[i].at \notin {"replied", "over"},
         r.at \notin {"replied", "over", "saving", "saved"},
         r.at \in Unsent => call[i].at \in Unsent,
         r.kind = "turn" /\ r.at \in {"asked", "reading"} =>
           call[i].at \in {"asked", "reading"} /\ r.mine = call[i].mine,
         r.at \in {"reading", "catchingUp"} => r.gen <= gen',
         r.kind = "reset" /\ r.at = "replaced" => chat' = << >>,
         call' = [call EXCEPT ![i] = r], client' = client,
         epoch' = epoch, gen' = gen, chat' \in Seq(Rows),
         \A m, n \in DOMAIN chat' : m < n => chat'[m].id < chat'[n].id,
         \/ holder \in {0, i} /\ holder' \in {0, i} /\ (r.at \in Locked <=> holder' = i)
         \/ UNCHANGED <<chat, holder>> /\ r.at \notin Locked /\ call[i].at \notin Locked,
         Truths \subseteq Truths'
  PROVE  Inv'
<1>1. /\ DOMAIN call' = DOMAIN call /\ call'[i] = r
      /\ \A j \in DOMAIN call : j # i => call'[j] = call[j]
  BY CallChanges DEF Inv
<1>2. \A c \in Clients : (InFlight(c, i)' <=> InFlight(c, i)) /\ (LastTurn(c, i)' <=> LastTurn(c, i))
  <2>1. \A k \in DOMAIN call : call'[k].kind = call[k].kind /\ call'[k].by = call[k].by
    BY <1>1
  <2>. QED  BY <1>1, <2>1, FlightsStay DEF Inv
<1>3. CallInv(i)
  BY DEF Inv
<1>4. Catching(i)'
  BY <1>1, <1>2, <1>3 DEF CallInv, Catching
<1>5. Asking(i)'
  BY <1>1, <1>2, <1>3 DEF CallInv, Asking, Shown, Question
<1>6. Sending(i)'
  BY <1>1, <1>3 DEF CallInv, Sending
<1>7. Saving(i)'
  BY <1>1 DEF Saving, Is
<1>8. Dated(i)'
  BY <1>1, <1>3 DEF CallInv, Dated, Entries
<1>9. TurnTold(i)' /\ FetchTold(i)' /\ ReplaceTold(i)'
  BY <1>1 DEF TurnTold, FetchTold, ReplaceTold
<1>10. CallInv(i)'
  BY <1>4, <1>5, <1>6, <1>7, <1>8, <1>9 DEF CallInv
<1>11. gen' \in Nat /\ gen <= gen'
  BY DEF Inv, Types
<1>. QED  BY <1>10, <1>11, DaemonKeeps

-----------------------------------------------------------------------------
\* The steps of the daemon, one by one.

LEMMA Unreplaced ==
  ASSUME Types, NEW i \in DOMAIN call, NEW r \in CallRecords, r.at \in Stages(r.kind),
         call' = [call EXCEPT ![i] = r], call[i].at # "replaced", r.at # "replaced",
         holder' = holder \/ (holder \in {0, i} /\ holder' \in {0, i})
  PROVE  Replacing' <=> Replacing
<1>1. /\ DOMAIN call' = DOMAIN call /\ call'[i] = r
      /\ \A j \in DOMAIN call : j # i => call'[j] = call[j]
  BY CallChanges
<1>2. DOMAIN call = 1 .. Len(call) /\ Len(call) \in Nat /\ holder \in 0 .. Len(call)
  BY DEF Types
<1>3. holder # 0 => holder \in DOMAIN call
  BY <1>2
<1>. QED  BY <1>1, <1>3 DEF Replacing

\* A step for a call that leaves the chat alone.
LEMMA ChatStays ==
  ASSUME Types, NEW i \in DOMAIN call, NEW r \in CallRecords, r.at \in Stages(r.kind),
         call' = [call EXCEPT ![i] = r], call[i].at # "replaced", r.at # "replaced",
         holder' = holder \/ (holder \in {0, i} /\ holder' \in {0, i}),
         UNCHANGED <<epoch, gen, chat>>
  PROVE  Truths \subseteq Truths'
<1>1. Replacing' <=> Replacing
  BY Unreplaced
<1>. QED  BY <1>1, TruthsStay

LEMMA ReadsGenKeeps == ASSUME Inv, NEW i \in DOMAIN call, ReadsGen(i) PROVE  Inv'
<1>. DEFINE r == [call[i] EXCEPT !.gen = gen,
                                 !.at = IF call[i].at = "catching" THEN "catchingUp" ELSE "reading"]
<1>1. /\ call[i] \in CallRecords /\ gen \in Nat
      /\ call' = [call EXCEPT ![i] = r] /\ UNCHANGED <<epoch, gen, chat, holder, client>>
      /\ \/ call[i].kind = "turn" /\ call[i].at \in {"catching", "asked"}
         \/ call[i].kind = "fetch" /\ call[i].at = "asked"
  BY CallIsTyped DEF Inv, Types, ReadsGen, Is
<1>2. r \in CallRecords
  BY <1>1 DEF CallRecords, EveryStage
<1>3. /\ r.kind = call[i].kind /\ r.by = call[i].by /\ r.sent = call[i].sent
      /\ r.rev = call[i].rev /\ r.mine = call[i].mine /\ r.gen = gen
      /\ r.at = IF call[i].at = "catching" THEN "catchingUp" ELSE "reading"
  BY <1>1 DEF CallRecords
<1>4. r.at \in Stages(r.kind)
  BY <1>1, <1>3 DEF Stages
<1>. HIDE DEF r
<1>5. Truths \subseteq Truths'
  BY <1>1, <1>2, <1>3, <1>4, ChatStays DEF Inv
<1>6. /\ call[i].at \notin {"replied", "over"} /\ call[i].at \notin Locked
      /\ r.at \notin {"replied", "over", "saving", "saved", "replaced"} /\ r.at \notin Locked
      /\ r.at \in Unsent => call[i].at \in Unsent
      /\ r.kind = "turn" /\ r.at \in {"asked", "reading"} => call[i].at \in {"asked", "reading"}
      /\ r.gen <= gen'
  BY <1>1, <1>3 DEF Locked, Unsent
<1>7. /\ chat' \in Seq(Rows) /\ \A m, n \in DOMAIN chat' : m < n => chat'[m].id < chat'[n].id
  BY <1>1 DEF Inv, Types
<1>. QED  BY <1>1, <1>2, <1>3, <1>4, <1>5, <1>6, <1>7, QuietKeeps

LEMMA TurnReadsKeeps == ASSUME Inv, NEW i \in DOMAIN call, TurnReads(i) PROVE  Inv'
<1>. DEFINE r == [call[i] EXCEPT !.at = "answering", !.gen = 0, !.mine = {}]
<1>1. /\ call[i] \in CallRecords
      /\ call' = [call EXCEPT ![i] = r] /\ UNCHANGED <<epoch, gen, chat, holder, client>>
      /\ call[i].kind = "turn" /\ call[i].at = "reading"
  BY CallIsTyped DEF Inv, TurnReads, Is
<1>2. r \in CallRecords
  BY <1>1 DEF CallRecords, EveryStage
<1>3. /\ r.kind = "turn" /\ r.by = call[i].by /\ r.sent = call[i].sent
      /\ r.rev = call[i].rev /\ r.at = "answering"
  BY <1>1 DEF CallRecords
<1>4. r.at \in Stages(r.kind)
  BY <1>3 DEF Stages
<1>. HIDE DEF r
<1>5. Truths \subseteq Truths'
  BY <1>1, <1>2, <1>3, <1>4, ChatStays DEF Inv
<1>. QED  BY <1>1, <1>2, <1>3, <1>4, <1>5, QuietKeeps DEF Inv, Types, Locked, Unsent

LEMMA CompactBeginsKeeps == ASSUME Inv, NEW i \in DOMAIN call, CompactBegins(i) PROVE  Inv'
<1>. DEFINE r == [call[i] EXCEPT !.at = "summarising"]
<1>1. /\ call[i] \in CallRecords
      /\ call' = [call EXCEPT ![i] = r] /\ UNCHANGED <<epoch, gen, chat, client>>
      /\ call[i].kind = "compact" /\ call[i].at = "asked" /\ holder = 0 /\ holder' = i
  BY CallIsTyped DEF Inv, CompactBegins, Locks, Reaches, Is
<1>2. r \in CallRecords
  BY <1>1 DEF CallRecords, EveryStage
<1>3. /\ r.kind = "compact" /\ r.by = call[i].by /\ r.sent = call[i].sent
      /\ r.rev = call[i].rev /\ r.at = "summarising"
  BY <1>1 DEF CallRecords
<1>4. r.at \in Stages(r.kind)
  BY <1>3 DEF Stages
<1>. HIDE DEF r
<1>5. Truths \subseteq Truths'
  BY <1>1, <1>2, <1>3, <1>4, ChatStays DEF Inv
<1>. QED  BY <1>1, <1>2, <1>3, <1>4, <1>5, QuietKeeps DEF Inv, Types, Locked, Unsent

LEMMA CompactFailsKeeps == ASSUME Inv, NEW i \in DOMAIN call, CompactFails(i) PROVE  Inv'
<1>. DEFINE r == [call[i] EXCEPT !.at = "failed"]
<1>1. /\ call[i] \in CallRecords
      /\ call' = [call EXCEPT ![i] = r] /\ UNCHANGED <<epoch, gen, chat, client>>
      /\ call[i].kind = "compact"
      /\ \/ call[i].at = "summarising" /\ holder' = 0
         \/ call[i].at = "asked" /\ holder = 0 /\ holder' = 0
  BY CallIsTyped DEF Inv, CompactFails, Reaches, Is
<1>2. r \in CallRecords
  BY <1>1 DEF CallRecords, EveryStage
<1>3. /\ r.kind = "compact" /\ r.by = call[i].by /\ r.sent = call[i].sent
      /\ r.rev = call[i].rev /\ r.at = "failed"
  BY <1>1 DEF CallRecords
<1>4. r.at \in Stages(r.kind)
  BY <1>3 DEF Stages
<1>5. holder \in {0, i} /\ i # 0
  BY <1>1, CallIsTyped DEF Inv, Holding, Locked
<1>. HIDE DEF r
<1>6. Truths \subseteq Truths'
  BY <1>1, <1>2, <1>3, <1>4, <1>5, ChatStays DEF Inv
<1>. QED  BY <1>1, <1>2, <1>3, <1>4, <1>5, <1>6, QuietKeeps DEF Inv, Types, Locked, Unsent

\* A turn under way goes on, and what is shown beside it is still all of what it was.
LEMMA AskingStays ==
  ASSUME Inv, NEW i \in DOMAIN call, call'[i].at # "over", call'[i].sent = call[i].sent,
         client' = client, \A c \in Clients : InFlight(c, i)' => InFlight(c, i),
         Truths \subseteq Truths'
  PROVE  Asking(i)'
<1>1. Asking(i)
  BY DEF Inv, CallInv
<1>. QED  BY <1>1 DEF Asking, Shown, Question

LEMMA NothingIsTold == Types => <<NoRev, 0, Entries>> \in Truths
BY NoRevSpeaks

LEMMA OverIsTyped ==
  ASSUME Types, NEW i \in DOMAIN call
  PROVE  /\ Over(i) \in CallRecords /\ Over(i).at = "over" /\ Over(i).at \in Stages(Over(i).kind)
         /\ Over(i).kind = call[i].kind /\ Over(i).by = call[i].by
         /\ Over(i).sent = NoRev /\ Over(i).rev = NoRev
<1>1. call[i] \in CallRecords /\ call[i].kind \in Kinds
  BY CallIsTyped
<1>2. NoRev \in Revisions /\ << >> \in Seq(Entries)
  BY RevisionTyped
<1>3. Over(i) \in CallRecords
  BY <1>1, <1>2 DEF Over, CallRecords, EveryStage
<1>4. /\ Over(i).at = "over" /\ Over(i).kind = call[i].kind /\ Over(i).by = call[i].by
      /\ Over(i).sent = NoRev /\ Over(i).rev = NoRev
  BY <1>1 DEF Over, CallRecords
<1>5. "over" \in Stages(call[i].kind)
  BY <1>1 DEF Stages, Kinds
<1>. QED  BY <1>3, <1>4, <1>5

LEMMA OverKeeps ==
  ASSUME Types, Types', NEW i \in DOMAIN call, call'[i] = Over(i), \A c \in Clients : ~InFlight(c, i)'
  PROVE  CallInv(i)'
<1>1. call'[i].at = "over" /\ call'[i].sent = NoRev /\ call'[i].rev = NoRev
  BY OverIsTyped
<1>2. <<NoRev, 0, Entries>> \in Truths'
  <2>1. (Types => <<NoRev, 0, Entries>> \in Truths)'
    BY NothingIsTold, PTL
  <2>. QED  BY <2>1 DEF NoRev, Entries
<1>3. Catching(i)' /\ Asking(i)' /\ Sending(i)' /\ Saving(i)'
  BY <1>1 DEF Catching, Unsent, Asking, Sending, Saving, Is
<1>4. Dated(i)'
  BY <1>1, <1>2 DEF Dated, NoRev, Entries
<1>5. TurnTold(i)' /\ FetchTold(i)' /\ ReplaceTold(i)'
  BY <1>1 DEF TurnTold, FetchTold, ReplaceTold
<1>. QED  BY <1>3, <1>4, <1>5 DEF CallInv

LEMMA SaveBeginsKeeps == ASSUME Inv, NEW i \in DOMAIN call, SaveBegins(i) PROVE  Inv'
<1>. DEFINE r == [call[i] EXCEPT !.at = "saving", !.before = Revision]
<1>1. /\ call[i] \in CallRecords /\ Revision \in Revisions
      /\ call' = [call EXCEPT ![i] = r] /\ UNCHANGED <<epoch, gen, chat, client>>
      /\ call[i].kind = "turn" /\ call[i].at = "answering" /\ holder = 0 /\ holder' = i
  BY CallIsTyped, RevisionTyped DEF Inv, SaveBegins, Locks, Is
<1>2. r \in CallRecords
  BY <1>1 DEF CallRecords, EveryStage
<1>3. /\ r.kind = "turn" /\ r.by = call[i].by /\ r.sent = call[i].sent
      /\ r.rev = call[i].rev /\ r.at = "saving" /\ r.before = Revision
  BY <1>1 DEF CallRecords
<1>4. r.at \in Stages(r.kind)
  BY <1>3 DEF Stages
<1>. HIDE DEF r
<1>5. Truths \subseteq Truths'
  BY <1>1, <1>2, <1>3, <1>4, ChatStays DEF Inv
<1>6. /\ DOMAIN call' = DOMAIN call /\ call'[i] = r
      /\ \A j \in DOMAIN call : j # i => call'[j] = call[j]
  BY <1>1, <1>2, <1>4, CallChanges DEF Inv
<1>7. \A c \in Clients : InFlight(c, i)' => InFlight(c, i)
  <2>1. \A j \in DOMAIN call : call'[j].kind = call[j].kind /\ call'[j].by = call[j].by
    BY <1>1, <1>3, <1>6
  <2>. QED  BY <1>1, <1>6, <2>1, FlightsStay DEF Inv
<1>8. CallInv(i)'
  <2>1. Asking(i)'
    BY <1>1, <1>3, <1>5, <1>6, <1>7, AskingStays
  <2>2. Catching(i)' /\ Sending(i)' /\ TurnTold(i)' /\ FetchTold(i)' /\ ReplaceTold(i)'
    BY <1>3, <1>6 DEF Catching, Unsent, Sending, TurnTold, FetchTold, ReplaceTold
  <2>3. Saving(i)'
    <3>1. Revision' = Revision
      BY <1>1 DEF Revision, Last
    <3>. QED  BY <1>3, <1>6, <3>1 DEF Saving, Is
  <2>4. Dated(i)'
    BY <1>1, <1>3, <1>5, <1>6 DEF Inv, CallInv, Dated, Entries
  <2>. QED  BY <2>1, <2>2, <2>3, <2>4 DEF CallInv
<1>9. /\ chat' \in Seq(Rows) /\ \A m, n \in DOMAIN chat' : m < n => chat'[m].id < chat'[n].id
      /\ epoch' = epoch /\ gen' \in Nat /\ gen <= gen'
  BY <1>1 DEF Inv, Types
<1>10. holder \in {0, i} /\ holder' \in {0, i} /\ (r.at \in Locked <=> holder' = i)
  BY <1>1, <1>3 DEF Locked
<1>. QED  BY <1>1, <1>2, <1>3, <1>4, <1>5, <1>8, <1>9, <1>10, DaemonKeeps

\* The sets of turns that the whole chat is among.
Wholes == {turns \in SUBSET Entries : \A n \in DOMAIN chat : chat[n].turn \in turns}

WholesTold == \A turns \in Wholes : <<Revision, 0, turns>> \in Truths

LEMMA WholesAreTold == Types => WholesTold
BY AllIsTold DEF Wholes, WholesTold

LEMMA AllIsToldThen ==
  ASSUME Types', NEW turns \in SUBSET Entries, \A n \in DOMAIN chat' : chat'[n].turn \in turns
  PROVE  <<Revision', 0, turns>> \in Truths'
<1>1. (Types => WholesTold)'
  BY WholesAreTold, PTL
<1>2. turns \in Wholes'
  BY DEF Wholes, Entries
<1>. QED  BY <1>1, <1>2 DEF WholesTold

\* What shows all that the present revision covers shows the whole chat.
LEMMA AllIsShown ==
  ASSUME Types, ~Replacing, NEW turns \in SUBSET Entries, <<Revision, 0, turns>> \in Truths,
         NEW n \in DOMAIN chat
  PROVE  chat[n].turn \in turns
<1>1. Revision \in Revisions /\ Last \in Nat /\ epoch # 0 /\ epoch \in Nat
  BY RevisionTyped, LastIsNat DEF Types
<1>2. Speaks(Revision, 0, turns)
  BY <1>1, TruthIs
<1>3. Current(Revision) /\ Revision[3] = Last
  BY <1>1 DEF Current, Revision, NoRev
<1>4. chat[n].id \in Nat \ {0} /\ chat[n].id <= Last
  BY IdsGrow
<1>. QED  BY <1>2, <1>3, <1>4 DEF Speaks

LEMMA EntriesOf ==
  ASSUME Types, NEW i \in DOMAIN call
  PROVE  Question(i) \in Entries /\ Reply(i) \in Entries /\ Summary(i) \in Entries
BY CallIsTyped DEF Question, Reply, Summary, Entries

LEMMA SavesQuestionKeeps == ASSUME Inv, NEW i \in DOMAIN call, SavesQuestion(i) PROVE  Inv'
<1>. DEFINE r == [call[i] EXCEPT !.at = "saved"]
<1>1. /\ call[i] \in CallRecords /\ i # 0
      /\ call' = [call EXCEPT ![i] = r] /\ UNCHANGED <<epoch, gen, holder, client>>
      /\ call[i].kind = "turn" /\ call[i].at = "saving"
      /\ chat' = Append(chat, [id |-> Last + 1, turn |-> Question(i)])
  BY CallIsTyped DEF Inv, SavesQuestion, AppendTurn, Reaches, Is
<1>2. r \in CallRecords
  BY <1>1 DEF CallRecords, EveryStage
<1>3. /\ r.kind = "turn" /\ r.by = call[i].by /\ r.sent = call[i].sent
      /\ r.rev = call[i].rev /\ r.at = "saved" /\ r.before = call[i].before
  BY <1>1 DEF CallRecords
<1>4. r.at \in Stages(r.kind)
  BY <1>3 DEF Stages
<1>. HIDE DEF r
<1>5. holder = i /\ ~Replacing
  BY <1>1 DEF Inv, Holding, Locked, Replacing
<1>6. /\ Question(i) \in Entries /\ chat' \in Seq(Rows)
      /\ \A m, n \in DOMAIN chat' : m < n => chat'[m].id < chat'[n].id
      /\ \A n \in DOMAIN chat' : \/ n \in DOMAIN chat /\ chat'[n] = chat[n]
                                 \/ chat'[n].id = Last + 1 /\ chat'[n].turn = Question(i)
  BY <1>1, EntriesOf, ChatGrows DEF Inv
<1>7. Truths \subseteq Truths'
  BY <1>1, <1>5, <1>6, TruthsStay DEF Inv
<1>8. /\ DOMAIN call' = DOMAIN call /\ call'[i] = r
      /\ \A j \in DOMAIN call : j # i => call'[j] = call[j]
  BY <1>1, <1>2, <1>4, CallChanges DEF Inv
<1>9. \A c \in Clients : InFlight(c, i)' => InFlight(c, i)
  <2>1. \A j \in DOMAIN call : call'[j].kind = call[j].kind /\ call'[j].by = call[j].by
    BY <1>1, <1>3, <1>8
  <2>. QED  BY <1>1, <1>8, <2>1, FlightsStay DEF Inv
<1>10. CallInv(i)'
  <2>1. Asking(i)'
    BY <1>1, <1>3, <1>7, <1>8, <1>9, AskingStays
  <2>2. Catching(i)' /\ Sending(i)' /\ TurnTold(i)' /\ FetchTold(i)' /\ ReplaceTold(i)'
    BY <1>3, <1>8 DEF Catching, Unsent, Sending, TurnTold, FetchTold, ReplaceTold
  <2>3. ASSUME r.sent # NoRev, r.sent = r.before, NEW c \in Clients, InFlight(c, i)',
               NEW n \in DOMAIN chat'
        PROVE  chat'[n].turn \in Shown(c)'
    <3>1. Asking(i) /\ Saving(i) /\ Types
      BY DEF Inv, CallInv
    <3>2. call[i].sent = Revision
      BY <1>1, <1>3, <2>3, <3>1 DEF Saving
    <3>3. <<Revision, 0, Shown(c)>> \in Truths /\ Question(i) \in Shown(c)
      BY <1>9, <2>3, <3>1, <3>2 DEF Asking
    <3>4. \A m \in DOMAIN chat : chat[m].turn \in Shown(c)
      BY <1>5, <3>1, <3>3, AllIsShown, ClientIsTyped
    <3>. QED  BY <1>1, <1>6, <3>3, <3>4 DEF Shown
  <2>4. Saving(i)'
    BY <1>3, <1>8, <2>3 DEF Saving, Is
  <2>5. Dated(i)'
    BY <1>1, <1>3, <1>7, <1>8 DEF Inv, CallInv, Dated, Entries
  <2>. QED  BY <2>1, <2>2, <2>4, <2>5 DEF CallInv
<1>11. epoch' = epoch /\ gen' \in Nat /\ gen <= gen'
  BY <1>1 DEF Inv, Types
<1>12. holder \in {0, i} /\ holder' \in {0, i} /\ (r.at \in Locked <=> holder' = i)
  BY <1>1, <1>3, <1>5 DEF Locked
<1>. QED  BY <1>1, <1>2, <1>3, <1>4, <1>6, <1>7, <1>10, <1>11, <1>12, DaemonKeeps

\* The end of a turn: its revision is the chat's as it is then.
LEMMA TellsKeeps ==
  ASSUME Inv, NEW i \in DOMAIN call, call[i].kind = "turn", call[i].at \in {"answering", "saved"},
         NEW add \in BOOLEAN, NEW rev, rev = Revision', Tells(i, rev, add),
         UNCHANGED <<epoch, gen, client>>,
         chat' = chat \/ chat' = Append(chat, [id |-> Last + 1, turn |-> Reply(i)]),
         holder \in {0, i}, holder' = 0,
         ~add /\ call[i].sent # NoRev =>
           \A c \in Clients : InFlight(c, i) => \A n \in DOMAIN chat : chat[n].turn \in Shown(c)
  PROVE  Inv'
<1>. DEFINE told == [call[i] EXCEPT !.at = "replied", !.rev = rev, !.add = add, !.before = NoRev]
            r    == IF InFlight(call[i].by, i) THEN told ELSE Over(i)
<1>1. /\ call[i] \in CallRecords /\ i # 0 /\ call[i].at \notin {"over", "replaced", "replied"}
      /\ call' = [call EXCEPT ![i] = r]
  BY CallIsTyped DEF Inv, Tells
<1>2. /\ chat' \in Seq(Rows) /\ \A m, n \in DOMAIN chat' : m < n => chat'[m].id < chat'[n].id
      /\ \A n \in DOMAIN chat' : \/ n \in DOMAIN chat /\ chat'[n] = chat[n]
                                 \/ chat'[n].turn = Reply(i)
  <2>1. Reply(i) \in Entries /\ Types
    BY EntriesOf DEF Inv
  <2>2. CASE chat' = chat
    BY <2>1, <2>2 DEF Types
  <2>3. CASE chat' = Append(chat, [id |-> Last + 1, turn |-> Reply(i)])
    BY <2>1, <2>3, ChatGrows
  <2>. QED  BY <2>2, <2>3
<1>3. rev \in Revisions
  <2>1. Last' \in Nat
    <3>1. CASE chat' = chat
      BY <3>1, LastIsNat DEF Inv, Last
    <3>2. CASE chat' = Append(chat, [id |-> Last + 1, turn |-> Reply(i)])
      BY <3>2, LastIsNat, ChatGrows, EntriesOf DEF Inv
    <3>. QED  BY <3>1, <3>2
  <2>. QED  BY <2>1 DEF Revision, Revisions, Inv, Types
<1>4. /\ told \in CallRecords /\ told.kind = "turn" /\ told.by = call[i].by /\ told.at = "replied"
      /\ told.sent = call[i].sent /\ told.rev = rev /\ told.add = add
  <2>1. NoRev \in Revisions
    BY RevisionTyped DEF Inv
  <2>2. told \in CallRecords
    BY <1>1, <1>3, <2>1 DEF CallRecords, EveryStage
  <2>. QED  BY <1>1, <2>2 DEF CallRecords
<1>. HIDE DEF told
<1>5. /\ r \in CallRecords /\ r.kind = "turn" /\ r.by = call[i].by /\ r.at \in {"replied", "over"}
      /\ r.at \in Stages(r.kind)
  BY <1>4, OverIsTyped DEF Inv, Stages
<1>6. /\ InFlight(call[i].by, i) => r = told
      /\ ~InFlight(call[i].by, i) => r = Over(i)
  OBVIOUS
<1>. HIDE DEF r
<1>7. ~Replacing /\ ~Replacing'
  <2>1. ~Replacing
    BY <1>1 DEF Replacing
  <2>. QED  BY <2>1 DEF Replacing
<1>8. Truths \subseteq Truths'
  BY <1>7, TruthsStay, EntriesOf DEF Inv
<1>9. /\ DOMAIN call' = DOMAIN call /\ call'[i] = r
      /\ call' \in Seq(CallRecords) /\ Len(call') = Len(call)
      /\ \A j \in DOMAIN call' : call'[j].at \in Stages(call'[j].kind)
      /\ \A j \in DOMAIN call : j # i => call'[j] = call[j]
  BY <1>1, <1>5, CallChanges DEF Inv
<1>10. \A c \in Clients : InFlight(c, i)' => InFlight(c, i) /\ c = call[i].by
  <2>1. \A j \in DOMAIN call : call'[j].kind = call[j].kind /\ call'[j].by = call[j].by
    BY <1>5, <1>9
  <2>. QED  BY <1>9, <2>1, FlightsStay DEF Inv, InFlight
<1>11. Types'
  BY <1>2, <1>9 DEF Inv, Types
<1>12. ASSUME InFlight(call[i].by, i)
       PROVE  CallInv(i)'
  <2>1. r = told
    BY <1>6, <1>12
  <2>2. Asking(i)'
    BY <1>4, <1>8, <1>9, <1>10, <2>1, AskingStays
  <2>3. Catching(i)' /\ Sending(i)' /\ Saving(i)' /\ FetchTold(i)' /\ ReplaceTold(i)'
    BY <1>4, <1>9, <2>1 DEF Catching, Unsent, Sending, Saving, Is, FetchTold, ReplaceTold
  <2>4. Dated(i)'
    BY <1>4, <1>8, <1>9, <2>1 DEF Inv, CallInv, Dated, Entries
  <2>5. <<rev, 0, Entries>> \in Truths'
    <3>1. \A n \in DOMAIN chat' : chat'[n] \in Rows
      BY <1>11 DEF Types
    <3>2. \A n \in DOMAIN chat' : chat'[n].turn \in Entries
      BY <3>1 DEF Rows
    <3>3. Entries \in SUBSET Entries
      OBVIOUS
    <3>. QED  BY <1>11, <3>2, <3>3, AllIsToldThen
  <2>6. ASSUME ~add, call[i].sent # NoRev, NEW c \in Clients, InFlight(c, i)'
        PROVE  <<rev, 0, Shown(c)' \cup {Reply(i)}>> \in Truths'
    <3>1. \A n \in DOMAIN chat : chat[n].turn \in Shown(c)
      BY <1>10, <2>6
    <3>2. \A n \in DOMAIN chat' : chat'[n].turn \in Shown(c)' \cup {Reply(i)}
      BY <1>2, <3>1 DEF Shown
    <3>3. Shown(c)' \cup {Reply(i)} \in SUBSET Entries
      BY <1>11, ShownIsTyped, EntriesOf DEF Inv
    <3>. QED  BY <1>11, <3>2, <3>3, AllIsToldThen
  <2>7. TurnTold(i)'
    BY <1>4, <1>9, <2>1, <2>5, <2>6 DEF TurnTold, Entries, Reply
  <2>. QED  BY <2>2, <2>3, <2>4, <2>7 DEF CallInv
<1>13. ASSUME ~InFlight(call[i].by, i)
       PROVE  CallInv(i)'
  BY <1>6, <1>9, <1>10, <1>11, <1>13, OverKeeps DEF Inv
<1>14. CallInv(i)'
  BY <1>12, <1>13
<1>15. epoch' = epoch /\ gen' \in Nat /\ gen <= gen' /\ client' = client
  BY DEF Inv, Types
<1>16. holder \in {0, i} /\ holder' \in {0, i} /\ (r.at \in Locked <=> holder' = i)
  BY <1>1, <1>5 DEF Locked
<1>. QED  BY <1>1, <1>2, <1>5, <1>8, <1>14, <1>15, <1>16, DaemonKeeps

LEMMA SavesReplyKeeps == ASSUME Inv, NEW i \in DOMAIN call, SavesReply(i) PROVE  Inv'
<1>. DEFINE add == Behind(call[i].sent, call[i].before)
            rev == <<epoch, gen, Last'>>
<1>1. /\ call[i].kind = "turn" /\ call[i].at = "saved" /\ UNCHANGED <<epoch, gen, client>>
      /\ Tells(i, rev, add) /\ holder' = 0
      /\ chat' = chat \/ chat' = Append(chat, [id |-> Last + 1, turn |-> Reply(i)])
  BY DEF SavesReply, Is, AppendTurn
<1>2. add \in BOOLEAN /\ rev = Revision'
  BY <1>1 DEF Behind, Revision
<1>3. holder = i
  BY <1>1 DEF Inv, Holding, Locked
<1>4. ~add /\ call[i].sent # NoRev =>
        \A c \in Clients : InFlight(c, i) => \A n \in DOMAIN chat : chat[n].turn \in Shown(c)
  BY <1>1 DEF Behind, Inv, CallInv, Saving
<1>. HIDE DEF add, rev
<1>. QED  BY <1>1, <1>2, <1>3, <1>4, TellsKeeps

LEMMA SavesNothingKeeps == ASSUME Inv, NEW i \in DOMAIN call, SavesNothing(i) PROVE  Inv'
<1>. DEFINE add == Behind(call[i].sent, Revision)
<1>1. /\ call[i].kind = "turn" /\ call[i].at = "answering"
      /\ UNCHANGED <<epoch, gen, chat, holder, client>>
      /\ Tells(i, Revision, add) /\ holder = 0
  BY DEF SavesNothing, Is
<1>2. add \in BOOLEAN /\ Revision = Revision'
  BY <1>1 DEF Behind, Revision, Last
<1>3. ~Replacing
  BY <1>1 DEF Replacing
<1>4. ~add /\ call[i].sent # NoRev =>
        \A c \in Clients : InFlight(c, i) => \A n \in DOMAIN chat : chat[n].turn \in Shown(c)
  <2>1. ~add /\ call[i].sent # NoRev => call[i].sent = Revision
    BY DEF Behind
  <2>2. ASSUME call[i].sent = Revision, NEW c \in Clients, InFlight(c, i), NEW n \in DOMAIN chat
        PROVE  chat[n].turn \in Shown(c)
    <3>1. <<Revision, 0, Shown(c)>> \in Truths
      BY <2>2 DEF Inv, CallInv, Asking
    <3>. QED  BY <1>3, <3>1, AllIsShown, ClientIsTyped DEF Inv
  <2>. QED  BY <2>1, <2>2
<1>. HIDE DEF add
<1>. QED  BY <1>1, <1>2, <1>4, TellsKeeps

LEMMA TruthIsTyped ==
  \A rev, from, turns : <<rev, from, turns>> \in Truths =>
    rev \in Revisions /\ from \in Nat /\ turns \in SUBSET Entries /\ Known(rev) /\ Speaks(rev, from, turns)
BY DEF Truths

Replied(i, rev, turns, add) ==
  [call[i] EXCEPT !.at = "replied", !.rev = rev, !.turns = turns, !.add = add, !.gen = 0, !.mine = {}]

LEMMA ReplyIsTyped ==
  ASSUME Types, NEW i \in DOMAIN call, NEW rev \in Revisions, NEW turns \in Seq(Entries),
         NEW add \in BOOLEAN, call[i].kind # "turn", NEW r, r = Replied(i, rev, turns, add)
  PROVE  /\ r \in CallRecords /\ r.at = "replied" /\ r.at \in Stages(r.kind)
         /\ r.kind = call[i].kind /\ r.by = call[i].by /\ r.sent = call[i].sent
         /\ r.rev = rev /\ r.turns = turns /\ r.add = add
<1>1. call[i] \in CallRecords /\ call[i].kind \in Kinds
  BY CallIsTyped
<1>2. r \in CallRecords
  BY <1>1 DEF CallRecords, EveryStage, Replied
<1>3. /\ r.at = "replied" /\ r.kind = call[i].kind /\ r.by = call[i].by /\ r.sent = call[i].sent
      /\ r.rev = rev /\ r.turns = turns /\ r.add = add
  BY <1>1 DEF CallRecords, Replied
<1>4. "replied" \in Stages(call[i].kind)
  BY <1>1 DEF Stages, Kinds
<1>. QED  BY <1>2, <1>3, <1>4

LEMMA FetchReadsKeeps == ASSUME Inv, NEW i \in DOMAIN call, FetchReads(i) PROVE  Inv'
<1>. DEFINE news == News(i, call[i].sent)
            r    == Replied(i, news.rev, news.turns, news.add)
<1>1. /\ call[i].kind = "fetch" /\ call[i].at = "reading"
      /\ call' = [call EXCEPT ![i] = r] /\ UNCHANGED <<epoch, gen, chat, holder, client>>
  BY DEF FetchReads, Is, Replies, Replied
<1>2. Dated(i) /\ Types
  BY DEF Inv, CallInv
<1>3. call[i].gen <= gen /\ call[i].sent \in Revisions /\ Known(call[i].sent)
  BY <1>1, <1>2, TruthIsTyped, CallIsTyped DEF Dated
<1>4. /\ news.turns \in Seq(Entries) /\ news.add \in BOOLEAN
      /\ news.add => call[i].sent[1] = news.rev[1] /\ call[i].sent[2] = news.rev[2]
      /\ <<news.rev, IF news.add THEN call[i].sent[3] ELSE 0, Range(news.turns)>> \in Truths
  BY <1>2, <1>3, NewsIsTold
<1>5. news.rev \in Revisions
  BY <1>4, TruthIsTyped
<1>. HIDE DEF news
<1>6. /\ r \in CallRecords /\ r.at = "replied" /\ r.at \in Stages(r.kind)
      /\ r.kind = call[i].kind /\ r.by = call[i].by /\ r.sent = call[i].sent
      /\ r.rev = news.rev /\ r.turns = news.turns /\ r.add = news.add
  BY <1>1, <1>2, <1>4, <1>5, ReplyIsTyped
<1>. HIDE DEF r
<1>7. Truths \subseteq Truths'
  BY <1>1, <1>2, <1>6, ChatStays
<1>8. call'[i] = r
  BY <1>1, <1>2, <1>6, CallChanges
<1>9. CallInv(i)'
  <2>1. Catching(i)' /\ Sending(i)' /\ Saving(i)' /\ TurnTold(i)' /\ ReplaceTold(i)' /\ Asking(i)'
    BY <1>1, <1>6, <1>8 DEF Catching, Unsent, Sending, Saving, Is, TurnTold, ReplaceTold, Asking, InFlight
  <2>2. Dated(i)'
    BY <1>2, <1>6, <1>7, <1>8 DEF Dated, Entries
  <2>3. FetchTold(i)'
    BY <1>4, <1>6, <1>7, <1>8 DEF FetchTold, Since
  <2>. QED  BY <2>1, <2>2, <2>3 DEF CallInv
<1>10. /\ chat' \in Seq(Rows) /\ \A m, n \in DOMAIN chat' : m < n => chat'[m].id < chat'[n].id
       /\ epoch' = epoch /\ gen' \in Nat /\ gen <= gen'
  BY <1>1, <1>2 DEF Types
<1>11. UNCHANGED <<chat, gen, holder>> /\ r.at \notin Locked /\ call[i].at \notin Locked
  BY <1>1, <1>6 DEF Locked
<1>12. call[i].at # "over" /\ client' = client
  BY <1>1
<1>. QED  BY <1>1, <1>6, <1>7, <1>9, <1>10, <1>11, <1>12, DaemonKeeps

LEMMA NumberedIs ==
  ASSUME NEW turns \in Seq(Entries)
  PROVE  /\ Numbered(turns) \in Seq(Rows)
         /\ \A m, n \in DOMAIN Numbered(turns) :
              m < n => Numbered(turns)[m].id < Numbered(turns)[n].id
<1>1. Len(turns) \in Nat /\ \A n \in 1 .. Len(turns) : turns[n] \in Entries
  OBVIOUS
<1>2. \A n \in 1 .. Len(turns) : [id |-> n, turn |-> turns[n]] \in Rows
  BY <1>1 DEF Rows
<1>3. DOMAIN Numbered(turns) = 1 .. Len(turns)
  BY DEF Numbered
<1>4. \A n \in 1 .. Len(turns) : Numbered(turns)[n].id = n
  BY DEF Numbered
<1>. QED  BY <1>1, <1>2, <1>3, <1>4 DEF Numbered

LEMMA ReplacesRowsKeeps == ASSUME Inv, NEW i \in DOMAIN call, ReplacesRows(i) PROVE  Inv'
<1>. DEFINE r == [call[i] EXCEPT !.at = "replaced"]
<1>1. /\ call[i] \in CallRecords /\ i # 0 /\ Types
      /\ call' = [call EXCEPT ![i] = r] /\ UNCHANGED <<epoch, gen, client>>
  BY CallIsTyped DEF Inv, ReplacesRows, Reaches
<1>2. /\ call[i].kind \in {"reset", "resume", "compact"} /\ call[i].at \in {"asked", "summarising"}
      /\ call[i].kind = "reset" => chat' = << >>
      /\ holder \in {0, i} /\ holder' = i
  BY <1>1 DEF Inv, ReplacesRows, Locks, Is, Holding, Locked
<1>3. chat' \in Seq(Rows) /\ \A m, n \in DOMAIN chat' : m < n => chat'[m].id < chat'[n].id
  <2>1. Saved \in Seq(Entries)
    BY DEF Saved, Entries
  <2>2. <<Summary(i)>> \o Turns(After(Last - 1)) \in Seq(Entries)
    <3>1. Turns(After(Last - 1)) \in Seq(Entries) /\ <<Summary(i)>> \in Seq(Entries)
      BY <1>1, LastIsNat, AfterIs, EntriesOf
    <3>. QED  BY <3>1, ConcatProperties
  <2>3. \/ chat' = << >> \/ \E turns \in Seq(Entries) : chat' = Numbered(turns)
    BY <2>1, <2>2 DEF ReplacesRows
  <2>4. CASE chat' = << >>
    BY <2>4
  <2>5. CASE \E turns \in Seq(Entries) : chat' = Numbered(turns)
    BY <2>5, NumberedIs
  <2>. QED  BY <2>3, <2>4, <2>5
<1>4. r \in CallRecords
  BY <1>1 DEF CallRecords, EveryStage
<1>5. /\ r.kind = call[i].kind /\ r.by = call[i].by /\ r.sent = call[i].sent
      /\ r.rev = call[i].rev /\ r.at = "replaced"
  BY <1>1 DEF CallRecords
<1>6. r.at \in Stages(r.kind)
  BY <1>2, <1>5 DEF Stages
<1>. HIDE DEF r
<1>7. Truths \subseteq Truths'
  <2>1. call'[i] = r
    BY <1>1, <1>4, <1>6, CallChanges
  <2>2. Replacing'
    BY <1>1, <1>2, <1>5, <2>1 DEF Replacing
  <2>. QED  BY <1>1, <2>2, TruthsStay
<1>8. /\ call[i].at \notin {"replied", "over"}
      /\ r.at \notin {"replied", "over", "saving", "saved"} /\ r.at \notin Unsent
      /\ r.at \notin {"asked", "reading"} /\ r.at \notin {"reading", "catchingUp"}
      /\ holder' \in {0, i} /\ (r.at \in Locked <=> holder' = i)
  BY <1>2, <1>5 DEF Unsent, Locked
<1>9. r.kind = "reset" /\ r.at = "replaced" => chat' = << >>
  BY <1>2, <1>5
<1>. QED  BY <1>1, <1>2, <1>3, <1>4, <1>5, <1>6, <1>7, <1>8, <1>9, QuietKeeps

LEMMA ReplacesGenKeeps == ASSUME Inv, NEW i \in DOMAIN call, ReplacesGen(i) PROVE  Inv'
<1>. DEFINE rev == <<epoch, gen', Last>>
<1>0. PICK add \in BOOLEAN : call' = [call EXCEPT ![i] = Replied(i, rev, Turns(chat), add)]
  <2>1. call' = [call EXCEPT ![i] = Replied(i, rev, Turns(chat), FALSE)]
    BY DEF ReplacesGen, Replies, Replied
  <2>2. FALSE \in BOOLEAN
    OBVIOUS
  <2>. HIDE DEF rev
  <2>. QED  BY <2>1, <2>2, Zenon
<1>. DEFINE r == Replied(i, rev, Turns(chat), add)
<1>1. /\ call[i].at = "replaced" /\ gen' = gen + 1 /\ holder' = 0
      /\ call' = [call EXCEPT ![i] = r] /\ UNCHANGED <<epoch, chat, client>>
      /\ Types /\ epoch \in Nat /\ gen \in Nat /\ Last \in Nat
  <2>1. Types /\ epoch \in Nat /\ gen \in Nat /\ Last \in Nat
    BY LastIsNat DEF Inv, Types
  <2>. QED  BY <1>0, <2>1 DEF ReplacesGen, NextGen
<1>2. call[i].kind \in {"reset", "resume", "compact"} /\ holder = i
  <2>1. call[i].at \in Stages(call[i].kind) /\ call[i].kind \in Kinds
    BY <1>1, CallIsTyped
  <2>2. call[i].kind \notin {"turn", "fetch"}
    BY <1>1, <2>1 DEF Stages
  <2>. QED  BY <1>1, <2>1, <2>2 DEF Kinds, Inv, Holding, Locked
<1>3. /\ Turns(chat) \in Seq(Entries) /\ rev \in Revisions
      /\ \A n \in DOMAIN chat : chat[n].turn \in Range(Turns(chat))
  BY <1>1, TurnsAreAll DEF Revisions
<1>4. /\ r \in CallRecords /\ r.at = "replied" /\ r.at \in Stages(r.kind)
      /\ r.kind = call[i].kind /\ r.by = call[i].by /\ r.sent = call[i].sent
      /\ r.rev = rev /\ r.turns = Turns(chat)
  <2>. HIDE DEF rev
  <2>1. /\ Types /\ call[i].kind # "turn" /\ rev \in Revisions
        /\ Turns(chat) \in Seq(Entries)
    BY <1>1, <1>2, <1>3
  <2>. QED  BY <2>1, ReplyIsTyped
<1>. HIDE DEF r
<1>5. Truths \subseteq Truths'
  BY <1>1, TruthsAge
<1>6. /\ call'[i] = r /\ call' \in Seq(CallRecords) /\ Len(call') = Len(call)
      /\ \A j \in DOMAIN call' : call'[j].at \in Stages(call'[j].kind)
  BY <1>1, <1>4, CallChanges
<1>7. Types'
  BY <1>1, <1>6 DEF Types
<1>8. Revision' = rev
  BY <1>1 DEF Revision, Last
<1>9. CallInv(i)'
  <2>1. Catching(i)' /\ Sending(i)' /\ Saving(i)' /\ TurnTold(i)' /\ FetchTold(i)' /\ Asking(i)'
    BY <1>2, <1>4, <1>6 DEF Catching, Unsent, Sending, Saving, Is, TurnTold, FetchTold, Asking, InFlight
  <2>2. Dated(i)'
    BY <1>4, <1>5, <1>6 DEF Inv, CallInv, Dated, Entries
  <2>3. call[i].kind = "reset" => <<r.rev, 0, {}>> \in Truths'
    <3>1. SUFFICES ASSUME call[i].kind = "reset"
                   PROVE  <<Revision', 0, {}>> \in Truths'
      BY <1>4, <1>8
    <3>2. chat' = << >>
      BY <1>1, <3>1 DEF Inv, CallInv, Saving, Is
    <3>3. \A n \in DOMAIN chat' : chat'[n].turn \in {}
      BY <3>2
    <3>. QED  BY <1>7, <3>3, AllIsToldThen
  <2>4. <<r.rev, 0, Range(r.turns)>> \in Truths'
    <3>1. Range(Turns(chat)) \in SUBSET Entries
      BY <1>3, RangeTyped
    <3>2. \A n \in DOMAIN chat' : chat'[n].turn \in Range(Turns(chat))
      BY <1>1, <1>3
    <3>. QED  BY <1>4, <1>7, <1>8, <3>1, <3>2, AllIsToldThen
  <2>5. ReplaceTold(i)'
    BY <1>4, <1>6, <2>3, <2>4 DEF ReplaceTold
  <2>. QED  BY <2>1, <2>2, <2>5 DEF CallInv
<1>10. /\ chat' \in Seq(Rows) /\ \A m, n \in DOMAIN chat' : m < n => chat'[m].id < chat'[n].id
       /\ epoch' = epoch /\ gen' \in Nat /\ gen <= gen'
  BY <1>1 DEF Types
<1>11. holder \in {0, i} /\ holder' \in {0, i} /\ (r.at \in Locked <=> holder' = i)
  BY <1>1, <1>2, <1>4, CallIsTyped DEF Locked
<1>12. call[i].at # "over" /\ client' = client
  BY <1>1
<1>. QED  BY <1>1, <1>4, <1>5, <1>9, <1>10, <1>11, <1>12, DaemonKeeps

LEMMA DaemonStepKeeps == ASSUME Inv, NEW i \in DOMAIN call, Daemon(i) PROVE  Inv'
BY ReadsGenKeeps, FetchReadsKeeps, TurnReadsKeeps, SaveBeginsKeeps, SavesQuestionKeeps,
   SavesReplyKeeps, SavesNothingKeeps, ReplacesRowsKeeps, ReplacesGenKeeps, CompactBeginsKeeps,
   CompactFailsKeeps DEF Daemon

-----------------------------------------------------------------------------
\* The steps of a client: it comes to see v, and a call of its own is made or goes on.

ClientStep(c, i, v) ==
  /\ client' = [client EXCEPT ![c] = v] /\ UNCHANGED daemonVars
  /\ call' \in Seq(CallRecords) /\ Len(call) <= Len(call')
  /\ \A j \in DOMAIN call' : /\ call'[j].at \in Stages(call'[j].kind)
                             /\ j # i => j \in DOMAIN call /\ call'[j] = call[j]
  /\ i \in DOMAIN call' => call'[i].by = c /\ call'[i].at \notin Locked
  /\ i \in DOMAIN call =>
       call[i].by = c /\ call[i].kind = call'[i].kind /\ call[i].at \notin Locked

LEMMA ClientStepIs ==
  ASSUME Inv, NEW c \in Clients, NEW i, NEW v \in ClientRecords, ClientStep(c, i, v)
  PROVE  /\ Types' /\ Holding' /\ Truths \subseteq Truths' /\ DOMAIN call \subseteq DOMAIN call'
         /\ client'[c] = v /\ \A d \in Clients : d # c => client'[d] = client[d]
         /\ UNCHANGED <<epoch, gen, chat, holder>>
         /\ Shown(c)' = Range(v.shown)
<1>1. /\ DOMAIN call = 1 .. Len(call) /\ Len(call) \in Nat /\ holder \in 0 .. Len(call)
      /\ client \in [Clients -> ClientRecords]
  BY DEF Inv, Types
<1>2. DOMAIN call' = 1 .. Len(call') /\ Len(call') \in Nat /\ Len(call) <= Len(call')
  BY DEF ClientStep
<1>3. UNCHANGED <<epoch, gen, chat, holder>>
  BY DEF ClientStep, daemonVars
<1>4. DOMAIN call \subseteq DOMAIN call' /\ holder \in 0 .. Len(call')
  BY <1>1, <1>2
<1>5. /\ client'[c] = v /\ \A d \in Clients : d # c => client'[d] = client[d]
      /\ client' \in [Clients -> ClientRecords]
  BY <1>1 DEF ClientStep
<1>6. Types'
  BY <1>3, <1>4, <1>5 DEF Inv, Types, ClientStep
<1>7. ~(holder = i /\ holder # 0)
  BY <1>1 DEF ClientStep, Inv, Holding
<1>8. Holding'
  <2>1. ASSUME NEW j \in DOMAIN call'
        PROVE  call'[j].at \in Locked <=> holder' = j
    <3>1. j # 0
      BY <1>2, <2>1
    <3>2. CASE j = i
      BY <1>3, <1>7, <2>1, <3>1, <3>2 DEF ClientStep
    <3>3. CASE j # i
      BY <1>3, <2>1, <3>3 DEF ClientStep, Inv, Holding
    <3>. QED  BY <3>2, <3>3
  <2>. QED  BY <2>1 DEF Holding, Locked
<1>9. Replacing' <=> Replacing
  <2>1. holder # 0 => holder \in DOMAIN call' /\ call'[holder] = call[holder]
    BY <1>1, <1>4, <1>7 DEF ClientStep
  <2>. QED  BY <1>3, <2>1 DEF Replacing
<1>10. Truths \subseteq Truths'
  BY <1>3, <1>9, TruthsStay DEF Inv
<1>. QED  BY <1>3, <1>4, <1>5, <1>6, <1>8, <1>10 DEF Shown

LEMMA ClientStepKeeps ==
  ASSUME Inv, NEW c \in Clients, NEW i, NEW v \in ClientRecords, ClientStep(c, i, v),
         <<v.rev, 0, Range(v.shown)>> \in Truths,
         i \in DOMAIN call' => CallInv(i)',
         \A j \in DOMAIN call' : Replaces(j)' /\ call'[j].by = c =>
           /\ v.ui = "replacing"
           /\ \A k \in DOMAIN call' : Replaces(k)' /\ call'[k].by = c => j = k,
         \A j \in DOMAIN call : j # i /\ InFlight(c, j)' =>
           /\ InFlight(c, j) /\ v.turnRev = client[c].turnRev
           /\ Shown(c) \subseteq Range(v.shown),
         \A j \in DOMAIN call : j # i /\ call[j].at \in Unsent /\ call[j].by = c =>
           /\ v.ui = client[c].ui /\ (LastTurn(c, j) => LastTurn(c, j)')
           /\ client[c].rev # NoRev => v.rev = client[c].rev
  PROVE  Inv'
<1>1. /\ Types' /\ Holding' /\ Truths \subseteq Truths' /\ DOMAIN call \subseteq DOMAIN call'
      /\ client'[c] = v /\ \A d \in Clients : d # c => client'[d] = client[d]
      /\ UNCHANGED <<epoch, gen, chat, holder>>
      /\ Shown(c)' = Range(v.shown)
  BY ClientStepIs
<1>2. \A d \in Clients : Clear(d)'
  <2>1. Clear(c)'
    BY <1>1 DEF Clear
  <2>2. ASSUME NEW d \in Clients, d # c
        PROVE  Clear(d)'
    BY <1>1, <2>2 DEF Inv, Clear, Shown
  <2>. QED  BY <2>1, <2>2
<1>3. \A j \in DOMAIN call' : call'[j].by # c => j # i /\ j \in DOMAIN call /\ call'[j] = call[j]
  BY DEF ClientStep
<1>4. Waiting'
  <2>1. ASSUME NEW j \in DOMAIN call', NEW d \in Clients, Replaces(j)', call'[j].by = d
        PROVE  client'[d].ui = "replacing"
    <3>1. CASE d = c
      BY <1>1, <2>1, <3>1
    <3>2. CASE d # c
      BY <1>1, <1>3, <2>1, <3>2 DEF Inv, Waiting, Replaces
    <3>. QED  BY <3>1, <3>2
  <2>2. ASSUME NEW j \in DOMAIN call', NEW k \in DOMAIN call',
               Replaces(j)', Replaces(k)', call'[j].by = call'[k].by
        PROVE  j = k
    <3>1. CASE call'[j].by = c
      BY <2>2, <3>1
    <3>2. CASE call'[j].by # c
      BY <1>3, <2>2, <3>2 DEF Inv, Waiting, Replaces
    <3>. QED  BY <3>1, <3>2
  <2>. QED  BY <2>1, <2>2 DEF Waiting
<1>5. \A j \in DOMAIN call : call'[j].kind = call[j].kind /\ call'[j].by = call[j].by
  BY <1>1 DEF ClientStep
<1>6. ASSUME NEW j \in DOMAIN call', j # i
      PROVE  CallInv(j)'
  <2>1. j \in DOMAIN call /\ call'[j] = call[j] /\ CallInv(j) /\ Types
    BY <1>6 DEF ClientStep, Inv
  <2>2. ASSUME NEW d \in Clients, InFlight(d, j)'
        PROVE  /\ InFlight(d, j)
               /\ client'[d].turnRev = client[d].turnRev /\ Shown(d) \subseteq Shown(d)'
    <3>1. CASE d = c
      BY <1>1, <1>6, <2>1, <2>2, <3>1
    <3>2. CASE d # c
      <4>1. client'[d] = client[d]
        BY <1>1, <3>2
      <4>2. InFlight(d, j)
        BY <1>1, <1>5, <2>1, <2>2, <4>1 DEF InFlight
      <4>. QED  BY <4>1, <4>2 DEF Shown
    <3>. QED  BY <3>1, <3>2
  <2>3. ASSUME call[j].at \in Unsent, NEW d \in Clients, call[j].by = d
        PROVE  /\ client'[d].ui = client[d].ui /\ (LastTurn(d, j) => LastTurn(d, j)')
               /\ client[d].rev # NoRev => client'[d].rev = client[d].rev
    <3>1. CASE d = c
      BY <1>1, <1>6, <2>1, <2>3, <3>1
    <3>2. CASE d # c
      <4>1. client'[d] = client[d]
        BY <1>1, <3>2
      <4>2. LastTurn(d, j) => LastTurn(d, j)'
        BY <1>3, <3>2 DEF LastTurn
      <4>. QED  BY <4>1, <4>2
    <3>. QED  BY <3>1, <3>2
  <2>4. gen <= gen'
    BY <1>1, <2>1 DEF Types
  <2>. QED  BY <1>1, <2>1, <2>2, <2>3, <2>4, CallKeeps
<1>. QED  BY <1>1, <1>2, <1>4, <1>6 DEF Inv

\* Who waits for nothing has no question that is not sent, and nothing to replace.
LEMMA NothingUnsent ==
  ASSUME Inv, NEW c \in Clients, client[c].ui # "catching", NEW j \in DOMAIN call, call[j].by = c
  PROVE  call[j].at \notin Unsent
BY DEF Inv, CallInv, Catching

LEMMA NothingReplaced ==
  ASSUME Inv, NEW c \in Clients, client[c].ui # "replacing", NEW j \in DOMAIN call, call[j].by = c
  PROVE  ~Replaces(j)
BY DEF Inv, Waiting

LEMMA NewCallIs ==
  ASSUME Types, NEW c \in Clients, NEW kind \in Kinds, NEW at \in {"asked", "catching"},
         NEW r, r = NewCall(c, kind, at)
  PROVE  /\ r \in CallRecords /\ r.kind = kind /\ r.by = c /\ r.at = at
         /\ r.sent = client[c].rev /\ r.rev = NoRev
<1>1. NoRev \in Revisions /\ client[c].rev \in Revisions /\ << >> \in Seq(Entries)
  BY RevisionTyped, ClientIsTyped
<1>2. r \in CallRecords
  BY <1>1 DEF NewCall, CallRecords, EveryStage
<1>. QED  BY <1>2 DEF NewCall

\* What a new call says of itself: its client has all that the revision it is sent with covers.
LEMMA NewIsDated ==
  ASSUME Inv, NEW c \in Clients
  PROVE  <<client[c].rev, 0, Entries>> \in Truths /\ <<client[c].rev, 0, Shown(c)>> \in Truths
<1>1. <<client[c].rev, 0, Shown(c)>> \in Truths
  BY DEF Inv, Clear
<1>2. Shown(c) \subseteq Entries /\ Entries \in SUBSET Entries
  BY ClientIsTyped DEF Inv
<1>. QED  BY <1>1, <1>2, MoreTurns

\* A call is made, by a client who waits for nothing.
LEMMA CallMade ==
  ASSUME Inv, NEW c \in Clients, NEW v \in ClientRecords, NEW r \in CallRecords,
         NEW i, i = Len(call) + 1,
         r.by = c, r.at \in Stages(r.kind), r.at \notin Locked,
         call' = Append(call, r), client' = [client EXCEPT ![c] = v], UNCHANGED daemonVars
  PROVE  /\ ClientStep(c, i, v) /\ call'[i] = r /\ i \in DOMAIN call'
         /\ DOMAIN call' = DOMAIN call \cup {i} /\ \A j \in DOMAIN call : call'[j] = call[j]
         /\ \A j \in DOMAIN call : j \in Nat /\ j < i /\ i # j
         /\ i \in Nat /\ i # 0
<1>1. /\ call' \in Seq(CallRecords) /\ Len(call') = Len(call) + 1 /\ Len(call) \in Nat
      /\ DOMAIN call' = DOMAIN call \cup {i} /\ i \notin DOMAIN call
      /\ \A j \in DOMAIN call : j < i
      /\ call'[i] = r /\ \A j \in DOMAIN call : call'[j] = call[j]
      /\ \A j \in DOMAIN call' : call'[j].at \in Stages(call'[j].kind)
  BY CallAppends DEF Inv
<1>2. ClientStep(c, i, v)
  BY <1>1 DEF ClientStep
<1>3. \A j \in DOMAIN call : j \in Nat
  BY DEF Inv, Types
<1>. QED  BY <1>1, <1>2, <1>3

LEMMA CallMadeKeeps ==
  ASSUME Inv, NEW c \in Clients, NEW v \in ClientRecords, NEW r \in CallRecords,
         NEW i, i = Len(call) + 1,
         r.by = c, r.at \in Stages(r.kind), r.at \notin Locked,
         call' = Append(call, r), client' = [client EXCEPT ![c] = v], UNCHANGED daemonVars,
         client[c].ui = "idle", <<v.rev, 0, Range(v.shown)>> \in Truths,
         CallInv(i)',
         r.kind \in {"resume", "compact"} => v.ui = "replacing",
         v.ui = "asking" => r.kind = "turn"
  PROVE  Inv'
<1>1. /\ ClientStep(c, i, v) /\ call'[i] = r /\ i \in DOMAIN call'
      /\ DOMAIN call' = DOMAIN call \cup {i} /\ \A j \in DOMAIN call : call'[j] = call[j]
      /\ \A j \in DOMAIN call : j \in Nat /\ j < i /\ i # j
  BY CallMade
<1>2. client'[c] = v
  BY <1>1, ClientStepIs
<1>3. \A j \in DOMAIN call : call[j].by = c => ~Replaces(j) /\ call[j].at \notin Unsent
  BY NothingUnsent, NothingReplaced
<1>4. \A j \in DOMAIN call' : Replaces(j)' /\ call'[j].by = c => j = i /\ v.ui = "replacing"
  BY <1>1, <1>3 DEF Replaces
<1>5. \A j \in DOMAIN call : ~InFlight(c, j)'
  BY <1>1, <1>2 DEF InFlight
<1>. QED  BY <1>1, <1>3, <1>4, <1>5, ClientStepKeeps

\* A call that asks for no answer to a question.
LEMMA AskedIsFine ==
  ASSUME Inv, NEW c \in Clients, NEW i, call'[i].kind # "turn", call'[i].at = "asked",
         call'[i].sent = client[c].rev, call'[i].rev = NoRev, Truths \subseteq Truths'
  PROVE  CallInv(i)'
<1>1. Catching(i)' /\ Asking(i)' /\ Sending(i)' /\ Saving(i)'
  BY DEF Catching, Unsent, Asking, InFlight, Sending, Saving, Is
<1>2. Dated(i)'
  BY NewIsDated DEF Dated, Entries, NoRev
<1>3. TurnTold(i)' /\ FetchTold(i)' /\ ReplaceTold(i)'
  BY DEF TurnTold, FetchTold, ReplaceTold
<1>. QED  BY <1>1, <1>2, <1>3 DEF CallInv

LEMMA CatchUpKeeps == ASSUME Inv, NEW c \in Clients, CatchUp(c) PROVE  Inv'
<1>1. PICK r, i, v : r = NewCall(c, "fetch", "asked") /\ i = Len(call) + 1 /\ v = client[c]
  OBVIOUS
<1>2. /\ call' = Append(call, r) /\ client[c].ui = "idle" /\ UNCHANGED daemonVars
      /\ client' = [client EXCEPT ![c] = v] /\ v \in ClientRecords
  BY <1>1 DEF CatchUp, Calls, CanCatchUp, Inv, Types
<1>3. /\ r \in CallRecords /\ r.kind = "fetch" /\ r.by = c /\ r.at = "asked"
      /\ r.sent = client[c].rev /\ r.rev = NoRev
  BY <1>1, NewCallIs DEF Inv, Kinds
<1>4. r.at \in Stages(r.kind) /\ r.at \notin Locked
  BY <1>3 DEF Stages, Locked
<1>5. ClientStep(c, i, v) /\ call'[i] = r
  <2>1. i = Len(call) + 1
    BY <1>1
  <2>2. r.by = c
    BY <1>3
  <2>. QED  BY <1>2, <1>3, <1>4, <2>1, <2>2, CallMade
<1>6. CallInv(i)'
  <2>1. Truths \subseteq Truths'
    BY <1>2, <1>5, ClientStepIs
  <2>. QED  BY <1>3, <1>5, <2>1, AskedIsFine
<1>7. <<v.rev, 0, Range(v.shown)>> \in Truths /\ v.ui = "idle"
  BY <1>1, <1>2, NewIsDated DEF Shown
<1>. QED  BY <1>1, <1>2, <1>3, <1>4, <1>6, <1>7, CallMadeKeeps

LEMMA ClearConversationKeeps == ASSUME Inv, NEW c \in Clients, ClearConversation(c) PROVE  Inv'
<1>. DEFINE v == [client[c] EXCEPT !.rev = NoRev, !.pending = TRUE, !.shown = << >>]
<1>1. PICK r, i : r = NewCall(c, "reset", "asked") /\ i = Len(call) + 1
  OBVIOUS
<1>2. /\ call' = Append(call, r) /\ client[c].ui = "idle" /\ UNCHANGED daemonVars
      /\ client' = [client EXCEPT ![c] = v] /\ client[c] \in ClientRecords
  BY <1>1 DEF ClearConversation, Calls, Inv, Types
<1>3. v \in ClientRecords /\ v.ui = "idle" /\ v.rev = NoRev /\ v.shown = << >>
  <2>1. NoRev \in Revisions /\ << >> \in Seq(Entries)
    BY RevisionTyped DEF Inv
  <2>. QED  BY <1>2, <2>1 DEF ClientRecords
<1>. HIDE DEF v
<1>4. /\ r \in CallRecords /\ r.kind = "reset" /\ r.by = c /\ r.at = "asked"
      /\ r.sent = client[c].rev /\ r.rev = NoRev
  BY <1>1, NewCallIs DEF Inv, Kinds
<1>5. r.at \in Stages(r.kind) /\ r.at \notin Locked
  BY <1>4 DEF Stages, Locked
<1>6. ClientStep(c, i, v) /\ call'[i] = r
  BY <1>1, <1>2, <1>3, <1>4, <1>5, CallMade
<1>7. CallInv(i)'
  BY <1>3, <1>4, <1>6, ClientStepIs, AskedIsFine
<1>8. <<v.rev, 0, Range(v.shown)>> \in Truths
  <2>1. Range(v.shown) \in SUBSET Entries
    BY <1>3, RangeTyped DEF ClientRecords
  <2>. QED  BY <1>3, <2>1, NoRevSpeaks DEF Inv
<1>. QED  BY <1>1, <1>2, <1>3, <1>4, <1>5, <1>7, <1>8, CallMadeKeeps

LEMMA ReplaceKeeps ==
  ASSUME Inv, NEW c \in Clients, NEW kind \in {"resume", "compact"}, Replace(c, kind)
  PROVE  Inv'
<1>. DEFINE v == [client[c] EXCEPT !.ui = "replacing"]
<1>1. PICK r, i : r = NewCall(c, kind, "asked") /\ i = Len(call) + 1
  OBVIOUS
<1>2. /\ call' = Append(call, r) /\ client[c].ui = "idle" /\ UNCHANGED daemonVars
      /\ client' = [client EXCEPT ![c] = v] /\ client[c] \in ClientRecords
  BY <1>1 DEF Replace, Calls, Inv, Types
<1>3. v \in ClientRecords /\ v.ui = "replacing" /\ v.rev = client[c].rev /\ v.shown = client[c].shown
  BY <1>2 DEF ClientRecords
<1>. HIDE DEF v
<1>4. /\ r \in CallRecords /\ r.kind = kind /\ r.by = c /\ r.at = "asked"
      /\ r.sent = client[c].rev /\ r.rev = NoRev
  BY <1>1, NewCallIs DEF Inv, Kinds
<1>5. r.at \in Stages(r.kind) /\ r.at \notin Locked /\ r.kind # "turn"
  BY <1>4 DEF Stages, Locked
<1>6. ClientStep(c, i, v) /\ call'[i] = r
  BY <1>1, <1>2, <1>3, <1>4, <1>5, CallMade
<1>7. CallInv(i)'
  BY <1>3, <1>4, <1>5, <1>6, ClientStepIs, AskedIsFine
<1>8. <<v.rev, 0, Range(v.shown)>> \in Truths
  BY <1>3, NewIsDated DEF Shown
<1>. QED  BY <1>1, <1>2, <1>3, <1>4, <1>5, <1>7, <1>8, CallMadeKeeps

LEMMA PromptKeeps == ASSUME Inv, NEW c \in Clients, Prompt(c) PROVE  Inv'
<1>. DEFINE v == [client[c] EXCEPT !.ui = "catching"]
<1>1. PICK r, i : r = NewCall(c, "turn", "catching") /\ i = Len(call) + 1
  OBVIOUS
<1>2. /\ call' = Append(call, r) /\ client[c].ui = "idle" /\ UNCHANGED daemonVars
      /\ client' = [client EXCEPT ![c] = v] /\ client[c] \in ClientRecords
  BY <1>1 DEF Prompt, Calls, CanCatchUp, Inv, Types
<1>3. v \in ClientRecords /\ v.ui = "catching" /\ v.rev = client[c].rev /\ v.shown = client[c].shown
  BY <1>2 DEF ClientRecords
<1>. HIDE DEF v
<1>4. /\ r \in CallRecords /\ r.kind = "turn" /\ r.by = c /\ r.at = "catching"
      /\ r.sent = client[c].rev /\ r.rev = NoRev
  BY <1>1, NewCallIs DEF Inv, Kinds
<1>5. r.at \in Stages(r.kind) /\ r.at \notin Locked
  BY <1>4 DEF Stages, Locked
<1>6. /\ ClientStep(c, i, v) /\ call'[i] = r /\ i \in Nat /\ DOMAIN call' = DOMAIN call \cup {i}
      /\ \A j \in DOMAIN call : j \in Nat /\ j < i
  <2>1. i = Len(call) + 1 /\ v \in ClientRecords /\ r \in CallRecords /\ r.by = c
    BY <1>1, <1>3, <1>4
  <2>2. call' = Append(call, r) /\ client' = [client EXCEPT ![c] = v] /\ UNCHANGED daemonVars
    BY <1>2
  <2>. QED  BY <1>5, <2>1, <2>2, CallMade
<1>7. CallInv(i)'
  <2>1. Truths \subseteq Truths' /\ client'[c] = v
    BY <1>3, <1>6, ClientStepIs
  <2>2. Catching(i)'
    <3>1. LastTurn(c, i)'
      BY <1>6 DEF LastTurn
    <3>. QED  BY <1>3, <1>4, <1>6, <2>1, <3>1 DEF Catching
  <2>3. Asking(i)'
    BY <1>3, <1>4, <1>6, <2>1 DEF Asking, InFlight
  <2>4. Sending(i)' /\ Saving(i)' /\ TurnTold(i)' /\ FetchTold(i)' /\ ReplaceTold(i)'
    BY <1>4, <1>6 DEF Sending, Saving, Is, TurnTold, FetchTold, ReplaceTold
  <2>5. Dated(i)'
    <3>1. r.gen = 0 /\ gen' \in Nat
      BY <1>1, <1>3, <1>6, ClientStepIs DEF NewCall, Types
    <3>. QED  BY <1>4, <1>6, <2>1, NewIsDated DEF Dated, Entries, NoRev
  <2>. QED  BY <2>2, <2>3, <2>4, <2>5 DEF CallInv
<1>8. <<v.rev, 0, Range(v.shown)>> \in Truths
  BY <1>3, NewIsDated DEF Shown
<1>. QED  BY <1>1, <1>2, <1>3, <1>4, <1>5, <1>7, <1>8, CallMadeKeeps

\* A question on the screen, with all that was shown before it.
LEMMA ShownWithQuestion ==
  ASSUME Inv, NEW i \in Nat, NEW v \in ClientRecords, NEW sees \in ClientRecords,
         v.shown = Append(sees.shown, Question(i)), v.rev = sees.rev,
         <<sees.rev, 0, Range(sees.shown)>> \in Truths
  PROVE  /\ Range(v.shown) = Range(sees.shown) \cup {Question(i)}
         /\ Range(v.shown) \in SUBSET Entries
         /\ <<v.rev, 0, Range(v.shown)>> \in Truths
<1>1. sees.shown \in Seq(Entries) /\ Question(i) \in Entries
  BY DEF ClientRecords, Question, Entries
<1>2. v.shown \in Seq(Entries) /\ Range(v.shown) = Range(sees.shown) \cup {Question(i)}
  BY <1>1, RangeAppends
<1>3. Range(v.shown) \in SUBSET Entries
  BY <1>2, RangeTyped
<1>. QED  BY <1>2, <1>3, MoreTurns

\* What a question says of itself when it is sent with what its client sees.
LEMMA SentIsFine ==
  ASSUME Inv, NEW c \in Clients, NEW i \in Nat, NEW v \in ClientRecords, NEW sees \in ClientRecords,
         v.shown = Append(sees.shown, Question(i)), v.rev = sees.rev, v.turnRev = sees.rev,
         <<sees.rev, 0, Range(sees.shown)>> \in Truths,
         client'[c] = v, Shown(c)' = Range(v.shown), Truths \subseteq Truths',
         call'[i].kind = "turn", call'[i].at = "asked", call'[i].by = c,
         call'[i].sent = sees.rev, call'[i].rev = NoRev, call'[i].mine = Range(sees.shown)
  PROVE  CallInv(i)'
<1>1. /\ Range(v.shown) = Range(sees.shown) \cup {Question(i)}
      /\ <<v.rev, 0, Range(v.shown)>> \in Truths
  BY ShownWithQuestion
<1>2. Catching(i)' /\ Saving(i)' /\ TurnTold(i)' /\ FetchTold(i)' /\ ReplaceTold(i)'
  BY DEF Catching, Unsent, Saving, Is, TurnTold, FetchTold, ReplaceTold
<1>3. Asking(i)'
  <2>1. Question(i) \in Shown(c)' /\ <<sees.rev, 0, Shown(c)'>> \in Truths'
    BY <1>1
  <2>. QED  BY <2>1 DEF Asking, InFlight, Question
<1>4. Sending(i)'
  BY DEF Sending
<1>5. Dated(i)'
  <2>1. <<sees.rev, 0, Entries>> \in Truths
    <3>1. Range(sees.shown) \subseteq Entries /\ Entries \in SUBSET Entries
      BY RangeTyped DEF ClientRecords
    <3>. QED  BY <3>1, MoreTurns
  <2>. QED  BY <2>1 DEF Dated, Entries, NoRev
<1>. QED  BY <1>2, <1>3, <1>4, <1>5 DEF CallInv

LEMMA PromptNowKeeps == ASSUME Inv, NEW c \in Clients, PromptNow(c) PROVE  Inv'
<1>1. PICK i : i = Len(call) + 1
  OBVIOUS
<1>. DEFINE v == [client[c] EXCEPT !.ui = "asking", !.turnRev = client[c].rev,
                                   !.shown = Append(client[c].shown, Question(i))]
            r == [NewCall(c, "turn", "asked") EXCEPT !.mine = Range(client[c].shown)]
<1>2. /\ call' = Append(call, r) /\ client[c].ui = "idle" /\ UNCHANGED daemonVars
      /\ client[c] \in ClientRecords /\ Types
  BY DEF PromptNow, Inv, Types
<1>3. client' = [client EXCEPT ![c] = v]
  BY <1>1, <1>2 DEF PromptNow, Types, ClientRecords
<1>4. i \in Nat /\ client[c].shown \in Seq(Entries) /\ Append(client[c].shown, Question(i)) \in Seq(Entries)
  <2>1. i \in Nat /\ client[c].shown \in Seq(Entries)
    BY <1>1, <1>2 DEF Types, ClientRecords
  <2>2. Question(i) \in Entries
    BY <2>1 DEF Question, Entries
  <2>. QED  BY <2>1, <2>2, RangeAppends
<1>5. /\ v \in ClientRecords /\ v.ui = "asking" /\ v.rev = client[c].rev /\ v.turnRev = client[c].rev
      /\ v.shown = Append(client[c].shown, Question(i))
  BY <1>2, <1>4 DEF ClientRecords
<1>. HIDE DEF v
<1>6. /\ r \in CallRecords /\ r.kind = "turn" /\ r.by = c /\ r.at = "asked"
      /\ r.sent = client[c].rev /\ r.rev = NoRev /\ r.mine = Range(client[c].shown)
  <2>1. PICK s : s = NewCall(c, "turn", "asked")
    OBVIOUS
  <2>2. /\ s \in CallRecords /\ s.kind = "turn" /\ s.by = c /\ s.at = "asked"
        /\ s.sent = client[c].rev /\ s.rev = NoRev
    BY <1>2, <2>1, NewCallIs DEF Kinds
  <2>3. Range(client[c].shown) \in SUBSET Entries
    BY <1>4, RangeTyped
  <2>4. r = [s EXCEPT !.mine = Range(client[c].shown)]
    BY <2>1
  <2>. QED  BY <2>2, <2>3, <2>4 DEF CallRecords
<1>. HIDE DEF r
<1>7. r.at \in Stages(r.kind) /\ r.at \notin Locked
  BY <1>6 DEF Stages, Locked
<1>8. ClientStep(c, i, v) /\ call'[i] = r
  BY <1>1, <1>2, <1>3, <1>5, <1>6, <1>7, CallMade
<1>9. <<client[c].rev, 0, Range(client[c].shown)>> \in Truths
  BY NewIsDated DEF Shown
<1>10. CallInv(i)'
  <2>1. Truths \subseteq Truths' /\ client'[c] = v /\ Shown(c)' = Range(v.shown)
    BY <1>5, <1>8, ClientStepIs
  <2>. QED  BY <1>2, <1>4, <1>5, <1>6, <1>8, <1>9, <2>1, SentIsFine
<1>11. <<v.rev, 0, Range(v.shown)>> \in Truths
  BY <1>2, <1>4, <1>5, <1>9, ShownWithQuestion
<1>. QED  BY <1>1, <1>2, <1>3, <1>5, <1>6, <1>7, <1>10, <1>11, CallMadeKeeps

LEMMA UnsentIsTurn ==
  ASSUME Types, NEW i \in DOMAIN call, call[i].at \in Unsent
  PROVE  call[i].kind = "turn"
BY CallIsTyped DEF Stages, Unsent, Kinds

LEMMA SendsKeeps ==
  ASSUME Inv, NEW i \in DOMAIN call, call[i].at \in Unsent, NEW sees \in ClientRecords,
         <<sees.rev, 0, Range(sees.shown)>> \in Truths, Sends(i, sees)
  PROVE  Inv'
<1>1. PICK c \in Clients : call[i].by = c
  BY CallIsTyped DEF Inv
<1>. DEFINE v == [sees EXCEPT !.ui = "asking", !.turnRev = sees.rev,
                              !.shown = Append(sees.shown, Question(i))]
            r == [call[i] EXCEPT !.at = "asked", !.sent = sees.rev, !.gen = 0,
                                 !.mine = Range(sees.shown)]
<1>2. /\ Types /\ call' = [call EXCEPT ![i] = r] /\ client' = [client EXCEPT ![c] = v]
      /\ UNCHANGED daemonVars
  BY <1>1 DEF Inv, Sends
<1>3. /\ call[i] \in CallRecords /\ i \in Nat /\ call[i].kind = "turn" /\ call[i].rev = NoRev
      /\ client[c].ui = "catching" /\ LastTurn(c, i)
  <2>1. call[i].kind = "turn" /\ call[i] \in CallRecords /\ i \in Nat
    BY <1>2, UnsentIsTurn, CallIsTyped
  <2>2. Catching(i) /\ Dated(i)
    BY DEF Inv, CallInv
  <2>. QED  BY <1>1, <2>1, <2>2 DEF Catching, Dated, Unsent
<1>4. /\ sees.shown \in Seq(Entries) /\ Range(sees.shown) \in SUBSET Entries
      /\ Append(sees.shown, Question(i)) \in Seq(Entries) /\ sees.rev \in Revisions
  <2>1. sees.shown \in Seq(Entries) /\ sees.rev \in Revisions
    BY DEF ClientRecords
  <2>2. Question(i) \in Entries
    BY <1>2, EntriesOf
  <2>. QED  BY <2>1, <2>2, RangeAppends, RangeTyped
<1>5. /\ v \in ClientRecords /\ v.ui = "asking" /\ v.turnRev = sees.rev /\ v.rev = sees.rev
      /\ v.shown = Append(sees.shown, Question(i))
  BY <1>4 DEF ClientRecords
<1>6. /\ r \in CallRecords /\ r.kind = "turn" /\ r.by = c /\ r.at = "asked" /\ r.sent = sees.rev
      /\ r.rev = NoRev /\ r.mine = Range(sees.shown)
  <2>1. r \in CallRecords
    BY <1>3, <1>4 DEF CallRecords, EveryStage
  <2>. QED  BY <1>1, <1>3, <2>1 DEF CallRecords
<1>. HIDE DEF v, r
<1>7. r.at \in Stages(r.kind) /\ r.at \notin Locked /\ call[i].at \notin Locked
  BY <1>6 DEF Stages, Locked, Unsent
<1>8. /\ call' \in Seq(CallRecords) /\ Len(call') = Len(call) /\ DOMAIN call' = DOMAIN call
      /\ call'[i] = r /\ \A j \in DOMAIN call : j # i => call'[j] = call[j]
      /\ \A j \in DOMAIN call' : call'[j].at \in Stages(call'[j].kind)
  BY <1>2, <1>6, <1>7, CallChanges
<1>9. ClientStep(c, i, v)
  <2>1. Len(call) <= Len(call')
    BY <1>2, <1>8 DEF Types
  <2>. QED  BY <1>1, <1>2, <1>3, <1>6, <1>7, <1>8, <2>1 DEF ClientStep
<1>10. Truths \subseteq Truths' /\ client'[c] = v /\ Shown(c)' = Range(v.shown)
  BY <1>5, <1>9, ClientStepIs
<1>11. CallInv(i)'
  BY <1>3, <1>5, <1>6, <1>8, <1>10, SentIsFine
<1>12. <<v.rev, 0, Range(v.shown)>> \in Truths
  BY <1>3, <1>5, ShownWithQuestion
<1>13. ASSUME NEW j \in DOMAIN call, j # i, call[j].by = c, call[j].kind = "turn"
       PROVE  ~LastTurn(c, j) /\ ~LastTurn(c, j)'
  <2>1. j \in Nat /\ j < i
    BY <1>2, <1>3, <1>13, CallIsTyped DEF LastTurn
  <2>. QED  BY <1>1, <1>3, <1>6, <1>8, <2>1 DEF LastTurn
<1>14. \A j \in DOMAIN call : j # i /\ InFlight(c, j)' => FALSE
  BY <1>8, <1>13 DEF InFlight, LastTurn
<1>15. \A j \in DOMAIN call : j # i /\ call[j].at \in Unsent /\ call[j].by = c => FALSE
  <2>1. SUFFICES ASSUME NEW j \in DOMAIN call, j # i, call[j].at \in Unsent, call[j].by = c
                 PROVE  FALSE
    OBVIOUS
  <2>2. call[j].kind = "turn"
    BY <1>2, <2>1, UnsentIsTurn
  <2>3. LastTurn(c, j)
    BY <2>1 DEF Inv, CallInv, Catching
  <2>. QED  BY <1>13, <2>1, <2>2, <2>3
<1>16. \A j \in DOMAIN call' : ~(Replaces(j)' /\ call'[j].by = c)
  <2>1. \A j \in DOMAIN call : call[j].by = c => ~Replaces(j)
    BY <1>3, NothingReplaced
  <2>. QED  BY <1>6, <1>8, <2>1 DEF Replaces
<1>17. v \in ClientRecords
  BY <1>5
<1>18. \A j \in DOMAIN call' : Replaces(j)' /\ call'[j].by = c =>
         /\ v.ui = "replacing"
         /\ \A k \in DOMAIN call' : Replaces(k)' /\ call'[k].by = c => j = k
  BY <1>16
<1>19. \A j \in DOMAIN call : j # i /\ InFlight(c, j)' =>
         /\ InFlight(c, j) /\ v.turnRev = client[c].turnRev
         /\ Shown(c) \subseteq Range(v.shown)
  BY <1>14
<1>20. \A j \in DOMAIN call : j # i /\ call[j].at \in Unsent /\ call[j].by = c =>
         /\ v.ui = client[c].ui /\ (LastTurn(c, j) => LastTurn(c, j)')
         /\ client[c].rev # NoRev => v.rev = client[c].rev
  BY <1>15
<1>. QED  BY <1>9, <1>11, <1>12, <1>17, <1>18, <1>19, <1>20, ClientStepKeeps

\* A client that takes what is new since what it has seen has all that is covered.
LEMMA AdoptedIs ==
  ASSUME Types, NEW sees \in ClientRecords, NEW news, news.turns \in Seq(Entries),
         <<sees.rev, 0, Range(sees.shown)>> \in Truths,
         news.add => sees.rev[1] = news.rev[1] /\ sees.rev[2] = news.rev[2],
         news.add => <<news.rev, sees.rev[3], Range(news.turns)>> \in Truths,
         ~news.add => <<news.rev, 0, Range(news.turns)>> \in Truths
  PROVE  LET a == Adopted(sees, news)
         IN /\ a \in ClientRecords /\ a.ui = sees.ui
            /\ <<a.rev, 0, Range(a.shown)>> \in Truths
<1>. DEFINE a == Adopted(sees, news)
<1>1. CASE news.rev = sees.rev
  BY <1>1 DEF Adopted
<1>2. ASSUME news.rev # sees.rev, ~news.add
      PROVE  /\ a \in ClientRecords /\ a.ui = sees.ui /\ <<a.rev, 0, Range(a.shown)>> \in Truths
  <2>1. news.rev \in Revisions
    BY <1>2, TruthIsTyped
  <2>2. a = [sees EXCEPT !.rev = news.rev, !.shown = news.turns]
    BY <1>2 DEF Adopted
  <2>3. a \in ClientRecords /\ a.ui = sees.ui /\ a.rev = news.rev /\ a.shown = news.turns
    BY <2>1, <2>2 DEF ClientRecords
  <2>. QED  BY <1>2, <2>3
<1>3. ASSUME news.rev # sees.rev, news.add
      PROVE  /\ a \in ClientRecords /\ a.ui = sees.ui /\ <<a.rev, 0, Range(a.shown)>> \in Truths
  <2>1. /\ news.rev \in Revisions /\ Known(news.rev)
        /\ Speaks(news.rev, sees.rev[3], Range(news.turns))
        /\ sees.rev \in Revisions /\ Speaks(sees.rev, 0, Range(sees.shown))
    BY <1>3, TruthIsTyped
  <2>2. a = [sees EXCEPT !.rev = news.rev, !.shown = sees.shown \o news.turns]
    BY <1>3 DEF Adopted
  <2>3. /\ sees.shown \in Seq(Entries) /\ sees.shown \o news.turns \in Seq(Entries)
        /\ Range(sees.shown \o news.turns) = Range(sees.shown) \cup Range(news.turns)
        /\ Range(sees.shown \o news.turns) \in SUBSET Entries
    <3>1. sees.shown \in Seq(Entries)
      BY DEF ClientRecords
    <3>. QED  BY <3>1, RangeConcats, RangeTyped
  <2>4. /\ a \in ClientRecords /\ a.ui = sees.ui /\ a.rev = news.rev
        /\ a.shown = sees.shown \o news.turns
    BY <2>1, <2>2, <2>3 DEF ClientRecords
  <2>5. Current(news.rev) => Current(sees.rev)
    <3>1. epoch # 0
      BY DEF Types
    <3>. QED  BY <1>3, <3>1 DEF Current, NoRev
  <2>6. Speaks(news.rev, 0, Range(sees.shown) \cup Range(news.turns))
    <3>1. SUFFICES ASSUME Current(news.rev), NEW n \in DOMAIN chat, chat[n].id <= news.rev[3]
                   PROVE  chat[n].turn \in Range(sees.shown) \cup Range(news.turns)
      BY DEF Speaks
    <3>2. chat[n].id \in Nat \ {0} /\ sees.rev[3] \in Nat
      BY <2>1, IdsGrow DEF Revisions
    <3>3. CASE chat[n].id <= sees.rev[3]
      BY <2>1, <2>5, <3>1, <3>2, <3>3 DEF Speaks
    <3>4. CASE sees.rev[3] < chat[n].id
      BY <2>1, <3>1, <3>4 DEF Speaks
    <3>. QED  BY <3>2, <3>3, <3>4
  <2>7. <<news.rev, 0, Range(sees.shown) \cup Range(news.turns)>> \in Truths
    BY <2>1, <2>3, <2>6, TruthIs
  <2>. QED  BY <2>3, <2>4, <2>7
<1>. QED  BY <1>1, <1>2, <1>3

LEMMA PromptAnywayKeeps == ASSUME Inv, NEW i \in DOMAIN call, PromptAnyway(i) PROVE  Inv'
<1>1. PICK sees : sees = client[call[i].by]
  OBVIOUS
<1>2. call[i].by \in Clients /\ Sends(i, sees) /\ call[i].at \in Unsent
  BY <1>1, CallIsTyped DEF Inv, PromptAnyway, Is, Unsent
<1>3. sees \in ClientRecords /\ <<sees.rev, 0, Range(sees.shown)>> \in Truths
  BY <1>1, <1>2, ClientIsTyped, NewIsDated DEF Inv, Shown
<1>. QED  BY <1>2, <1>3, SendsKeeps

LEMMA PromptLevelKeeps == ASSUME Inv, NEW i \in DOMAIN call, PromptLevel(i) PROVE  Inv'
<1>1. PICK sees, news : sees = client[call[i].by] /\ news = News(i, call[i].sent)
  OBVIOUS
<1>2. /\ call[i].by \in Clients /\ Sends(i, Adopted(sees, news))
      /\ call[i].at = "catchingUp" /\ call[i].at \in Unsent /\ Types
  BY <1>1, CallIsTyped DEF Inv, PromptLevel, Is, Unsent
<1>3. sees \in ClientRecords /\ <<sees.rev, 0, Range(sees.shown)>> \in Truths
  BY <1>1, <1>2, ClientIsTyped, NewIsDated DEF Shown
<1>4. /\ call[i].gen <= gen /\ call[i].sent \in Revisions /\ Known(call[i].sent)
      /\ call[i].sent # NoRev => sees.rev = call[i].sent
  <2>1. Dated(i) /\ Catching(i)
    BY DEF Inv, CallInv
  <2>. QED  BY <1>1, <1>2, <2>1, CallIsTyped, TruthIsTyped DEF Dated, Catching
<1>5. /\ news.turns \in Seq(Entries) /\ news.add \in BOOLEAN
      /\ news.add => /\ call[i].sent # NoRev
                     /\ call[i].sent[1] = news.rev[1] /\ call[i].sent[2] = news.rev[2]
      /\ <<news.rev, IF news.add THEN call[i].sent[3] ELSE 0, Range(news.turns)>> \in Truths
  BY <1>1, <1>2, <1>4, NewsIsTold
<1>6. /\ news.add => sees.rev[1] = news.rev[1] /\ sees.rev[2] = news.rev[2]
      /\ news.add => <<news.rev, sees.rev[3], Range(news.turns)>> \in Truths
      /\ ~news.add => <<news.rev, 0, Range(news.turns)>> \in Truths
  BY <1>4, <1>5
<1>7. PICK a : a = Adopted(sees, news)
  OBVIOUS
<1>8. a \in ClientRecords /\ <<a.rev, 0, Range(a.shown)>> \in Truths
  BY <1>2, <1>3, <1>5, <1>6, <1>7, AdoptedIs
<1>. QED  BY <1>2, <1>7, <1>8, SendsKeeps

-----------------------------------------------------------------------------
\* The answers.

\* A call's client has taken its answer, and sees v.
LEMMA EndsKeeps ==
  ASSUME Inv, NEW i \in DOMAIN call, NEW c \in Clients, call[i].by = c,
         call[i].at \in {"replied", "failed"}, Ends(i), UNCHANGED daemonVars,
         NEW v \in ClientRecords, client' = [client EXCEPT ![c] = v],
         <<v.rev, 0, Range(v.shown)>> \in Truths,
         v.ui = "asking" => /\ client[c].ui = "asking" /\ call[i].kind # "turn"
                            /\ v.turnRev = client[c].turnRev /\ Shown(c) \subseteq Range(v.shown),
         client[c].ui = "catching" =>
           v.ui = "catching" /\ (client[c].rev # NoRev => v.rev = client[c].rev),
         client[c].ui = "replacing" => v.ui = "replacing" \/ Replaces(i)
  PROVE  Inv'
<1>1. PICK r : r = Over(i)
  OBVIOUS
<1>2. Types /\ call' = [call EXCEPT ![i] = r]
  BY <1>1 DEF Inv, Ends
<1>3. /\ r \in CallRecords /\ r.at = "over" /\ r.at \in Stages(r.kind)
      /\ r.kind = call[i].kind /\ r.by = c
  BY <1>1, <1>2, OverIsTyped
<1>4. /\ call' \in Seq(CallRecords) /\ Len(call') = Len(call) /\ DOMAIN call' = DOMAIN call
      /\ call'[i] = r /\ \A j \in DOMAIN call : j # i => call'[j] = call[j]
      /\ \A j \in DOMAIN call' : call'[j].at \in Stages(call'[j].kind)
  BY <1>2, <1>3, CallChanges
<1>5. ClientStep(c, i, v)
  <2>1. Len(call) <= Len(call') /\ r.at \notin Locked /\ call[i].at \notin Locked
    BY <1>2, <1>3, <1>4 DEF Types, Locked
  <2>. QED  BY <1>3, <1>4, <2>1 DEF ClientStep
<1>6. Types' /\ client'[c] = v
  BY <1>5, ClientStepIs
<1>7. \A j \in DOMAIN call : call'[j].kind = call[j].kind /\ call'[j].by = call[j].by
  BY <1>3, <1>4
<1>8. CallInv(i)'
  <2>1. \A d \in Clients : ~InFlight(d, i)'
    BY <1>6, <1>7 DEF InFlight
  <2>. QED  BY <1>1, <1>2, <1>4, <1>6, <2>1, OverKeeps
<1>9. \A j \in DOMAIN call' : Replaces(j)' /\ call'[j].by = c =>
        /\ v.ui = "replacing"
        /\ \A k \in DOMAIN call' : Replaces(k)' /\ call'[k].by = c => j = k
  <2>1. \A j \in DOMAIN call : Replaces(j)' => j # i /\ Replaces(j)
    BY <1>3, <1>4 DEF Replaces
  <2>2. Waiting
    BY DEF Inv
  <2>3. \A j \in DOMAIN call : Replaces(j)' /\ call[j].by = c => client[c].ui = "replacing" /\ ~Replaces(i)
    BY <2>1, <2>2 DEF Waiting
  <2>4. \A j, k \in DOMAIN call :
          Replaces(j)' /\ call[j].by = c /\ Replaces(k)' /\ call[k].by = c => j = k
    BY <2>1, <2>2 DEF Waiting
  <2>. QED  BY <1>4, <1>7, <2>3, <2>4
<1>10. \A j \in DOMAIN call : j # i /\ InFlight(c, j)' =>
         /\ InFlight(c, j) /\ v.turnRev = client[c].turnRev /\ Shown(c) \subseteq Range(v.shown)
  BY <1>4, <1>6, <1>7 DEF InFlight
<1>11. \A j \in DOMAIN call : j # i /\ call[j].at \in Unsent /\ call[j].by = c =>
         /\ v.ui = client[c].ui /\ (LastTurn(c, j) => LastTurn(c, j)')
         /\ client[c].rev # NoRev => v.rev = client[c].rev
  <2>1. \A j \in DOMAIN call : LastTurn(c, j) => LastTurn(c, j)'
    BY <1>4, <1>7 DEF LastTurn
  <2>2. \A j \in DOMAIN call : call[j].at \in Unsent /\ call[j].by = c => client[c].ui = "catching"
    BY NothingUnsent
  <2>. QED  BY <2>1, <2>2
<1>. QED  BY <1>5, <1>8, <1>9, <1>10, <1>11, ClientStepKeeps

\* A client turns from a turn that goes on without it.
LEMMA LeavesKeeps ==
  ASSUME Inv, NEW c \in Clients, client[c].ui = "asking", UNCHANGED <<daemonVars, call>>,
         NEW v \in ClientRecords, client' = [client EXCEPT ![c] = v],
         <<v.rev, 0, Range(v.shown)>> \in Truths, v.ui = "idle"
  PROVE  Inv'
<1>1. Types /\ DOMAIN call = 1 .. Len(call) /\ Len(call) \in Nat
  BY DEF Inv, Types
<1>2. ClientStep(c, 0, v)
  BY <1>1 DEF ClientStep, Types
<1>3. client'[c] = v
  BY <1>2, ClientStepIs
<1>4. 0 \notin DOMAIN call' /\ \A j \in DOMAIN call : ~InFlight(c, j)'
  BY <1>1, <1>3 DEF InFlight
<1>5. \A j \in DOMAIN call : call[j].by = c => call[j].at \notin Unsent /\ ~Replaces(j)
  BY NothingUnsent, NothingReplaced
<1>6. \A j \in DOMAIN call' : Replaces(j)' /\ call'[j].by = c =>
        /\ v.ui = "replacing"
        /\ \A k \in DOMAIN call' : Replaces(k)' /\ call'[k].by = c => j = k
  BY <1>5 DEF Replaces
<1>7. \A j \in DOMAIN call : j # 0 /\ InFlight(c, j)' =>
        /\ InFlight(c, j) /\ v.turnRev = client[c].turnRev /\ Shown(c) \subseteq Range(v.shown)
  BY <1>4
<1>8. \A j \in DOMAIN call : j # 0 /\ call[j].at \in Unsent /\ call[j].by = c =>
        /\ v.ui = client[c].ui /\ (LastTurn(c, j) => LastTurn(c, j)')
        /\ client[c].rev # NoRev => v.rev = client[c].rev
  BY <1>5
<1>. QED  BY <1>2, <1>4, <1>6, <1>7, <1>8, ClientStepKeeps

LEMMA CaughtUpKeeps == ASSUME Inv, NEW i \in DOMAIN call, CaughtUp(i) PROVE  Inv'
<1>1. PICK c \in Clients : c = call[i].by
  BY CallIsTyped DEF Inv
<1>2. /\ Types /\ Ends(i) /\ UNCHANGED daemonVars /\ call[i].kind = "fetch"
      /\ call[i].at \in {"replied", "failed"}
  BY DEF Inv, CaughtUp, Is
<1>3. client \in [Clients -> ClientRecords] /\ client[c] \in ClientRecords
  BY <1>2 DEF Types
<1>4. <<client[c].rev, 0, Shown(c)>> \in Truths
  BY NewIsDated
<1>5. ASSUME client' = client
      PROVE  Inv'
  <2>1. PICK v : v = client[c]
    OBVIOUS
  <2>2. client' = [client EXCEPT ![c] = v]
    BY <1>3, <1>5, <2>1
  <2>3. <<v.rev, 0, Range(v.shown)>> \in Truths /\ v \in ClientRecords
    BY <1>3, <1>4, <2>1 DEF Shown
  <2>4. v.ui = "asking" => /\ client[c].ui = "asking" /\ call[i].kind # "turn"
                           /\ v.turnRev = client[c].turnRev /\ Shown(c) \subseteq Range(v.shown)
    BY <1>2, <2>1 DEF Shown
  <2>5. /\ client[c].ui = "catching" =>
             v.ui = "catching" /\ (client[c].rev # NoRev => v.rev = client[c].rev)
        /\ client[c].ui = "replacing" => v.ui = "replacing" \/ Replaces(i)
    BY <2>1
  <2>. QED  BY <1>1, <1>2, <2>2, <2>3, <2>4, <2>5, EndsKeeps
<1>6. ASSUME call[i].at = "replied", call[i].sent = client[c].rev, client[c].ui = "idle",
             client' = [client EXCEPT ![c] = Adopted(client[c], call[i])]
      PROVE  Inv'
  <2>1. PICK v, sees, news : v = Adopted(sees, news) /\ sees = client[c] /\ news = call[i]
    OBVIOUS
  <2>2. FetchTold(i) /\ sees \in ClientRecords /\ news.turns \in Seq(Entries)
    BY <1>2, <1>3, <2>1, CallIsTyped DEF Inv, CallInv
  <2>3. /\ <<sees.rev, 0, Range(sees.shown)>> \in Truths
        /\ news.add => sees.rev[1] = news.rev[1] /\ sees.rev[2] = news.rev[2]
        /\ news.add => <<news.rev, sees.rev[3], Range(news.turns)>> \in Truths
        /\ ~news.add => <<news.rev, 0, Range(news.turns)>> \in Truths
    BY <1>2, <1>4, <1>6, <2>1, <2>2 DEF FetchTold, Since, Shown
  <2>4. v \in ClientRecords /\ v.ui = sees.ui /\ <<v.rev, 0, Range(v.shown)>> \in Truths
    BY <1>2, <2>1, <2>2, <2>3, AdoptedIs
  <2>5. client' = [client EXCEPT ![c] = v] /\ v.ui = "idle" /\ v \in ClientRecords
    BY <1>6, <2>1, <2>4
  <2>6. <<v.rev, 0, Range(v.shown)>> \in Truths
    BY <2>4
  <2>7. v.ui # "asking" /\ client[c].ui # "catching" /\ client[c].ui # "replacing"
    BY <1>6, <2>5
  <2>8. client' = [client EXCEPT ![c] = v] /\ v \in ClientRecords
    BY <2>5
  <2>. QED  BY <1>1, <1>2, <2>6, <2>7, <2>8, EndsKeeps
<1>7. client' = IF call[i].at = "failed" \/ Outdated(i) \/ ~CanCatchUp(c) THEN client
                ELSE [client EXCEPT ![c] = Adopted(client[c], call[i])]
  BY <1>1 DEF CaughtUp
<1>8. CASE call[i].at = "failed" \/ Outdated(i) \/ ~CanCatchUp(c)
  <2>1. client' = client
    BY <1>7, <1>8
  <2>. QED  BY <1>5, <2>1
<1>9. CASE ~(call[i].at = "failed" \/ Outdated(i) \/ ~CanCatchUp(c))
  <2>1. client' = [client EXCEPT ![c] = Adopted(client[c], call[i])]
    BY <1>7, <1>9
  <2>2. call[i].at = "replied" /\ call[i].sent = client[c].rev /\ client[c].ui = "idle"
    BY <1>1, <1>2, <1>9 DEF Outdated, CanCatchUp
  <2>. QED  BY <1>6, <2>1, <2>2
<1>. QED  BY <1>8, <1>9

LEMMA ResetAnsweredKeeps == ASSUME Inv, NEW i \in DOMAIN call, ResetAnswered(i) PROVE  Inv'
<1>1. PICK c \in Clients : c = call[i].by
  BY CallIsTyped DEF Inv
<1>2. /\ Types /\ Ends(i) /\ UNCHANGED daemonVars /\ call[i].kind = "reset"
      /\ call[i].at \in {"replied", "failed"} /\ call[i].rev \in Revisions
  BY CallIsTyped DEF Inv, ResetAnswered, Is
<1>3. PICK rev : rev = IF client[c].rev = NoRev THEN call[i].rev ELSE client[c].rev
  OBVIOUS
<1>4. /\ client \in [Clients -> ClientRecords] /\ client[c] \in ClientRecords
      /\ client[c].rev \in Revisions /\ rev \in Revisions /\ Shown(c) \in SUBSET Entries
  BY <1>2, <1>3, ClientIsTyped DEF Types
<1>. DEFINE v == [client[c] EXCEPT !.pending = FALSE, !.rev = rev]
<1>5. client' = [client EXCEPT ![c] = v]
  BY <1>1, <1>3, <1>4 DEF ResetAnswered, ClientRecords
<1>6. /\ v \in ClientRecords /\ v.ui = client[c].ui /\ v.rev = rev
      /\ v.turnRev = client[c].turnRev /\ v.shown = client[c].shown
  BY <1>4 DEF ClientRecords
<1>. HIDE DEF v
<1>7. <<rev, 0, Shown(c)>> \in Truths
  <2>1. <<client[c].rev, 0, Shown(c)>> \in Truths
    BY NewIsDated
  <2>2. CASE call[i].at = "failed"
    <3>1. call[i].rev = NoRev
      BY <2>2 DEF Inv, CallInv, Dated
    <3>2. <<NoRev, 0, Shown(c)>> \in Truths
      BY <1>2, <1>4, NoRevSpeaks
    <3>. QED  BY <1>3, <2>1, <3>1, <3>2
  <2>3. CASE call[i].at = "replied"
    <3>1. <<call[i].rev, 0, {}>> \in Truths
      BY <1>2, <2>3 DEF Inv, CallInv, ReplaceTold
    <3>2. <<call[i].rev, 0, Shown(c)>> \in Truths
      BY <1>4, <3>1, MoreTurns
    <3>. QED  BY <1>3, <2>1, <3>2
  <2>. QED  BY <1>2, <2>2, <2>3
<1>8. /\ <<v.rev, 0, Range(v.shown)>> \in Truths
      /\ v.ui = "asking" => /\ client[c].ui = "asking" /\ call[i].kind # "turn"
                            /\ v.turnRev = client[c].turnRev /\ Shown(c) \subseteq Range(v.shown)
  BY <1>2, <1>6, <1>7 DEF Shown
<1>9. /\ client[c].ui = "catching" =>
           v.ui = "catching" /\ (client[c].rev # NoRev => v.rev = client[c].rev)
      /\ client[c].ui = "replacing" => v.ui = "replacing" \/ Replaces(i)
  BY <1>3, <1>6
<1>10. v \in ClientRecords
  BY <1>6
<1>. QED  BY <1>1, <1>2, <1>5, <1>8, <1>9, <1>10, EndsKeeps

LEMMA ReplaceAnsweredKeeps == ASSUME Inv, NEW i \in DOMAIN call, ReplaceAnswered(i) PROVE  Inv'
<1>1. PICK c \in Clients : c = call[i].by
  BY CallIsTyped DEF Inv
<1>2. /\ Types /\ Ends(i) /\ UNCHANGED daemonVars /\ call[i].kind \in {"resume", "compact"}
      /\ call[i].at \in {"replied", "failed"} /\ call[i].rev \in Revisions
      /\ call[i].turns \in Seq(Entries)
  BY CallIsTyped DEF Inv, ReplaceAnswered
<1>3. Replaces(i) /\ client[c].ui = "replacing"
  BY <1>1, <1>2 DEF Replaces, Inv, Waiting
<1>4. client[c] \in ClientRecords /\ <<client[c].rev, 0, Range(client[c].shown)>> \in Truths
  BY <1>2, NewIsDated DEF Types, Shown
<1>5. PICK v : v = IF call[i].at = "failed" THEN [client[c] EXCEPT !.ui = "idle"]
                   ELSE [client[c] EXCEPT !.ui = "idle", !.rev = call[i].rev, !.shown = call[i].turns]
  OBVIOUS
<1>6. client' = [client EXCEPT ![c] = v]
  BY <1>1, <1>5 DEF ReplaceAnswered
<1>7. v \in ClientRecords /\ v.ui = "idle" /\ <<v.rev, 0, Range(v.shown)>> \in Truths
  <2>1. CASE call[i].at = "failed"
    <3>1. v \in ClientRecords /\ v.ui = "idle" /\ v.rev = client[c].rev /\ v.shown = client[c].shown
      BY <1>4, <1>5, <2>1 DEF ClientRecords
    <3>. QED  BY <1>4, <3>1
  <2>2. CASE call[i].at = "replied"
    <3>1. v \in ClientRecords /\ v.ui = "idle" /\ v.rev = call[i].rev /\ v.shown = call[i].turns
      BY <1>2, <1>4, <1>5, <2>2 DEF ClientRecords
    <3>2. <<call[i].rev, 0, Range(call[i].turns)>> \in Truths
      BY <1>2, <2>2 DEF Inv, CallInv, ReplaceTold
    <3>. QED  BY <3>1, <3>2
  <2>. QED  BY <1>2, <2>1, <2>2
<1>. QED  BY <1>1, <1>2, <1>3, <1>6, <1>7, EndsKeeps

LEMMA TurnDoneKeeps ==
  ASSUME Inv, NEW c \in Clients, NEW i \in DOMAIN call, TurnDone(c, i)
  PROVE  Inv'
<1>1. /\ Types /\ Ends(i) /\ UNCHANGED daemonVars /\ InFlight(c, i)
      /\ call[i].at = "replied" /\ call[i].by = c /\ call[i].kind = "turn"
      /\ client[c].ui = "asking" /\ call[i].rev \in Revisions
  BY CallIsTyped DEF Inv, TurnDone, InFlight
<1>2. PICK rev, shown :
        /\ rev = IF call[i].add \/ client[c].turnRev = NoRev THEN NoRev ELSE call[i].rev
        /\ shown = Append(client[c].shown, Reply(i))
  OBVIOUS
<1>3. /\ client \in [Clients -> ClientRecords] /\ client[c] \in ClientRecords
      /\ client[c].shown \in Seq(Entries) /\ NoRev \in Revisions /\ rev \in Revisions
  BY <1>1, <1>2, ClientIsTyped, RevisionTyped DEF Types
<1>4. shown \in Seq(Entries) /\ Range(shown) = Shown(c) \cup {Reply(i)} /\ Range(shown) \in SUBSET Entries
  BY <1>1, <1>2, <1>3, EntriesOf, RangeAppends, RangeTyped DEF Shown
<1>. DEFINE v == [client[c] EXCEPT !.ui = "idle", !.shown = shown, !.rev = rev, !.turnRev = NoRev]
<1>5. client' = [client EXCEPT ![c] = v]
  BY <1>2, <1>3 DEF TurnDone, ClientRecords
<1>6. v \in ClientRecords /\ v.ui = "idle" /\ v.rev = rev /\ v.shown = shown
  BY <1>3, <1>4 DEF ClientRecords
<1>. HIDE DEF v
<1>7. <<rev, 0, Range(shown)>> \in Truths
  <2>1. CASE rev = NoRev
    BY <1>1, <1>4, <2>1, NoRevSpeaks
  <2>2. CASE rev # NoRev
    <3>1. ~call[i].add /\ client[c].turnRev # NoRev /\ rev = call[i].rev
      BY <1>2, <2>2
    <3>2. Asking(i) /\ TurnTold(i)
      BY DEF Inv, CallInv
    <3>3. call[i].sent # NoRev
      BY <1>1, <3>1, <3>2 DEF Asking
    <3>4. <<call[i].rev, 0, Shown(c) \cup {Reply(i)}>> \in Truths
      BY <1>1, <3>1, <3>2, <3>3 DEF TurnTold
    <3>. QED  BY <1>4, <3>1, <3>4
  <2>. QED  BY <2>1, <2>2
<1>8. <<v.rev, 0, Range(v.shown)>> \in Truths
  BY <1>6, <1>7
<1>. QED  BY <1>1, <1>5, <1>6, <1>8, EndsKeeps

LEMMA TurnFailsKeeps ==
  ASSUME Inv, NEW c \in Clients, NEW i \in DOMAIN call, TurnFails(c, i)
  PROVE  Inv'
<1>1. /\ Types /\ UNCHANGED daemonVars /\ call[i].by = c /\ client[c].ui = "asking"
      /\ (call[i].at \in {"replied", "failed"} /\ Ends(i)) \/ UNCHANGED call
  BY DEF Inv, TurnFails, InFlight
<1>2. /\ client \in [Clients -> ClientRecords] /\ client[c] \in ClientRecords /\ NoRev \in Revisions
      /\ <<client[c].rev, 0, Range(client[c].shown)>> \in Truths
  BY <1>1, NewIsDated, RevisionTyped DEF Types, Shown
<1>. DEFINE v == [client[c] EXCEPT !.ui = "idle", !.turnRev = NoRev]
<1>3. client' = [client EXCEPT ![c] = v]
  BY <1>2 DEF TurnFails, ClientRecords
<1>4. v \in ClientRecords /\ v.ui = "idle" /\ v.rev = client[c].rev /\ v.shown = client[c].shown
  BY <1>2 DEF ClientRecords
<1>. HIDE DEF v
<1>5. <<v.rev, 0, Range(v.shown)>> \in Truths
  BY <1>2, <1>4
<1>6. CASE UNCHANGED call
  BY <1>1, <1>3, <1>4, <1>5, <1>6, LeavesKeeps
<1>7. CASE call[i].at \in {"replied", "failed"} /\ Ends(i)
  BY <1>1, <1>3, <1>4, <1>5, <1>7, EndsKeeps
<1>. QED  BY <1>1, <1>6, <1>7

LEMMA InterruptsKeeps ==
  ASSUME Inv, NEW c \in Clients, NEW i \in DOMAIN call, Interrupts(c, i)
  PROVE  Inv'
<1>1. /\ Types /\ UNCHANGED daemonVars /\ call[i].by = c /\ client[c].ui = "asking"
      /\ (call[i].at \in {"replied", "failed"} /\ Ends(i)) \/ UNCHANGED call
  BY DEF Inv, Interrupts, InFlight
<1>2. /\ client \in [Clients -> ClientRecords] /\ client[c] \in ClientRecords /\ NoRev \in Revisions
      /\ Range(client[c].shown) \in SUBSET Entries
  BY <1>1, ClientIsTyped, RevisionTyped DEF Types, Shown
<1>. DEFINE v == [client[c] EXCEPT !.ui = "idle", !.turnRev = NoRev, !.rev = NoRev]
<1>3. client' = [client EXCEPT ![c] = v]
  BY <1>2 DEF Interrupts, ClientRecords
<1>4. v \in ClientRecords /\ v.ui = "idle" /\ v.rev = NoRev /\ v.shown = client[c].shown
  BY <1>2 DEF ClientRecords
<1>. HIDE DEF v
<1>5. <<v.rev, 0, Range(v.shown)>> \in Truths
  BY <1>1, <1>2, <1>4, NoRevSpeaks
<1>6. CASE UNCHANGED call
  BY <1>1, <1>3, <1>4, <1>5, <1>6, LeavesKeeps
<1>7. CASE call[i].at \in {"replied", "failed"} /\ Ends(i)
  BY <1>1, <1>3, <1>4, <1>5, <1>7, EndsKeeps
<1>. QED  BY <1>1, <1>6, <1>7

LEMMA DeliveredKeeps == ASSUME Inv, NEW i \in DOMAIN call, Delivered(i) PROVE  Inv'
BY CaughtUpKeeps, PromptLevelKeeps, PromptAnywayKeeps, ResetAnsweredKeeps, ReplaceAnsweredKeeps
   DEF Delivered

LEMMA TerminalKeeps == ASSUME Inv, NEW c \in Clients, Terminal(c) PROVE  Inv'
BY CatchUpKeeps, PromptKeeps, PromptNowKeeps, ClearConversationKeeps, ReplaceKeeps,
   TurnDoneKeeps, TurnFailsKeeps, InterruptsKeeps DEF Terminal

-----------------------------------------------------------------------------
\* The daemon dies and is started again: nothing that was said is of the chat it serves.

LEMMA AfterDeathIs ==
  ASSUME Types, NEW i \in DOMAIN call, NEW r, r = AfterDeath(i)
  PROVE  /\ r \in CallRecords /\ r.at \in Stages(r.kind) /\ r.at \notin Locked
         /\ r.kind = call[i].kind /\ r.by = call[i].by
         /\ \/ r = call[i] /\ call[i].at \in {"replied", "unreached", "failed", "over"}
            \/ r = Over(i) /\ call[i].kind = "turn" /\ ~InFlight(call[i].by, i)
            \/ /\ r.at = "unreached" /\ call[i].at \in Unsent
               /\ r.sent = call[i].sent /\ r.rev = call[i].rev
            \/ /\ r.at = "failed" /\ call[i].at # "replied" /\ call[i].at # "over"
               /\ r.sent = call[i].sent /\ r.rev = call[i].rev
<1>1. /\ call[i] \in CallRecords /\ call[i].at \in Stages(call[i].kind) /\ call[i].kind \in Kinds
      /\ NoRev \in Revisions
  BY CallIsTyped, RevisionTyped
<1>2. CASE call[i].at \in {"replied", "unreached", "failed", "over"}
  BY <1>1, <1>2 DEF AfterDeath, Locked
<1>3. CASE /\ call[i].at \notin {"replied", "unreached", "failed", "over"}
           /\ call[i].kind = "turn" /\ call[i].at \notin {"catching", "catchingUp"}
           /\ ~InFlight(call[i].by, i)
  <2>1. r = Over(i)
    BY <1>3 DEF AfterDeath
  <2>. QED  BY <1>3, <2>1, OverIsTyped DEF Locked
<1>4. ASSUME call[i].at \notin {"replied", "unreached", "failed", "over"},
             ~(/\ call[i].kind = "turn" /\ call[i].at \notin {"catching", "catchingUp"}
               /\ ~InFlight(call[i].by, i)),
             NEW at, at = IF call[i].at \in {"catching", "catchingUp"} THEN "unreached" ELSE "failed"
      PROVE  /\ r \in CallRecords /\ r.at \in Stages(r.kind) /\ r.at = at
             /\ r.kind = call[i].kind /\ r.by = call[i].by
             /\ r.sent = call[i].sent /\ r.rev = call[i].rev
  <2>1. r = [call[i] EXCEPT !.at = at, !.gen = 0, !.mine = {}, !.before = NoRev]
    BY <1>4 DEF AfterDeath
  <2>2. at \in EveryStage
    BY <1>4 DEF EveryStage
  <2>3. r \in CallRecords
    <3>1. {} \in SUBSET Entries
      OBVIOUS
    <3>2. PICK s : s = [call[i] EXCEPT !.at = at, !.gen = 0]
      OBVIOUS
    <3>3. s \in CallRecords
      BY <1>1, <2>2, <3>2 DEF CallRecords
    <3>4. r = [s EXCEPT !.mine = {}, !.before = NoRev]
      BY <1>1, <2>1, <3>2 DEF CallRecords
    <3>. QED  BY <1>1, <3>1, <3>3, <3>4 DEF CallRecords
  <2>4. /\ r.at = at /\ r.kind = call[i].kind /\ r.by = call[i].by
        /\ r.sent = call[i].sent /\ r.rev = call[i].rev
    BY <1>1, <2>1 DEF CallRecords
  <2>5. at \in Stages(call[i].kind)
    BY <1>1, <1>4 DEF Stages, Kinds
  <2>. QED  BY <2>3, <2>4, <2>5
<1>. QED  BY <1>2, <1>3, <1>4 DEF Unsent, Locked

LEMMA RestartKeeps == ASSUME Inv, Restart PROVE  Inv'
<1>1. /\ Types /\ call' = [i \in DOMAIN call |-> AfterDeath(i)] /\ client' = client /\ chat' = chat
      /\ epoch' = epoch + 1 /\ gen' = 0 /\ holder' = 0 /\ epoch <= MaxRestarts
  BY DEF Inv, Restart
<1>2. /\ DOMAIN call = 1 .. Len(call) /\ Len(call) \in Nat /\ DOMAIN call' = DOMAIN call
      /\ epoch \in Nat /\ epoch # 0 /\ gen \in Nat
  BY <1>1 DEF Types
<1>3. ASSUME NEW i \in DOMAIN call
      PROVE  /\ call'[i] \in CallRecords /\ call'[i].at \in Stages(call'[i].kind)
             /\ call'[i].at \notin Locked
             /\ call'[i].kind = call[i].kind /\ call'[i].by = call[i].by
             /\ \/ call'[i] = call[i] /\ call[i].at \in {"replied", "unreached", "failed", "over"}
                \/ call'[i] = Over(i) /\ call[i].kind = "turn" /\ ~InFlight(call[i].by, i)
                \/ /\ call'[i].at = "unreached" /\ call[i].at \in Unsent
                   /\ call'[i].sent = call[i].sent /\ call'[i].rev = call[i].rev
                \/ /\ call'[i].at = "failed" /\ call[i].at # "replied" /\ call[i].at # "over"
                   /\ call'[i].sent = call[i].sent /\ call'[i].rev = call[i].rev
  <2>1. PICK r : r = AfterDeath(i)
    OBVIOUS
  <2>2. call'[i] = r
    BY <1>1, <2>1
  <2>. QED  BY <1>1, <2>1, <2>2, AfterDeathIs
<1>4. call' \in Seq(CallRecords) /\ Len(call') = Len(call)
  BY <1>1, <1>2, <1>3
<1>5. Types'
  BY <1>1, <1>2, <1>3, <1>4 DEF Types
<1>6. Truths \subseteq Truths'
  BY <1>1, TruthsAge
<1>7. Holding'
  BY <1>1, <1>2, <1>3 DEF Holding, Locked
<1>8. Waiting'
  <2>1. ASSUME NEW i \in DOMAIN call, Replaces(i)'
        PROVE  Replaces(i)
    <3>1. call[i].at = "over" => call'[i].at = "over"
      BY <1>1, <1>3, OverIsTyped DEF Unsent
    <3>. QED  BY <1>3, <2>1, <3>1 DEF Replaces
  <2>. QED  BY <1>1, <1>2, <1>3, <2>1 DEF Inv, Waiting
<1>9. \A c \in Clients : Clear(c)'
  BY <1>1, <1>6 DEF Inv, Clear, Shown
<1>10. \A i \in DOMAIN call : \A c \in Clients :
         (InFlight(c, i)' <=> InFlight(c, i)) /\ (LastTurn(c, i)' <=> LastTurn(c, i))
  BY <1>1, <1>2, <1>3, FlightsStay
<1>11. ASSUME NEW i \in DOMAIN call'
       PROVE  CallInv(i)'
  <2>1. i \in DOMAIN call /\ CallInv(i)
    BY <1>2, <1>11 DEF Inv
  <2>2. CASE call'[i] = call[i] /\ call[i].at \in {"replied", "unreached", "failed", "over"}
    <3>1. call[i].at \notin {"saving", "saved", "replaced"} /\ call[i].at \notin {"reading", "catchingUp"}
      BY <2>2
    <3>2. \A c \in Clients : InFlight(c, i)' =>
            /\ InFlight(c, i)
            /\ client'[c].turnRev = client[c].turnRev /\ Shown(c) \subseteq Shown(c)'
      BY <1>1, <1>10, <2>1 DEF Shown
    <3>3. \A c \in Clients : (LastTurn(c, i) => LastTurn(c, i)')
      BY <1>10, <2>1
    <3>. QED  BY <1>1, <1>5, <1>6, <2>1, <2>2, <3>1, <3>2, <3>3, CallKeeps
  <2>3. CASE call'[i] = Over(i) /\ call[i].kind = "turn" /\ ~InFlight(call[i].by, i)
    <3>1. \A c \in Clients : ~InFlight(c, i)'
      BY <1>10, <2>1, <2>3 DEF InFlight
    <3>. QED  BY <1>1, <1>5, <2>1, <2>3, <3>1, OverKeeps
  <2>4. ASSUME call'[i].sent = call[i].sent, call'[i].rev = call[i].rev,
               call'[i].at \in {"unreached", "failed"},
               call'[i].at = "unreached" => call[i].at \in Unsent,
               call[i].at # "replied", call[i].at # "over"
        PROVE  CallInv(i)'
    <3>1. Catching(i)'
      BY <1>1, <1>3, <1>10, <2>1, <2>4 DEF CallInv, Catching, Unsent
    <3>2. Asking(i)'
      BY <1>1, <1>6, <1>10, <2>1, <2>4, AskingStays
    <3>3. Sending(i)' /\ Saving(i)' /\ TurnTold(i)' /\ FetchTold(i)' /\ ReplaceTold(i)'
      BY <2>4 DEF Sending, Saving, Is, TurnTold, FetchTold, ReplaceTold
    <3>4. Dated(i)'
      BY <1>6, <2>1, <2>4 DEF CallInv, Dated, Entries
    <3>. QED  BY <3>1, <3>2, <3>3, <3>4 DEF CallInv
  <2>. QED  BY <1>3, <2>1, <2>2, <2>3, <2>4 DEF Unsent
<1>. QED  BY <1>2, <1>5, <1>7, <1>8, <1>9, <1>11 DEF Inv

-----------------------------------------------------------------------------
\* The invariant holds at first, and every step keeps it.

LEMMA InitKeeps == ASSUME ChatInit PROVE  Inv
<1>1. Saved \in Seq(Entries) /\ NoRev \in Revisions
  BY DEF Saved, Entries, NoRev, Revisions
<1>2. chat = Numbered(Saved) /\ chat \in Seq(Rows) /\ \A m, n \in DOMAIN chat : m < n => chat[m].id < chat[n].id
  BY <1>1, NumberedIs DEF ChatInit
<1>3. Revision \in Revisions
  <2>1. Last \in Nat
    <3>1. CASE chat = << >>
      BY <3>1 DEF Last
    <3>2. CASE chat # << >>
      <4>1. Len(chat) \in DOMAIN chat
        BY <1>2, <3>2
      <4>2. chat[Len(chat)] \in Rows
        BY <1>2, <4>1
      <4>. QED  BY <3>2, <4>2 DEF Last, Rows
    <3>. QED  BY <3>1, <3>2
  <2>. QED  BY <2>1 DEF ChatInit, Revision, Revisions
<1>4. /\ client \in [Clients -> ClientRecords]
      /\ \A c \in Clients : client[c].rev = Revision /\ client[c].shown = Saved
  BY <1>1, <1>3 DEF ChatInit, ClientRecords
<1>5. call = << >> /\ holder = 0 /\ epoch = 1 /\ gen = 0 /\ DOMAIN call = {}
  BY DEF ChatInit
<1>6. Types
  BY <1>2, <1>4, <1>5 DEF Types
<1>7. <<Revision, 0, Range(Saved)>> \in Truths
  <2>1. Range(Saved) \in SUBSET Entries
    BY <1>1, RangeTyped
  <2>2. Turns(Numbered(Saved)) = Saved
    BY DEF Saved, Numbered, Turns
  <2>3. \A n \in DOMAIN chat : chat[n].turn \in Range(Saved)
    BY <1>2, <1>6, <2>2, TurnsAreAll
  <2>. QED  BY <1>6, <2>1, <2>3, AllIsTold
<1>8. \A c \in Clients : Clear(c)
  BY <1>4, <1>7 DEF Clear, Shown
<1>. QED  BY <1>5, <1>6, <1>8 DEF Inv, Holding, Waiting

LEMMA NextKeeps == ASSUME Inv, [ChatNext]_chatVars PROVE  Inv'
<1>1. ASSUME NEW i \in DOMAIN call, Daemon(i)
      PROVE  Inv'
  BY <1>1, DaemonStepKeeps
<1>2. ASSUME NEW i \in DOMAIN call, Delivered(i)
      PROVE  Inv'
  BY <1>2, DeliveredKeeps
<1>3. ASSUME NEW c \in Clients, Terminal(c)
      PROVE  Inv'
  BY <1>3, TerminalKeeps
<1>4. CASE Restart
  BY <1>4, RestartKeeps
<1>5. ASSUME UNCHANGED chatVars
      PROVE  Inv'
  <2>1. /\ epoch' = epoch /\ gen' = gen /\ chat' = chat /\ holder' = holder
        /\ call' = call /\ client' = client
    BY <1>5 DEF chatVars
  <2>2. Types' /\ Holding' /\ Waiting'
    BY <2>1 DEF Inv, Types, Holding, Waiting, Replaces
  <2>3. Truths \subseteq Truths'
    BY <2>1, TruthsStay DEF Inv, Replacing
  <2>4. \A c \in Clients : Clear(c)'
    BY <2>1, <2>3 DEF Inv, Clear, Shown
  <2>5. ASSUME NEW i \in DOMAIN call'
        PROVE  CallInv(i)'
    <3>1. i \in DOMAIN call /\ call'[i] = call[i] /\ CallInv(i) /\ Types
      BY <2>1, <2>5 DEF Inv
    <3>2. \A c \in Clients : InFlight(c, i)' =>
            /\ InFlight(c, i)
            /\ client'[c].turnRev = client[c].turnRev /\ Shown(c) \subseteq Shown(c)'
      BY <2>1 DEF InFlight, Shown
    <3>3. \A c \in Clients : LastTurn(c, i) => LastTurn(c, i)'
      BY <2>1 DEF LastTurn
    <3>4. gen <= gen'
      BY <2>1, <3>1 DEF Types
    <3>. QED  BY <2>1, <2>2, <2>3, <3>1, <3>2, <3>3, <3>4, CallKeeps
  <2>. QED  BY <2>2, <2>4, <2>5 DEF Inv
<1>. QED  BY <1>1, <1>2, <1>3, <1>4, <1>5 DEF ChatNext

\* The inductive invariant of the shared chat: whatever the calls of several terminals do to the
\* stored chat, at once and with a daemon that dies between, what any revision claims was told.
THEOREM ChatInvHolds == ChatSpec => []Inv
<1>1. ChatInit => Inv
  BY InitKeeps
<1>2. Inv /\ [ChatNext]_chatVars => Inv'
  BY NextKeeps
<1>. QED  BY <1>1, <1>2, PTL DEF ChatSpec

\* The ids of the stored turns grow with their place, through appends, a chat that is replaced
\* and numbered again, and a failed append; what historyMu is held by is a call.
THEOREM ChatIsTyped == ChatSpec => []ChatTypeOK
<1>1. Inv => ChatTypeOK
  <2>1. SUFFICES ASSUME Types
                 PROVE  ChatTypeOK
    BY DEF Inv
  <2>2. /\ \A n \in DOMAIN chat : chat[n].id \in Nat
        /\ \A n \in DOMAIN chat : n > 1 => n - 1 \in DOMAIN chat /\ n - 1 < n
    BY <2>1, IdsGrow DEF Types
  <2>3. \A n \in DOMAIN chat : n > 1 => chat[n].id > chat[n - 1].id
    BY <2>1, <2>2 DEF Types
  <2>4. \A i \in DOMAIN call : call[i].kind \in Kinds /\ call[i].by \in Clients
    BY <2>1, CallIsTyped
  <2>5. \A c \in Clients : /\ client[c].ui \in {"idle", "catching", "asking", "replacing"}
                           /\ client[c].pending \in BOOLEAN
    BY <2>1 DEF Types, ClientRecords
  <2>6. epoch \in 1 .. MaxRestarts + 1 /\ gen \in Nat /\ holder \in 0 .. Len(call)
    BY <2>1 DEF Types
  <2>. QED  BY <2>2, <2>3, <2>4, <2>5, <2>6 DEF ChatTypeOK
<1>. QED  BY <1>1, ChatInvHolds, PTL

\* "A client is never told it has a turn it was not given" (chatsync.go): whatever terminals ask,
\* save, clear, resume, compact, stop and fetch at once, and however often the daemon dies, what a
\* revision a client holds covers of the stored chat is on its screen.
THEOREM NeverToldMore == ChatSpec => []NeverOverstated
<1>1. Inv => NeverOverstated
  <2>1. SUFFICES ASSUME Inv, NEW c \in Clients, Current(client[c].rev),
                        NEW n \in DOMAIN chat, chat[n].id <= client[c].rev[3]
                 PROVE  chat[n].turn \in Range(client[c].shown)
    BY DEF NeverOverstated, UpTo
  <2>2. Speaks(client[c].rev, 0, Range(client[c].shown))
    BY <2>1, TruthIsTyped DEF Inv, Clear, Shown
  <2>3. 0 < chat[n].id
    BY <2>1, IdsGrow DEF Inv
  <2>. QED  BY <2>1, <2>2, <2>3 DEF Speaks
<1>. QED  BY <1>1, ChatInvHolds, PTL

\* Where historyForTurn finds the client's copy level and takes its history for the stored one,
\* nothing that is stored is missing from it.
THEOREM AnswersFromAll == ChatSpec => []AnsweredFromAll
<1>1. Inv => AnsweredFromAll
  <2>1. SUFFICES ASSUME Inv, NEW i \in DOMAIN call, Is(i, "turn", "reading"), LooksLevel(i),
                        call[i].gen = gen, ~Replacing, NEW n \in DOMAIN chat, chat[n].id <= Last
                 PROVE  chat[n].turn \in call[i].mine
    BY DEF AnsweredFromAll, UpTo
  <2>2. <<Revision, 0, call[i].mine>> \in Truths
    BY <2>1 DEF Inv, CallInv, Sending, Is, LooksLevel, Revision
  <2>3. Types /\ call[i].mine \in SUBSET Entries
    BY <2>1, CallIsTyped DEF Inv
  <2>. QED  BY <2>1, <2>2, <2>3, AllIsShown
<1>. QED  BY <1>1, ChatInvHolds, PTL
=============================================================================
