------------------------------- MODULE ChatSync -------------------------------
(***************************************************************************)
(* The one chat of a workspace, which several terminals write to and show: *)
(* the revision a client is given with what it is sent (daemon/chatsync.go *)
(* and its callers), the writers under historyMu, the readers without it,  *)
(* and the client's side (clients/tui/chatsync.go and chat.go).            *)
(*                                                                         *)
(* What a client asks of the daemon is a call; calls are numbered in the   *)
(* order they are made, and the two turns of an exchange are named after   *)
(* its call.  A revision is <<epoch, generation, last>>; NoRev is "".      *)
(* Row ids are used again as SQLite does it: one more than the largest.    *)
(***************************************************************************)
EXTENDS Integers, Sequences, FiniteSets, Functions

CONSTANTS
  Clients,
  MaxCalls,    \* bound: calls made
  MaxRestarts, \* bound: crashes of the daemon
  MaySever     \* bound: may a turn's connection be lost while the daemon goes on?

ASSUME ChatAssumption ==
  /\ MaxCalls \in Nat /\ MaxRestarts \in Nat /\ MaySever \in BOOLEAN

Kinds == {"turn", "fetch", "reset", "resume", "compact"}
NoRev == <<0, 0, 0>>

VARIABLES
  epoch,   \* chatEpoch, by how many daemons there were
  gen,     \* chatGen
  chat,    \* the stored turns: [id, turn]
  holder,  \* the call that holds historyMu, or 0
  call,    \* the calls made
  client   \* of each client: [ui, rev, turnRev, pending, shown]

chatVars == <<epoch, gen, chat, holder, call, client>>

Question(i) == <<i, "question">>
Reply(i)    == <<i, "answer">>
Summary(i)  == <<i, "summary">>
\* The chat a client resumes, saved some other day.
Saved == <<<<0, "question">>, <<0, "answer">>>>

Numbered(turns) == [n \in 1 .. Len(turns) |-> [id |-> n, turn |-> turns[n]]]
Turns(rows)     == [n \in 1 .. Len(rows) |-> rows[n].turn]
Last            == IF chat = << >> THEN 0 ELSE chat[Len(chat)].id
\* The rows past an id; a row comes after those with smaller ids.
Past(last)  == CHOOSE n \in 0 .. Len(chat) : \A m \in DOMAIN chat : m <= n <=> chat[m].id <= last
After(last) == SubSeq(chat, Past(last) + 1, Len(chat))

\* chatRevisionLocked
Revision == <<epoch, gen, Last>>

ChatInit ==
  /\ epoch = 1 /\ gen = 0
  /\ chat = Numbered(Saved)
  /\ holder = 0 /\ call = << >>
  /\ client = [c \in Clients |-> [ui |-> "idle", rev |-> Revision, turnRev |-> NoRev,
                                  pending |-> FALSE, shown |-> Saved]]

-----------------------------------------------------------------------------
\* The daemon, one step of one call.

Is(i, kind, at) == call[i].kind = kind /\ call[i].at = at

Reaches(i, at) == call' = [call EXCEPT ![i].at = at]

\* A reply: what the client is told, and whether it is to be added to the rest.
Replies(i, rev, turns, add) ==
  call' = [call EXCEPT ![i].at = "replied", ![i].rev = rev, ![i].turns = turns, ![i].add = add,
                       ![i].gen = 0, ![i].mine = {}]

\* The readers, who take no lock: the generation first, and then the turns.
ReadsGen(i) ==
  /\ \/ Is(i, "turn", "catching") \/ Is(i, "turn", "asked") \/ Is(i, "fetch", "asked")
  /\ call' = [call EXCEPT ![i].gen = gen,
                          ![i].at = IF @ = "catching" THEN "catchingUp" ELSE "reading"]
  /\ UNCHANGED <<epoch, gen, chat, holder, client>>

\* Mutant: the generation is read after the turns.
GenOfLate(i) == gen

GenOf(i) == call[i].gen

\* currentChat: what came since a revision of this generation, or everything.
Grown(i, since) == since[1] = epoch /\ since[2] = call[i].gen
News(i, since) ==
  LET from == IF Grown(i, since) THEN since[3] ELSE 0
      rows == After(from)
  IN [rev   |-> <<epoch, GenOf(i), IF rows = << >> THEN from ELSE rows[Len(rows)].id>>,
      turns |-> Turns(rows), add |-> Grown(i, since)]

FetchReads(i) ==
  /\ Is(i, "fetch", "reading")
  /\ LET news == News(i, call[i].sent) IN Replies(i, news.rev, news.turns, news.add)
  /\ UNCHANGED <<epoch, gen, chat, holder, client>>

\* historyForTurn: is the client's copy the stored chat?
LooksLevel(i) == call[i].sent = <<epoch, call[i].gen, Last>>

TurnReads(i) ==
  /\ Is(i, "turn", "reading")
  /\ call' = [call EXCEPT ![i].at = "answering", ![i].gen = 0, ![i].mine = {}]
  /\ UNCHANGED <<epoch, gen, chat, holder, client>>

\* The turn that is on this client's screen.
InFlight(c, i) ==
  /\ client[c].ui = "asking" /\ call[i].by = c /\ call[i].kind = "turn"
  /\ \A j \in DOMAIN call : j > i /\ call[j].by = c => call[j].kind # "turn"

\* Nobody waits for this call any more.
Over(i) == [call[i] EXCEPT !.at = "over", !.rev = NoRev, !.turns = << >>, !.add = FALSE,
                           !.sent = NoRev, !.before = NoRev]
Ends(i) == call' = [call EXCEPT ![i] = Over(i)]

\* What a turn ends with, if its client still waits for it.
Tells(i, rev, add) ==
  call' = [call EXCEPT ![i] = IF InFlight(call[i].by, i)
                              THEN [call[i] EXCEPT !.at = "replied", !.rev = rev, !.add = add,
                                                   !.before = NoRev]
                              ELSE Over(i)]

\* persistTurn, under historyMu: the revision before, the question, the answer
\* and the revision after.
Locks(i, kind, from) == Is(i, kind, from) /\ holder = 0 /\ holder' = i

SaveBegins(i) ==
  /\ Locks(i, "turn", "answering")
  /\ call' = [call EXCEPT ![i].at = "saving", ![i].before = Revision]
  /\ UNCHANGED <<epoch, gen, chat, client>>

\* Mutant: a row's id is the last one's.
AppendTurnStale(turn) == chat' = Append(chat, [id |-> Last, turn |-> turn])

AppendTurn(turn) == chat' = Append(chat, [id |-> Last + 1, turn |-> turn])

SavesQuestion(i) ==
  /\ Is(i, "turn", "saving")
  /\ AppendTurn(Question(i))
  /\ Reaches(i, "saved")
  /\ UNCHANGED <<epoch, gen, holder, client>>

\* Mutant: the client is never told that it was behind.
BehindNever(sent, before) == FALSE

\* markChatRevision
Behind(sent, before) == sent # NoRev /\ sent # before

\* A failed append is logged, and the revision is what it is.
SavesReply(i) ==
  /\ Is(i, "turn", "saved")
  /\ AppendTurn(Reply(i)) \/ UNCHANGED chat
  /\ Tells(i, <<epoch, gen, Last'>>, Behind(call[i].sent, call[i].before))
  /\ holder' = 0
  /\ UNCHANGED <<epoch, gen, client>>

\* An empty answer is not saved, and a call that failed not either.
SavesNothing(i) ==
  /\ Is(i, "turn", "answering") /\ holder = 0
  /\ Tells(i, Revision, Behind(call[i].sent, Revision))
  /\ UNCHANGED <<epoch, gen, chat, holder, client>>

\* The writers that replace the chat: the rows first, and then the generation.
ReplacesRows(i) ==
  /\ \/ Locks(i, "reset", "asked") /\ chat' = << >>
     \/ Locks(i, "resume", "asked") /\ chat' = Numbered(Saved)
     \/ /\ Is(i, "compact", "summarising") /\ UNCHANGED holder
        /\ chat' = Numbered(<<Summary(i)>> \o Turns(After(Last - 1)))
  /\ Reaches(i, "replaced")
  /\ UNCHANGED <<epoch, gen, client>>

\* Mutant: a chat that is replaced is the same chat.
NextGenSame == gen

NextGen == gen + 1

\* chatReplacedLocked
ReplacesGen(i) ==
  /\ call[i].at = "replaced"
  /\ gen' = NextGen
  /\ Replies(i, <<epoch, gen', Last>>, Turns(chat), FALSE)
  /\ holder' = 0
  /\ UNCHANGED <<epoch, chat, client>>

\* compactChat keeps historyMu while the model writes the summary.
CompactBegins(i) ==
  /\ Locks(i, "compact", "asked")
  /\ Len(chat) > 2
  /\ Reaches(i, "summarising")
  /\ UNCHANGED <<epoch, gen, chat, client>>

CompactFails(i) ==
  /\ \/ Is(i, "compact", "summarising") /\ holder' = 0
     \/ Is(i, "compact", "asked") /\ holder = 0 /\ Len(chat) <= 2 /\ UNCHANGED holder
  /\ Reaches(i, "failed")
  /\ UNCHANGED <<epoch, gen, chat, client>>

\* The daemon dies: every call fails, one nobody waits for is gone.
AfterDeath(i) ==
  LET unsent == call[i].at \in {"catching", "catchingUp"}
  IN IF call[i].at \in {"replied", "unreached", "failed", "over"} THEN call[i]
     ELSE IF call[i].kind = "turn" /\ ~unsent /\ ~InFlight(call[i].by, i) THEN Over(i)
     ELSE [call[i] EXCEPT !.at = IF unsent THEN "unreached" ELSE "failed",
                          !.gen = 0, !.mine = {}, !.before = NoRev]

\* It is started again on the stored chat.  (Bound: a call is still to come.)
Restart ==
  /\ epoch <= MaxRestarts /\ Len(call) < MaxCalls
  /\ epoch' = epoch + 1 /\ gen' = 0 /\ holder' = 0
  /\ call' = [i \in DOMAIN call |-> AfterDeath(i)]
  /\ UNCHANGED <<chat, client>>

-----------------------------------------------------------------------------
\* The client.

daemonVars == <<epoch, gen, chat, holder>>

CanCatchUp(c) == client[c].ui = "idle" /\ ~client[c].pending

NewCall(c, kind, at) ==
  [kind |-> kind, by |-> c, at |-> at, sent |-> client[c].rev, gen |-> 0, mine |-> {},
   before |-> NoRev, rev |-> NoRev, turns |-> << >>, add |-> FALSE]
Calls(c, kind, at) == Len(call) < MaxCalls /\ call' = Append(call, NewCall(c, kind, at))

\* catchUpCmd, when the window gets the focus or a turn was not level.
CatchUp(c) ==
  /\ CanCatchUp(c)
  /\ Calls(c, "fetch", "asked")
  /\ UNCHANGED <<daemonVars, client>>

\* adoptChat
Adopted(sees, news) ==
  IF news.rev = sees.rev THEN sees
  ELSE [sees EXCEPT !.rev = news.rev,
                    !.shown = IF news.add THEN sees.shown \o news.turns ELSE news.turns]

\* Mutant: an answer is taken whatever the client has seen meanwhile.
OutdatedNever(i) == FALSE

Outdated(i) == call[i].sent # client[call[i].by].rev

\* handleChatCaughtUp
CaughtUp(i) ==
  /\ Is(i, "fetch", "replied") \/ Is(i, "fetch", "failed")
  /\ LET c == call[i].by IN
     client' = IF call[i].at = "failed" \/ Outdated(i) \/ ~CanCatchUp(c) THEN client
               ELSE [client EXCEPT ![c] = Adopted(client[c], call[i])]
  /\ Ends(i)
  /\ UNCHANGED daemonVars

\* startTurn: catchUpNow first, where that may be done ...
Prompt(c) ==
  /\ CanCatchUp(c)
  /\ Calls(c, "turn", "catching")
  /\ client' = [client EXCEPT ![c].ui = "catching"]
  /\ UNCHANGED daemonVars

\* ... and then the question, with the history of what is shown.
Sends(i, sees) ==
  /\ call' = [call EXCEPT ![i].at = "asked", ![i].sent = sees.rev, ![i].gen = 0,
                          ![i].mine = Range(sees.shown)]
  /\ client' = [client EXCEPT ![call[i].by] =
       [sees EXCEPT !.ui = "asking", !.turnRev = sees.rev, !.shown = Append(sees.shown, Question(i))]]
  /\ UNCHANGED daemonVars

PromptLevel(i) ==
  /\ Is(i, "turn", "catchingUp")
  /\ Sends(i, Adopted(client[call[i].by], News(i, call[i].sent)))

\* The catch-up failed.
PromptAnyway(i) ==
  /\ Is(i, "turn", "catching") \/ Is(i, "turn", "unreached")
  /\ Sends(i, client[call[i].by])

\* No catch-up while a ctrl+n is under way.
PromptNow(c) ==
  /\ client[c].ui = "idle" /\ client[c].pending
  /\ Len(call) < MaxCalls
  /\ LET i == Len(call) + 1 IN
     /\ call' = Append(call, [NewCall(c, "turn", "asked") EXCEPT !.mine = Range(client[c].shown)])
     /\ client' = [client EXCEPT ![c].ui = "asking", ![c].turnRev = client[c].rev,
                                 ![c].shown = Append(@, Question(i))]
  /\ UNCHANGED daemonVars

\* handleChatRev and handleStreamDone
TurnDone(c, i) ==
  /\ InFlight(c, i) /\ call[i].at = "replied"
  /\ client' = [client EXCEPT ![c].ui = "idle", ![c].shown = Append(@, Reply(i)),
       ![c].rev = IF call[i].add \/ client[c].turnRev = NoRev THEN NoRev ELSE call[i].rev,
       ![c].turnRev = NoRev]
  /\ Ends(i)
  /\ UNCHANGED daemonVars

\* handleStreamErr: the daemon is gone, or only the connection, and the daemon
\* then goes on.
TurnFails(c, i) ==
  /\ InFlight(c, i) /\ (call[i].at = "failed" \/ MaySever)
  /\ client' = [client EXCEPT ![c].ui = "idle", ![c].turnRev = NoRev]
  /\ IF call[i].at \in {"failed", "replied"} THEN Ends(i) ELSE UNCHANGED call
  /\ UNCHANGED daemonVars

\* The user stops it; the daemon saves it all the same.
Interrupts(c, i) ==
  /\ InFlight(c, i)
  /\ client' = [client EXCEPT ![c].ui = "idle", ![c].turnRev = NoRev, ![c].rev = NoRev]
  /\ IF call[i].at \in {"failed", "replied"} THEN Ends(i) ELSE UNCHANGED call
  /\ UNCHANGED daemonVars

\* ctrl+n: the screen is cleared at once.
ClearConversation(c) ==
  /\ client[c].ui = "idle"
  /\ Calls(c, "reset", "asked")
  /\ client' = [client EXCEPT ![c].rev = NoRev, ![c].pending = TRUE, ![c].shown = << >>]
  /\ UNCHANGED daemonVars

\* resetOkMsg, or handleResetErr
ResetAnswered(i) ==
  /\ Is(i, "reset", "replied") \/ Is(i, "reset", "failed")
  /\ LET c == call[i].by IN
     client' = [client EXCEPT ![c].pending = FALSE,
                              ![c].rev = IF @ = NoRev THEN call[i].rev ELSE @]
  /\ Ends(i)
  /\ UNCHANGED daemonVars

\* /resume and /compact: nothing else is done until the answer is there.
Replace(c, kind) ==
  /\ client[c].ui = "idle"
  /\ Calls(c, kind, "asked")
  /\ client' = [client EXCEPT ![c].ui = "replacing"]
  /\ UNCHANGED daemonVars

ReplaceAnswered(i) ==
  /\ call[i].kind \in {"resume", "compact"} /\ call[i].at \in {"replied", "failed"}
  /\ LET c == call[i].by IN
     client' = [client EXCEPT ![c] =
       IF call[i].at = "failed" THEN [client[c] EXCEPT !.ui = "idle"]
       ELSE [client[c] EXCEPT !.ui = "idle", !.rev = call[i].rev, !.shown = call[i].turns]]
  /\ Ends(i)
  /\ UNCHANGED daemonVars

-----------------------------------------------------------------------------
Daemon(i) ==
  \/ ReadsGen(i) \/ FetchReads(i) \/ TurnReads(i)
  \/ SaveBegins(i) \/ SavesQuestion(i) \/ SavesReply(i) \/ SavesNothing(i)
  \/ ReplacesRows(i) \/ ReplacesGen(i) \/ CompactBegins(i) \/ CompactFails(i)

Delivered(i) ==
  \/ CaughtUp(i) \/ PromptLevel(i) \/ PromptAnyway(i)
  \/ ResetAnswered(i) \/ ReplaceAnswered(i)

Terminal(c) ==
  \/ CatchUp(c) \/ Prompt(c) \/ PromptNow(c) \/ ClearConversation(c)
  \/ \E kind \in {"resume", "compact"} : Replace(c, kind)
  \/ \E i \in DOMAIN call : TurnDone(c, i) \/ TurnFails(c, i) \/ Interrupts(c, i)

ChatNext ==
  \/ \E i \in DOMAIN call : Daemon(i) \/ Delivered(i)
  \/ \E c \in Clients : Terminal(c)
  \/ Restart

ChatSpec == ChatInit /\ [][ChatNext]_chatVars

-----------------------------------------------------------------------------
\* Properties.

ChatTypeOK ==
  /\ epoch \in 1 .. MaxRestarts + 1 /\ gen \in Nat
  /\ \A n \in DOMAIN chat : chat[n].id \in Nat /\ (n > 1 => chat[n].id > chat[n - 1].id)
  /\ holder \in 0 .. Len(call)
  /\ \A i \in DOMAIN call : call[i].kind \in Kinds /\ call[i].by \in Clients
  /\ \A c \in Clients : /\ client[c].ui \in {"idle", "catching", "asking", "replacing"}
                        /\ client[c].pending \in BOOLEAN

\* The rows are replaced and the generation is not yet counted.
Replacing == holder # 0 /\ call[holder].at = "replaced"

\* Does rev speak of the chat as it is?
Current(rev) == rev # NoRev /\ rev[1] = epoch /\ rev[2] = gen /\ ~Replacing

UpTo(last) == {chat[n].turn : n \in {m \in DOMAIN chat : chat[m].id <= last}}

\* "A client is never told it has a turn it was not given": whatever two clients
\* ask, save, replace, stop and fetch at once, and whatever order the answers
\* come in, a client shows every stored turn its revision covers.
NeverOverstated ==
  \A c \in Clients :
    Current(client[c].rev) => UpTo(client[c].rev[3]) \subseteq Range(client[c].shown)

\* A question from a copy that is behind is answered from the stored chat: where
\* the daemon takes the client's history, nothing stored is missing from it.
\* (Not if the chat was replaced between the two readings.)
AnsweredFromAll ==
  \A i \in DOMAIN call :
    /\ Is(i, "turn", "reading") /\ LooksLevel(i) /\ call[i].gen = gen /\ ~Replacing
    => UpTo(Last) \subseteq call[i].mine

-----------------------------------------------------------------------------
\* What a comment of the repository says, and the code does not keep.

\* chat.go, at the answer to a ctrl+n: the screen is level with the new chat,
\* "unless a turn has already finished since and said where the chat stands".
\* So no turn comes to be shown a second time.
ShownOnce ==
  \A c \in Clients : Cardinality(Range(client[c].shown)) = Len(client[c].shown)
=============================================================================
