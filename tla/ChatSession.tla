---------------------------- MODULE ChatSession ----------------------------
(***************************************************************************)
(* The chat participant of the VS Code extension and its session store     *)
(* (extensions/vscode-opticcode/src/chat/participant.ts and session.ts).   *)
(* The extension host runs one piece of code at a time, but every `await`  *)
(* lets another chat thread, the clear command or a reload run: what a     *)
(* handler read of the epoch and of its session before it awaited the      *)
(* runtime is what it writes back afterwards.                              *)
(*                                                                         *)
(* The editor is external: it keeps the turns of a thread across reloads,  *)
(* hands them to the next request, and its memento answers reads from      *)
(* memory while an update is still on its way to the disk.                 *)
(***************************************************************************)
EXTENDS Integers, Sequences, FiniteSets, SequencesExt

CONSTANTS
  Threads,      \* chat threads of the editor, one request at a time in each
  NoSession,    \* undefined
  MaxSessions,  \* MAX_SESSIONS
  MaxRuns,      \* MAX_RECENT_RUNS
  MaxHistory,   \* CHAT_BUDGETS.max_history_turns
  MaxTurns,     \* bound on the turns of a thread
  MaxClears,    \* bound on clear commands
  MaxReloads    \* bound on reloads of the extension host

ASSUME SessionAssumption ==
  /\ {MaxSessions, MaxRuns, MaxHistory} \subseteq Nat \ {0}
  /\ {MaxTurns, MaxClears, MaxReloads} \subseteq Nat
  /\ NoSession \notin Nat \union (Threads \X Nat)

VARIABLES
  sessions,   \* ChatSessionStore.sessions, oldest update first
  memento,    \* what the editor's memento answers: epoch and session list
  disk,       \* what of it survives a reload
  chat,       \* the turns of each thread, kept by the editor
  talk,       \* the handler of each thread: stage and local variables
  clear,      \* the clear command: stage and the turns begun when it started
  forgotten,  \* history: the turns begun before the last clear that finished
  counts      \* clears and reloads so far, and whether an update failed

sessionVars == <<sessions, memento, disk, chat, talk, clear, forgotten, counts>>

(* A run, and the session a handler mints for it, is named by its place.    *)
Turns == Threads \X (1..MaxTurns)
RunOf(t) == <<t, Len(chat[t]) + 1>>

Quiet == [stage |-> "idle", run |-> NoSession, epoch |-> 0, session |-> NoSession,
          stored |-> NoSession, history |-> <<>>]

SessionInit ==
  /\ sessions = <<>>
  /\ memento = [epoch |-> 0, list |-> <<>>]
  /\ disk = memento
  /\ chat = [t \in Threads |-> <<>>]
  /\ talk = [t \in Threads |-> Quiet]
  /\ clear = [stage |-> "idle", begun |-> {}]
  /\ forgotten = {}
  /\ counts = [clears |-> 0, reloads |-> 0, unsaved |-> FALSE]

Speak(t, h) == talk' = [talk EXCEPT ![t] = h]
In(t, stage) == talk[t].stage = stage
Begun ==
  {talk[t].run : t \in {u \in Threads : ~In(u, "idle")}} \union
  UNION {{u.run : u \in Range(chat[t])} : t \in Threads}

(* A flush puts everything the memento holds on the disk.                   *)
Flushed == disk' = memento /\ UNCHANGED counts
FlushFails == UNCHANGED disk /\ counts' = [counts EXCEPT !.unsaved = TRUE]

-----------------------------------------------------------------------------
(* Mutant: the newest session of the thread, whatever its epoch.            *)
SessionOfAnyEpoch(history, epoch) ==
  LET known == {i \in DOMAIN history : history[i].session # NoSession}
  IN IF known = {} THEN NoSession
     ELSE history[CHOOSE i \in known : \A j \in known : j <= i].session

(* sessionIdFromHistory.                                                    *)
SessionIdFromHistory(history, epoch) ==
  LET own == {i \in DOMAIN history : history[i].epoch = epoch}
  IN IF own = {} THEN NoSession
     ELSE history[CHOOSE i \in own : \A j \in own : j <= i].session

(* historySinceContextEpoch: a turn without an epoch (it failed) does not   *)
(* end the search.                                                          *)
HistorySinceContextEpoch(history, epoch) ==
  LET foreign == {i \in DOMAIN history : history[i].epoch \notin {epoch, NoSession}}
  IN IF foreign = {} THEN history
     ELSE SubSeq(history, (CHOOSE i \in foreign : \A j \in foreign : j <= i) + 1, Len(history))

(* boundChatHistory, on turns of equal size.                                *)
BoundChatHistory(history) ==
  SubSeq(history, IF Len(history) > MaxHistory THEN Len(history) - MaxHistory + 1 ELSE 1, Len(history))

(* ChatSessionStore::get.                                                   *)
Get(id) ==
  LET found == {i \in DOMAIN sessions : sessions[i].id = id}
  IN IF found = {} THEN NoSession ELSE sessions[CHOOSE i \in found : TRUE]

(* handle, once it is connected: everything the request carries is read     *)
(* here.  recentRunIds and the repository state come from the session.      *)
StartTurn(t) ==
  LET epoch == memento.epoch
      known == SessionIdFromHistory(chat[t], epoch)
      id == IF known = NoSession THEN RunOf(t) ELSE known
  IN /\ In(t, "idle")
     /\ Len(chat[t]) < MaxTurns
     /\ Speak(t, [stage |-> "running", run |-> RunOf(t), epoch |-> epoch, session |-> id,
                  stored |-> Get(id),
                  history |-> BoundChatHistory(HistorySinceContextEpoch(chat[t], epoch))])
     /\ UNCHANGED <<sessions, memento, disk, chat, clear, forgotten, counts>>

EndTurn(t, session, epoch) ==
  /\ chat' = [chat EXCEPT ![t] = Append(@, [run |-> talk[t].run, session |-> session, epoch |-> epoch])]
  /\ Speak(t, Quiet)

(* The runtime failed to answer: a turn without session or epoch.           *)
TurnFails(t) ==
  /\ In(t, "running")
  /\ EndTurn(t, NoSession, NoSession)
  /\ UNCHANGED <<sessions, memento, disk, clear, forgotten, counts>>

(* The answer is rendered and its report written; a failure to write the    *)
(* report is only a warning.                                                *)
RunChat(t) ==
  /\ In(t, "running")
  /\ Speak(t, [talk[t] EXCEPT !.stage = "answered"])
  /\ UNCHANGED <<sessions, memento, disk, chat, clear, forgotten, counts>>

-----------------------------------------------------------------------------
(* The map of sessions without a key: it holds a key once.                  *)
Without(list, id) == RemoveFirstMatch(list, LAMBDA s : s.id = id)

(* ChatSessionStore::record: the session moves to the newest place, the     *)
(* oldest beyond the limit are dropped, and the list is handed to the       *)
(* memento at once.                                                         *)
Retained(list, record) ==
  LET all == Append(Without(list, record.id), record)
  IN SubSeq(all, IF Len(all) > MaxSessions THEN Len(all) - MaxSessions + 1 ELSE 1, Len(all))

(* recentRunIds: a session lists a run once.                                *)
RecentRuns(run, stored) ==
  LET older == IF stored = NoSession THEN <<>> ELSE RemoveFirst(stored.runs, run)
      all == <<run>> \o older
  IN SubSeq(all, 1, IF Len(all) > MaxRuns THEN MaxRuns ELSE Len(all))

Record(t) ==
  LET h == talk[t]
      list == Retained(sessions, [id |-> h.session, runs |-> RecentRuns(h.run, h.stored),
                                  repositoryState |-> h.run])
  IN /\ In(t, "answered")
     /\ sessions' = list
     /\ memento' = [memento EXCEPT !.list = list]
     /\ Speak(t, [h EXCEPT !.stage = "storing"])
     /\ UNCHANGED <<disk, chat, clear, forgotten, counts>>

(* The update is on disk, or failed with a warning; the turn ends either    *)
(* way, with the epoch its handler read at the start.                       *)
TurnEnds(t) ==
  /\ In(t, "storing")
  /\ Flushed \/ FlushFails
  /\ EndTurn(t, talk[t].session, talk[t].epoch)
  /\ UNCHANGED <<sessions, memento, clear, forgotten>>

-----------------------------------------------------------------------------
(* clearContext: the sessions lose their runs and repository state, the     *)
(* epoch moves on, and each of the two updates is awaited.                  *)
WithoutContext(session) == [session EXCEPT !.runs = <<>>, !.repositoryState = NoSession]

ClearBegins ==
  /\ clear.stage = "idle"
  /\ counts.clears < MaxClears
  /\ counts' = [counts EXCEPT !.clears = @ + 1]
  /\ sessions' = [i \in DOMAIN sessions |-> WithoutContext(sessions[i])]
  /\ memento' = [memento EXCEPT !.epoch = @ + 1]
  /\ clear' = [stage |-> "epoch", begun |-> Begun]
  /\ UNCHANGED <<disk, chat, talk, forgotten>>

(* Mutant: a session a handler wrote while the epoch was stored is left out. *)
ClearStoresOldList ==
  /\ clear.stage = "epoch"
  /\ Flushed
  /\ memento' = [memento EXCEPT !.list = SelectSeq(sessions, LAMBDA s : s.runs = <<>>)]
  /\ clear' = [clear EXCEPT !.stage = "list"]
  /\ UNCHANGED <<sessions, chat, talk, forgotten>>

ClearStoresList ==
  /\ clear.stage = "epoch"
  /\ Flushed
  /\ memento' = [memento EXCEPT !.list = sessions]
  /\ clear' = [clear EXCEPT !.stage = "list"]
  /\ UNCHANGED <<sessions, chat, talk, forgotten>>

ClearEnds ==
  /\ clear.stage = "list"
  /\ Flushed
  /\ clear' = [stage |-> "idle", begun |-> {}]
  /\ forgotten' = clear.begun
  /\ UNCHANGED <<sessions, memento, chat, talk>>

(* An update of the clear command is refused: the user sees the error.      *)
ClearFails ==
  /\ clear.stage \in {"epoch", "list"}
  /\ FlushFails
  /\ clear' = [stage |-> "idle", begun |-> {}]
  /\ UNCHANGED <<sessions, memento, chat, talk, forgotten>>

(* The window is reloaded: handlers and commands are gone, and the editor   *)
(* closes the open turns.  The constructor reads the stored sessions.       *)
Reload ==
  /\ counts.reloads < MaxReloads
  /\ counts' = [counts EXCEPT !.reloads = @ + 1]
  /\ sessions' = disk.list
  /\ memento' = disk
  /\ chat' = [t \in Threads |->
                IF In(t, "idle") THEN chat[t]
                ELSE Append(chat[t], [run |-> talk[t].run, session |-> NoSession, epoch |-> NoSession])]
  /\ talk' = [t \in Threads |-> Quiet]
  /\ clear' = [stage |-> "idle", begun |-> {}]
  /\ UNCHANGED <<disk, forgotten>>

SessionNext ==
  \/ \E t \in Threads : StartTurn(t) \/ TurnFails(t) \/ RunChat(t) \/ Record(t) \/ TurnEnds(t)
  \/ ClearBegins \/ ClearStoresList \/ ClearEnds \/ ClearFails
  \/ Reload

SessionSpec == SessionInit /\ [][SessionNext]_sessionVars

-----------------------------------------------------------------------------
(* Properties.                                                              *)

Sessions == [id : Turns, runs : BoundedSeq(Turns, MaxRuns), repositoryState : Turns \union {NoSession}]

SessionTypeOK ==
  /\ Len(sessions) <= MaxSessions /\ Range(sessions) \subseteq Sessions
  /\ \A i, j \in DOMAIN sessions : sessions[i].id = sessions[j].id => i = j
  /\ \A m \in {memento, disk} : m.epoch \in 0..MaxClears /\ Range(m.list) \subseteq Sessions
  /\ \A t \in Threads :
       /\ talk[t].stage \in {"idle", "running", "answered", "storing"}
       /\ talk[t].history \in BoundedSeq(Range(chat[t]), MaxHistory)
       /\ talk[t].stored \in Sessions \union {NoSession}

(* A request built once "Clear Chat Session Context" has finished carries   *)
(* no run and no repository state from before the clear, though a handler   *)
(* that was under way wrote its own back into the store afterwards, and     *)
(* though the window may be reloaded at any point of the clear.             *)
ClearedIsNotSent ==
  [][\A t \in Threads :
       In(t, "idle") /\ talk'[t].stage = "running" /\ talk'[t].stored # NoSession =>
         /\ Range(talk'[t].stored.runs) \intersect forgotten = {}
         /\ talk'[t].stored.repositoryState \notin forgotten]_sessionVars

(* When nothing is under way and no update failed, a reload would find the  *)
(* sessions and the epoch the extension is using: no update of a handler    *)
(* and a clear that ran across each other was lost.                         *)
NothingUnsaved ==
  (\A t \in Threads : In(t, "idle")) /\ clear.stage = "idle" /\ ~counts.unsaved =>
    disk = memento /\ memento.list = sessions

(* The store stays within its bounds, and nothing of it is lost when a      *)
(* handler and a clear run across each other.                               *)
StoreIsSaved == SessionTypeOK /\ NothingUnsaved

=============================================================================
