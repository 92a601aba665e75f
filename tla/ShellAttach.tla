------------------------------ MODULE ShellAttach ------------------------------
(***************************************************************************)
(* Shared shells of one machine (browserterm/manager.go): a shell is a row *)
(* of the shells table and a tmux session in the guest.  A client gets an  *)
(* attachment token, opens a websocket with it and is connected to the     *)
(* session by an ssh process; deleting a shell has to take its tokens, its *)
(* connections and its tmux session away.  Commands (SendInput, ReadLines) *)
(* work on the session too, and start it when it is not there.  Git        *)
(* commands share the slots of the machine's gate.                         *)
(***************************************************************************)
EXTENDS Naturals, FiniteSets

CONSTANTS
  Shell,    \* shells of the machine
  Token,    \* attachment tokens, one per CreateAttachment
  Stream,   \* StreamSession handlers
  Del,      \* DeleteShell requests
  Cmd,      \* SendInput and ReadLines requests
  Git,      \* GetGitStatus and GetGitDiffBatch requests
  Slots,    \* gitCommandConcurrency, 2 in the code
  NoShell, NoToken

ASSUME SlotsAssumption == Slots \in Nat \ {0}

VARIABLES
  row,      \* shells table: state of the row, "none" before the insert
  up,       \* the machine is RUNNING and its guest answers
  tmux,     \* the shells whose tmux session exists in the guest
  token,    \* per token: CreateAttachment's progress and its shell
  att,      \* Manager.attachments: the tokens held
  expired,  \* the tokens whose time is over
  conns,    \* Manager.activeConnections
  shut,     \* the streams whose websocket is closed
  stream,   \* per handler: control state, token and shell
  del,      \* per delete: control state and shell
  cmd,      \* per command: control state and shell
  git,      \* per git command: control state
  gate,     \* slots taken at the machine's gate
  late      \* history: shells used after their delete by a request from before

svars == <<row, up, tmux, token, att, expired, conns, shut, stream, del, cmd, git, gate, late>>
guest == <<up, tmux>>
tokens == <<token, att, expired>>
sockets == <<conns, shut, stream>>
others == <<del, cmd, git, gate>>

Idle == [pc |-> "idle", shell |-> NoShell]
IdleStream == [pc |-> "idle", shell |-> NoShell, token |-> NoToken]

Deleted(s) == row[s] = "deleted"
Found(s) == row[s] \in {"READY", "ERROR"}

ShellInit ==
  /\ row = [s \in Shell |-> "none"]
  /\ up = TRUE /\ tmux = {}
  /\ token = [t \in Token |-> Idle] /\ att = {} /\ expired = {}
  /\ conns = [s \in Shell |-> {}] /\ shut = {}
  /\ stream = [k \in Stream |-> IdleStream]
  /\ del = [d \in Del |-> Idle] /\ cmd = [x \in Cmd |-> Idle]
  /\ git = [g \in Git |-> "idle"] /\ gate = 0
  /\ late = {}

\* UpdateShellState: WHERE id = ? AND deleted_at IS NULL
WithShellState(s, state) == IF Found(s) THEN [row EXCEPT ![s] = state] ELSE row

\* startGuestShell and ensureRemoteShell: tmux new-session when there is none
OpensTmux(s) == /\ tmux' = tmux \cup {s}
                /\ late' = IF Deleted(s) THEN late \cup {s} ELSE late

CreateShell(s) ==
  /\ up /\ row[s] = "none"
  /\ row' = [row EXCEPT ![s] = "READY"]
  /\ UNCHANGED <<guest, tokens, sockets, others, late>>

--------------------------------------------------------------------------------
\* CreateAttachment

Prune == att' = att \ expired

AttachLoad(t) ==
  /\ token[t].pc = "idle"
  /\ Prune
  /\ \E s \in Shell : Found(s) /\ up /\ token' = [token EXCEPT ![t] = [pc |-> "loaded", shell |-> s]]
  /\ UNCHANGED <<row, guest, expired, sockets, others, late>>

AttachPut(t) ==
  /\ token[t].pc = "loaded"
  /\ token' = [token EXCEPT ![t].pc = "put"]
  /\ att' = att \cup {t}
  /\ UNCHANGED <<row, guest, expired, sockets, others, late>>

AttachTouch(t) ==
  /\ token[t].pc = "put"
  /\ token' = [token EXCEPT ![t].pc = "issued"]
  /\ row' = WithShellState(token[t].shell, "READY")
  /\ UNCHANGED <<guest, att, expired, sockets, others, late>>

Expire(t) ==
  /\ token[t].pc = "issued" /\ t \notin expired
  /\ expired' = expired \cup {t}
  /\ UNCHANGED <<row, guest, token, att, sockets, others, late>>

--------------------------------------------------------------------------------
\* StreamSession

StreamAt(k, pc) == stream[k].pc = pc

StreamGoto(k, pc) == stream' = [stream EXCEPT ![k].pc = pc]

\* startAttachment before the lock: the row of the shell in the URL
StreamLoad(k) ==
  /\ StreamAt(k, "idle")
  /\ Prune
  /\ \E t \in Token :
        /\ token[t].pc = "issued" /\ Found(token[t].shell)
        /\ stream' = [stream EXCEPT ![k] = [pc |-> "loaded", shell |-> token[t].shell, token |-> t]]
  /\ UNCHANGED <<row, guest, token, expired, conns, shut, others, late>>

TakeKept(k) ==
  /\ StreamAt(k, "loaded")
  /\ StreamGoto(k, IF stream[k].token \in att \ expired THEN "taken" ELSE "over")
  /\ UNCHANGED <<row, guest, tokens, conns, shut, others, late>>

\* startAttachment under the lock: a token is good for one attachment
Take(k) ==
  /\ StreamAt(k, "loaded")
  /\ att' = att \ {stream[k].token}
  /\ StreamGoto(k, IF stream[k].token \in att \ expired THEN "taken" ELSE "over")
  /\ UNCHANGED <<row, guest, token, expired, conns, shut, others, late>>

AcceptFail(k) ==
  /\ StreamAt(k, "taken") /\ StreamGoto(k, "over")
  /\ UNCHANGED <<row, guest, tokens, conns, shut, others, late>>

Register(k) ==
  LET s == stream[k].shell IN
  /\ StreamAt(k, "taken") /\ StreamGoto(k, "registered")
  /\ conns' = [conns EXCEPT ![s] = @ \cup {k}]
  /\ late' = IF Deleted(s) THEN late \cup {s} ELSE late
  /\ UNCHANGED <<row, guest, tokens, shut, others>>

\* resolveShellMachine, the guest answers and ssh attaches to the session
StreamConnect(k) ==
  /\ StreamAt(k, "registered") /\ up
  /\ StreamGoto(k, "connected")
  /\ OpensTmux(stream[k].shell)
  /\ UNCHANGED <<row, up, tokens, conns, shut, others>>

StreamConnected(k) ==
  /\ StreamAt(k, "connected") /\ StreamGoto(k, "running")
  /\ row' = WithShellState(stream[k].shell, "READY")
  /\ UNCHANGED <<guest, tokens, conns, shut, others, late>>

\* the machine is not running, the guest does not answer, ssh cannot start
StreamConnectFail(k) ==
  /\ StreamAt(k, "registered") /\ StreamGoto(k, "leaving")
  /\ shut' = shut \cup {k}
  /\ row' = WithShellState(stream[k].shell, "ERROR")
  /\ UNCHANGED <<guest, tokens, conns, others, late>>

\* the websocket is closed or the session is over: markDetached, or
\* markAttachFailed for an end that is not expected
StreamEnd(k) ==
  /\ StreamAt(k, "running")
  /\ StreamGoto(k, "leaving")
  /\ shut' = shut \cup {k}
  /\ \E state \in {"READY", "ERROR"} : row' = WithShellState(stream[k].shell, state)
  /\ UNCHANGED <<guest, tokens, conns, others, late>>

UnregisterAll(k) ==
  /\ StreamAt(k, "leaving") /\ StreamGoto(k, "over")
  /\ conns' = [conns EXCEPT ![stream[k].shell] = {}]
  /\ UNCHANGED <<row, guest, tokens, shut, others, late>>

Unregister(k) ==
  /\ StreamAt(k, "leaving") /\ StreamGoto(k, "over")
  /\ conns' = [conns EXCEPT ![stream[k].shell] = @ \ {k}]
  /\ UNCHANGED <<row, guest, tokens, shut, others, late>>

--------------------------------------------------------------------------------
\* DeleteShell

DeleteLoad(d) ==
  /\ del[d].pc = "idle"
  /\ \E s \in Shell : Found(s) /\ del' = [del EXCEPT ![d] = [pc |-> "loaded", shell |-> s]]
  /\ UNCHANGED <<row, guest, tokens, sockets, cmd, git, gate, late>>

DeleteMark(d) ==
  /\ del[d].pc = "loaded" /\ del' = [del EXCEPT ![d].pc = "marked"]
  /\ row' = [row EXCEPT ![del[d].shell] = "deleted"]
  /\ UNCHANGED <<guest, tokens, sockets, cmd, git, gate, late>>

DeleteDrop(d) ==
  /\ del[d].pc = "marked" /\ del' = [del EXCEPT ![d].pc = "dropped"]
  /\ att' = {t \in att : token[t].shell # del[d].shell}
  /\ UNCHANGED <<row, guest, token, expired, sockets, cmd, git, gate, late>>

DeleteClose(d) ==
  LET s == del[d].shell IN
  /\ del[d].pc = "dropped" /\ del' = [del EXCEPT ![d].pc = "closed"]
  /\ conns' = [conns EXCEPT ![s] = {}]
  /\ shut' = shut \cup conns[s]
  /\ UNCHANGED <<row, guest, tokens, stream, cmd, git, gate, late>>

DeleteKill(d) ==
  /\ del[d].pc = "closed" /\ del' = [del EXCEPT ![d].pc = "over"]
  /\ tmux' = tmux \ {del[d].shell}
  /\ UNCHANGED <<row, up, tokens, sockets, cmd, git, gate, late>>

\* destroyRemoteShell fails, which is logged and no error of the delete
DeleteUnkilled(d) ==
  /\ del[d].pc = "closed" /\ del' = [del EXCEPT ![d].pc = "unkilled"]
  /\ UNCHANGED <<row, guest, tokens, sockets, cmd, git, gate, late>>

--------------------------------------------------------------------------------
\* SendInput and ReadLines

CmdLoad(x) ==
  /\ cmd[x].pc = "idle" /\ up
  /\ \E s \in Shell : Found(s) /\ cmd' = [cmd EXCEPT ![x] = [pc |-> "loaded", shell |-> s]]
  /\ UNCHANGED <<row, guest, tokens, sockets, del, git, gate, late>>

CmdRun(x) ==
  /\ cmd[x].pc = "loaded" /\ up
  /\ cmd' = [cmd EXCEPT ![x].pc = "ran"]
  /\ OpensTmux(cmd[x].shell)
  /\ UNCHANGED <<row, up, tokens, sockets, del, git, gate>>

CmdFail(x) ==
  /\ cmd[x].pc \in {"loaded", "ran"} /\ cmd' = [cmd EXCEPT ![x].pc = "over"]
  /\ UNCHANGED <<row, guest, tokens, sockets, del, git, gate, late>>

CmdDone(x) ==
  /\ cmd[x].pc = "ran" /\ cmd' = [cmd EXCEPT ![x].pc = "over"]
  /\ row' = WithShellState(cmd[x].shell, "READY")
  /\ UNCHANGED <<guest, tokens, sockets, del, git, gate, late>>

--------------------------------------------------------------------------------
\* GetGitStatus and GetGitDiffBatch

gitUnchanged == UNCHANGED <<row, guest, tokens, sockets, del, cmd, late>>

GitLoad(g) ==
  /\ git[g] = "idle" /\ up /\ \E s \in Shell : Found(s)
  /\ git' = [git EXCEPT ![g] = "waiting"]
  /\ UNCHANGED gate /\ gitUnchanged

GitAcquire(g) ==
  /\ git[g] = "waiting" /\ gate < Slots
  /\ git' = [git EXCEPT ![g] = "running"]
  /\ gate' = gate + 1
  /\ gitUnchanged

\* the request's context ends while it waits
GitGiveUp(g) ==
  /\ git[g] = "waiting" /\ git' = [git EXCEPT ![g] = "idle"]
  /\ UNCHANGED gate /\ gitUnchanged

\* the guest command ended well or not, the deferred release runs
GitRelease(g) ==
  /\ git[g] = "running" /\ git' = [git EXCEPT ![g] = "idle"]
  /\ gate' = gate - 1
  /\ gitUnchanged

--------------------------------------------------------------------------------
\* the machine stops or its VM ends, and the sessions with it
MachineDown ==
  /\ up /\ up' = FALSE /\ tmux' = {}
  /\ UNCHANGED <<row, tokens, sockets, others, late>>

CreateAttachment(t) == AttachLoad(t) \/ AttachPut(t) \/ AttachTouch(t)
StartAttachment(k) == StreamLoad(k) \/ Take(k)
StreamSession(k) ==
  \/ StartAttachment(k) \/ AcceptFail(k) \/ Register(k) \/ StreamConnect(k)
  \/ StreamConnected(k) \/ StreamConnectFail(k) \/ StreamEnd(k) \/ Unregister(k)
DeleteShell(d) ==
  \/ DeleteLoad(d) \/ DeleteMark(d) \/ DeleteDrop(d)
  \/ DeleteClose(d) \/ DeleteKill(d) \/ DeleteUnkilled(d)
Command(x) == CmdLoad(x) \/ CmdRun(x) \/ CmdFail(x) \/ CmdDone(x)
GitCommand(g) == GitLoad(g) \/ GitAcquire(g) \/ GitGiveUp(g) \/ GitRelease(g)

ShellNext ==
  \/ \E s \in Shell : CreateShell(s)
  \/ \E t \in Token : CreateAttachment(t) \/ Expire(t)
  \/ \E k \in Stream : StreamSession(k)
  \/ \E d \in Del : DeleteShell(d)
  \/ \E x \in Cmd : Command(x)
  \/ \E g \in Git : GitCommand(g)
  \/ MachineDown

ShellSpec == ShellInit /\ [][ShellNext]_svars

--------------------------------------------------------------------------------
ShellTypeOK ==
  /\ row \in [Shell -> {"none", "READY", "ERROR", "deleted"}]
  /\ up \in BOOLEAN /\ tmux \subseteq Shell /\ late \subseteq Shell
  /\ att \subseteq Token /\ expired \subseteq Token /\ shut \subseteq Stream
  /\ conns \in [Shell -> SUBSET Stream]
  /\ \A k \in Stream : stream[k].pc \in
       {"idle", "loaded", "taken", "registered", "connected", "running", "leaving", "over"}
  /\ gate \in 0..Slots

Attached(k) == stream[k].pc \in {"taken", "registered", "connected", "running", "leaving"}

\* One attachment token admits one websocket, however many arrive with it at
\* once and although the shell's row is read before the lock is taken.
TokenAdmitsOne ==
  \A k, l \in Stream : Attached(k) /\ Attached(l) /\ stream[k].token = stream[l].token => k = l

Open(k) == stream[k].pc \in {"registered", "connected", "running"} /\ k \notin shut

\* When a delete has returned, no websocket of the shell is open and its tmux
\* session is gone, unless the guest could not be told to kill it, or a request
\* that read the row before the delete marked it came back to the shell after.
DeleteEndsShell ==
  \A d \in Del : LET s == del[d].shell IN
     del[d].pc = "over" /\ s \notin late => s \notin tmux /\ \A k \in Stream : Open(k) => stream[k].shell # s
================================================================================
