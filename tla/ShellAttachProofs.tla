-------------------------- MODULE ShellAttachProofs --------------------------
(***************************************************************************)
(* Theorems about ShellAttach: for any shells, tokens, handlers and        *)
(* requests, an attachment token admits one websocket, and a delete ends   *)
(* the shell's websockets and its tmux session.                            *)
(***************************************************************************)
EXTENDS ShellAttach, TLAPS

WorkPC == {"idle", "loaded", "put", "issued", "ran", "over", "marked", "dropped", "closed", "unkilled"}
Work == [pc : WorkPC, shell : Shell \cup {NoShell}]
StreamWork == [pc : {"idle", "loaded", "taken", "registered", "connected", "running", "leaving", "over"},
               shell : Shell \cup {NoShell}, token : Token \cup {NoToken}]

TypeOK ==
  /\ row \in [Shell -> {"none", "READY", "ERROR", "deleted"}]
  /\ tmux \subseteq Shell /\ late \subseteq Shell
  /\ token \in [Token -> Work]
  /\ att \subseteq Token /\ expired \subseteq Token /\ shut \subseteq Stream
  /\ conns \in [Shell -> SUBSET Stream]
  /\ stream \in [Stream -> StreamWork]
  /\ del \in [Del -> Work] /\ cmd \in [Cmd -> Work]

\* a request or handler that has loaded a row has a shell
LoadedShells ==
  /\ \A k \in Stream : stream[k].pc # "idle" => stream[k].shell \in Shell
  /\ \A t \in Token : token[t].pc # "idle" => token[t].shell \in Shell
  /\ \A d \in Del : del[d].pc # "idle" => del[d].shell \in Shell
  /\ \A x \in Cmd : cmd[x].pc # "idle" => cmd[x].shell \in Shell

\* a token a handler came with was issued, so nothing puts it back into the map
IssuedTokens ==
  \A k \in Stream : stream[k].pc # "idle" =>
     stream[k].token \in Token /\ token[stream[k].token].pc = "issued"

\* a token that admitted a handler is no longer held
TakenOnce ==
  /\ \A k \in Stream : Attached(k) => stream[k].token \notin att
  /\ TokenAdmitsOne

\* a websocket that is open is known to the manager by its shell
OpenIsKnown == \A k \in Stream : Open(k) => k \in conns[stream[k].shell]

\* how far a delete has come
DeleteMarks ==
  \A d \in Del : del[d].pc \in {"marked", "dropped", "closed", "over", "unkilled"} => Deleted(del[d].shell)
DeleteCloses ==
  \A d \in Del : del[d].pc \in {"closed", "over", "unkilled"} /\ del[d].shell \notin late
                   => conns[del[d].shell] = {}
DeleteKills ==
  \A d \in Del : del[d].pc = "over" /\ del[d].shell \notin late => del[d].shell \notin tmux

TokenInv == IssuedTokens /\ TakenOnce
DeleteInv == OpenIsKnown /\ DeleteMarks /\ DeleteCloses /\ DeleteKills
ShellInv == TypeOK /\ LoadedShells /\ TokenInv /\ DeleteInv

--------------------------------------------------------------------------------
LEMMA WithStateType ==
  ASSUME TypeOK, NEW s, NEW state \in {"READY", "ERROR"}
  PROVE  /\ WithShellState(s, state) \in [Shell -> {"none", "READY", "ERROR", "deleted"}]
         /\ \A z \in Shell : Deleted(z) => WithShellState(s, state)[z] = "deleted"
<1>1. CASE Found(s)
  <2>1. WithShellState(s, state) = [row EXCEPT ![s] = state]
    BY <1>1 DEF WithShellState
  <2>2. row[s] # "deleted"
    BY <1>1 DEF Found
  <2> QED
    BY <2>1, <2>2 DEF TypeOK, Deleted
<1>2. CASE ~Found(s)
  <2>1. WithShellState(s, state) = row
    BY <1>2 DEF WithShellState
  <2> QED
    BY <2>1 DEF TypeOK, Deleted
<1> QED
  BY <1>1, <1>2

\* A request that loads a row, and one that moves on with the row it has loaded.
LEMMA Loaded ==
  ASSUME NEW R, NEW f \in [R -> Work], NEW r \in R, NEW s \in Shell, NEW g,
         \A q \in R : f[q].pc # "idle" => f[q].shell \in Shell,
         g = [f EXCEPT ![r] = [pc |-> "loaded", shell |-> s]]
  PROVE  /\ g \in [R -> Work]
         /\ g[r].pc = "loaded" /\ g[r].shell = s
         /\ \A q \in R \ {r} : g[q] = f[q]
         /\ \A q \in R : g[q].pc # "idle" => g[q].shell \in Shell
<1> DEFINE new == [pc |-> "loaded", shell |-> s]
<1>1. new \in Work /\ new.pc = "loaded" /\ new.shell = s
  BY DEF Work, WorkPC
<1>2. g = [f EXCEPT ![r] = new]
  OBVIOUS
<1> HIDE DEF new
<1> QED
  BY <1>1, <1>2

LEMMA Advanced ==
  ASSUME NEW R, NEW f \in [R -> Work], NEW r \in R, NEW pc \in WorkPC, NEW g,
         \A q \in R : f[q].pc # "idle" => f[q].shell \in Shell,
         f[r].pc # "idle",
         g = [f EXCEPT ![r].pc = pc]
  PROVE  /\ g \in [R -> Work]
         /\ g[r].pc = pc /\ g[r].shell = f[r].shell
         /\ \A q \in R \ {r} : g[q] = f[q]
         /\ \A q \in R : g[q].pc # "idle" => g[q].shell \in Shell
<1> DEFINE new == [f[r] EXCEPT !.pc = pc]
<1>1. f[r] \in Work
  OBVIOUS
<1>2. new \in Work /\ new.pc = pc /\ new.shell = f[r].shell
  BY <1>1 DEF Work
<1>3. g = [f EXCEPT ![r] = new]
  OBVIOUS
<1> HIDE DEF new
<1> QED
  BY <1>2, <1>3

LEMMA ShellInvInit == ShellInit => ShellInv
<1>1. Idle \in Work /\ Idle.pc = "idle" /\ IdleStream \in StreamWork /\ IdleStream.pc = "idle"
  BY DEF Idle, IdleStream, Work, WorkPC, StreamWork
<1> SUFFICES ASSUME ShellInit PROVE ShellInv
  OBVIOUS
<1>2. TypeOK
  BY <1>1 DEF ShellInit, TypeOK
<1>3. LoadedShells /\ TokenInv /\ DeleteInv
  BY <1>1 DEF ShellInit, LoadedShells, TokenInv, IssuedTokens, TakenOnce, TokenAdmitsOne, Attached,
              DeleteInv, OpenIsKnown, Open, DeleteMarks, DeleteCloses, DeleteKills
<1> QED
  BY <1>2, <1>3 DEF ShellInv

\* Steps of attachment requests, commands and git that leave handlers and deletes alone.
LEMMA CreateKeeps == ASSUME ShellInv, NEW s \in Shell, CreateShell(s) PROVE ShellInv'
<1> USE DEF guest, tokens, sockets, others
<1>1. TypeOK'
  BY DEF ShellInv, TypeOK, CreateShell
<1>2. \A z \in Shell : Deleted(z) => Deleted(z)'
  BY DEF ShellInv, TypeOK, CreateShell, Deleted
<1>3. DeleteMarks'
  BY <1>2 DEF ShellInv, DeleteInv, DeleteMarks, LoadedShells, CreateShell
<1> QED
  BY <1>1, <1>3 DEF ShellInv, CreateShell, LoadedShells, TokenInv, IssuedTokens, TakenOnce, TokenAdmitsOne, Attached,
                   DeleteInv, OpenIsKnown, Open, DeleteCloses, DeleteKills

LEMMA TokenKeeps ==
  ASSUME ShellInv, NEW t \in Token, CreateAttachment(t) \/ Expire(t)
  PROVE  ShellInv'
<1> USE DEF guest, tokens, sockets, others
<1>0. TypeOK /\ UNCHANGED <<tmux, conns, shut, stream, del, cmd, late>>
  BY DEF ShellInv, CreateAttachment, AttachLoad, AttachPut, AttachTouch, Expire
<1>1. /\ row' \in [Shell -> {"none", "READY", "ERROR", "deleted"}]
      /\ \A z \in Shell : Deleted(z) => row'[z] = "deleted"
  BY <1>0, WithStateType DEF CreateAttachment, AttachLoad, AttachPut, AttachTouch, Expire, TypeOK, Deleted
<1>2. /\ token' \in [Token -> Work]
      /\ \A u \in Token : /\ token'[u].pc # "idle" => token'[u].shell \in Shell
                          /\ token[u].pc = "issued" => token'[u].pc = "issued"
  <2>0. token \in [Token -> Work] /\ \A u \in Token : token[u].pc # "idle" => token[u].shell \in Shell
    BY <1>0 DEF ShellInv, LoadedShells, TypeOK
  <2>1. CASE AttachLoad(t)
    <3>1. PICK s \in Shell : token' = [token EXCEPT ![t] = [pc |-> "loaded", shell |-> s]]
      BY <2>1 DEF AttachLoad
    <3>2. token[t].pc = "idle"
      BY <2>1 DEF AttachLoad
    <3>3. /\ token' \in [Token -> Work]
          /\ \A u \in Token \ {t} : token'[u] = token[u]
          /\ \A u \in Token : token'[u].pc # "idle" => token'[u].shell \in Shell
      BY <2>0, <3>1, Loaded
    <3> QED
      BY <3>2, <3>3
  <2>2. CASE AttachPut(t) \/ AttachTouch(t)
    <3>1. PICK pc \in {"put", "issued"} : token' = [token EXCEPT ![t].pc = pc] /\ token[t].pc \in {"loaded", "put"}
      BY <2>2 DEF AttachPut, AttachTouch
    <3>2. pc \in WorkPC /\ token[t].pc # "idle"
      BY <3>1 DEF WorkPC
    <3>3. /\ token' \in [Token -> Work]
          /\ \A u \in Token \ {t} : token'[u] = token[u]
          /\ \A u \in Token : token'[u].pc # "idle" => token'[u].shell \in Shell
      BY <2>0, <3>1, <3>2, Advanced
    <3> QED
      BY <3>1, <3>3
  <2>3. CASE Expire(t)
    BY <1>0, <2>3 DEF Expire, TypeOK, ShellInv, LoadedShells
  <2> QED
    BY <2>1, <2>2, <2>3 DEF CreateAttachment
<1>3. att' \subseteq att \/ (att' = att \cup {t} /\ token[t].pc = "loaded")
  BY DEF CreateAttachment, AttachLoad, AttachPut, AttachTouch, Expire, Prune
<1>4. TypeOK'
  BY <1>0, <1>1, <1>2, <1>3 DEF TypeOK, CreateAttachment, AttachLoad, AttachPut, AttachTouch, Expire
<1>5. LoadedShells'
  BY <1>0, <1>2 DEF ShellInv, LoadedShells
<1>6. TokenInv'
  <2>1. IssuedTokens'
    BY <1>0, <1>2 DEF ShellInv, TokenInv, IssuedTokens
  <2>2. \A k \in Stream : Attached(k) => stream[k].token # t \/ token[t].pc = "issued"
    BY DEF ShellInv, TokenInv, IssuedTokens, Attached
  <2>3. TakenOnce'
    BY <1>0, <1>3, <2>2 DEF ShellInv, TokenInv, TakenOnce, TokenAdmitsOne, Attached
  <2> QED
    BY <2>1, <2>3 DEF TokenInv
<1>7. DeleteInv'
  BY <1>0, <1>1 DEF ShellInv, DeleteInv, OpenIsKnown, Open, DeleteMarks, DeleteCloses, DeleteKills, LoadedShells, Deleted
<1> QED
  BY <1>4, <1>5, <1>6, <1>7 DEF ShellInv

\* A command only adds a tmux session, and one for a deleted shell is recorded as late.
LEMMA CommandKeeps == ASSUME ShellInv, NEW x \in Cmd, Command(x) PROVE ShellInv'
<1> USE DEF guest, tokens, sockets, others
<1>0. TypeOK /\ UNCHANGED <<token, att, expired, conns, shut, stream, del>>
  BY DEF ShellInv, Command, CmdLoad, CmdRun, CmdFail, CmdDone
<1>1. /\ row' \in [Shell -> {"none", "READY", "ERROR", "deleted"}]
      /\ \A z \in Shell : Deleted(z) => row'[z] = "deleted"
  BY <1>0, WithStateType DEF Command, CmdLoad, CmdRun, CmdFail, CmdDone, TypeOK, Deleted
<1>2. cmd' \in [Cmd -> Work] /\ \A y \in Cmd : cmd'[y].pc # "idle" => cmd'[y].shell \in Shell
  <2>0. cmd \in [Cmd -> Work] /\ \A y \in Cmd : cmd[y].pc # "idle" => cmd[y].shell \in Shell
    BY <1>0 DEF ShellInv, LoadedShells, TypeOK
  <2>1. CASE CmdLoad(x)
    <3>1. PICK s \in Shell : cmd' = [cmd EXCEPT ![x] = [pc |-> "loaded", shell |-> s]]
      BY <2>1 DEF CmdLoad
    <3> QED
      BY <2>0, <3>1, Loaded
  <2>2. CASE CmdRun(x) \/ CmdFail(x) \/ CmdDone(x)
    <3>1. PICK pc \in {"ran", "over"} : cmd' = [cmd EXCEPT ![x].pc = pc] /\ cmd[x].pc # "idle"
      BY <2>2 DEF CmdRun, CmdFail, CmdDone
    <3>2. pc \in WorkPC
      BY <3>1 DEF WorkPC
    <3> QED
      BY <2>0, <3>1, <3>2, Advanced
  <2> QED
    BY <2>1, <2>2 DEF Command
<1>3. \/ UNCHANGED <<tmux, late>>
      \/ /\ cmd[x].shell \in Shell /\ tmux' = tmux \cup {cmd[x].shell}
         /\ late' = IF Deleted(cmd[x].shell) THEN late \cup {cmd[x].shell} ELSE late
  BY DEF Command, CmdLoad, CmdRun, CmdFail, CmdDone, OpensTmux, ShellInv, LoadedShells
<1>4. TypeOK'
  BY <1>0, <1>1, <1>2, <1>3 DEF TypeOK
<1>5. LoadedShells' /\ TokenInv'
  BY <1>0, <1>2 DEF ShellInv, LoadedShells, TokenInv, IssuedTokens, TakenOnce, TokenAdmitsOne, Attached
<1>6. DeleteMarks' /\ OpenIsKnown' /\ DeleteCloses'
  BY <1>0, <1>1, <1>3 DEF ShellInv, DeleteInv, OpenIsKnown, Open, DeleteMarks, DeleteCloses, LoadedShells, Deleted
<1>7. DeleteKills'
  BY <1>0, <1>3 DEF ShellInv, DeleteInv, DeleteMarks, DeleteKills
<1> QED
  BY <1>4, <1>5, <1>6, <1>7 DEF ShellInv, DeleteInv

LEMMA OtherKeeps ==
  ASSUME ShellInv, tmux' \subseteq tmux,
         UNCHANGED <<row, token, att, expired, conns, shut, stream, del, cmd, late>>
  PROVE  ShellInv'
BY DEF ShellInv, TypeOK, LoadedShells, TokenInv, IssuedTokens, TakenOnce, TokenAdmitsOne, Attached,
       DeleteInv, OpenIsKnown, Open, DeleteMarks, DeleteCloses, DeleteKills, Deleted

--------------------------------------------------------------------------------
\* A handler that moves on keeps its shell and its token.
LEMMA StreamMoves ==
  ASSUME ShellInv, NEW k \in Stream, NEW pc, StreamGoto(k, pc), stream[k].pc # "idle",
         pc \in {"taken", "registered", "connected", "running", "leaving", "over"}
  PROVE  /\ stream' \in [Stream -> StreamWork]
         /\ stream'[k].pc = pc
         /\ stream'[k].shell = stream[k].shell /\ stream'[k].token = stream[k].token
         /\ \A l \in Stream \ {k} : stream'[l] = stream[l]
         /\ stream[k].shell \in Shell /\ stream[k].token \in Token
<1> DEFINE new == [stream[k] EXCEPT !.pc = pc]
<1>1. stream \in [Stream -> StreamWork] /\ stream[k] \in StreamWork
  BY DEF ShellInv, TypeOK
<1>2. new \in StreamWork /\ new.pc = pc /\ new.shell = stream[k].shell /\ new.token = stream[k].token
  BY <1>1 DEF StreamWork
<1>3. stream' = [stream EXCEPT ![k] = new]
  BY DEF StreamGoto
<1>4. stream[k].shell \in Shell /\ stream[k].token \in Token
  BY DEF ShellInv, LoadedShells, TokenInv, IssuedTokens
<1> HIDE DEF new
<1> QED
  BY <1>1, <1>2, <1>3, <1>4

\* What holds of the rows, and of the requests that are not handlers, after any step
\* of a handler.
LEMMA StreamRow ==
  ASSUME ShellInv, NEW k \in Stream, StreamSession(k)
  PROVE  /\ row' \in [Shell -> {"none", "READY", "ERROR", "deleted"}]
         /\ \A z \in Shell : Deleted(z) => row'[z] = "deleted"
         /\ UNCHANGED <<token, expired, del, cmd>>
         /\ DeleteMarks'
<1> USE DEF guest, tokens, others, StreamSession, StartAttachment, StreamLoad, Take, AcceptFail, Register,
        StreamConnect, StreamConnected, StreamConnectFail, StreamEnd, Unregister
<1>1. TypeOK
  BY DEF ShellInv
<1>2. row' = row \/ \E z \in {stream[k].shell}, state \in {"READY", "ERROR"} : row' = WithShellState(z, state)
  OBVIOUS
<1>3. /\ row' \in [Shell -> {"none", "READY", "ERROR", "deleted"}]
      /\ \A z \in Shell : Deleted(z) => row'[z] = "deleted"
  <2>1. CASE row' = row
    BY <1>1, <2>1 DEF TypeOK, Deleted
  <2>2. CASE row' # row
    <3>1. PICK state \in {"READY", "ERROR"} : row' = WithShellState(stream[k].shell, state)
      BY <1>2, <2>2
    <3> QED
      BY <1>1, <3>1, WithStateType
  <2> QED
    BY <2>1, <2>2
<1>4. UNCHANGED <<token, expired, del, cmd>>
  OBVIOUS
<1>5. DeleteMarks'
  BY <1>3, <1>4 DEF ShellInv, DeleteInv, DeleteMarks, LoadedShells, Deleted
<1> QED
  BY <1>3, <1>4, <1>5

\* Prune and Take remove tokens; the one taken was held, so no other handler has it.
LEMMA StartKeeps ==
  ASSUME ShellInv, NEW k \in Stream, StartAttachment(k)
  PROVE  ShellInv'
<1> USE DEF guest, tokens, sockets, others
<1>0. /\ TypeOK /\ UNCHANGED <<row, tmux, token, expired, conns, shut, del, cmd, late>>
      /\ att' \subseteq att
  BY DEF ShellInv, StartAttachment, StreamLoad, Take, Prune
<1>1. /\ stream' \in [Stream -> StreamWork]
      /\ \A l \in Stream \ {k} : stream'[l] = stream[l]
      /\ stream'[k].pc \in {"loaded", "taken", "over"}
      /\ stream'[k].shell \in Shell /\ stream'[k].token \in Token /\ token[stream'[k].token].pc = "issued"
      /\ stream'[k].pc = "taken" => stream'[k].token \in att \ att'
  <2>1. CASE StreamLoad(k)
    <3>1. PICK t \in Token :
             /\ token[t].pc = "issued"
             /\ stream' = [stream EXCEPT ![k] = [pc |-> "loaded", shell |-> token[t].shell, token |-> t]]
      BY <2>1 DEF StreamLoad
    <3> DEFINE new == [pc |-> "loaded", shell |-> token[t].shell, token |-> t]
    <3>2. token[t].shell \in Shell
      BY <3>1 DEF ShellInv, LoadedShells
    <3>3. new \in StreamWork /\ new.pc = "loaded" /\ new.shell \in Shell /\ new.token = t
      BY <3>2 DEF StreamWork
    <3>4. stream' = [stream EXCEPT ![k] = new]
      BY <3>1
    <3> HIDE DEF new
    <3> QED
      BY <1>0, <3>1, <3>3, <3>4 DEF TypeOK
  <2>2. CASE Take(k)
    <3> DEFINE pc == IF stream[k].token \in att \ expired THEN "taken" ELSE "over"
    <3>1. StreamGoto(k, pc) /\ stream[k].pc = "loaded" /\ att' = att \ {stream[k].token}
      BY <2>2 DEF Take, StreamAt
    <3>2. /\ stream' \in [Stream -> StreamWork] /\ stream'[k].pc = pc
          /\ stream'[k].shell = stream[k].shell /\ stream'[k].token = stream[k].token
          /\ \A l \in Stream \ {k} : stream'[l] = stream[l]
          /\ stream[k].shell \in Shell /\ stream[k].token \in Token
      BY <3>1, StreamMoves
    <3>3. token[stream[k].token].pc = "issued"
      BY <3>1 DEF ShellInv, TokenInv, IssuedTokens
    <3> QED
      BY <3>1, <3>2, <3>3
  <2> QED
    BY <2>1, <2>2 DEF StartAttachment
<1>2. TypeOK' /\ LoadedShells'
  BY <1>0, <1>1 DEF ShellInv, TypeOK, LoadedShells
<1>3. TokenInv'
  <2>1. IssuedTokens'
    BY <1>0, <1>1 DEF ShellInv, TokenInv, IssuedTokens
  <2>2. TakenOnce'
    BY <1>0, <1>1 DEF ShellInv, TokenInv, TakenOnce, TokenAdmitsOne, Attached
  <2> QED
    BY <2>1, <2>2 DEF TokenInv
<1>4. DeleteInv'
  BY <1>0, <1>1 DEF ShellInv, DeleteInv, OpenIsKnown, Open, DeleteMarks, DeleteCloses, DeleteKills, Deleted
<1> QED
  BY <1>2, <1>3, <1>4 DEF ShellInv

\* Once it has its token a handler never gets another: the steps below move it on, and
\* one that comes to a deleted shell is recorded as late.
LEMMA StreamKeeps ==
  ASSUME ShellInv, NEW k \in Stream, StreamSession(k), ~StartAttachment(k)
  PROVE  ShellInv'
<1> USE DEF guest, tokens, sockets, others, StreamAt
<1> DEFINE s == stream[k].shell
<1>0. TypeOK /\ UNCHANGED att
  BY DEF ShellInv, StreamSession, AcceptFail, Register, StreamConnect, StreamConnected, StreamConnectFail, StreamEnd, Unregister
<1>1. /\ row' \in [Shell -> {"none", "READY", "ERROR", "deleted"}]
      /\ \A z \in Shell : Deleted(z) => row'[z] = "deleted"
      /\ UNCHANGED <<token, expired, del, cmd>>
      /\ DeleteMarks'
  BY StreamRow
<1>2. PICK pc \in {"registered", "connected", "running", "leaving", "over"} :
         /\ StreamGoto(k, pc)
         /\ Attached(k)
         /\ \/ pc = "over" /\ (AcceptFail(k) \/ Unregister(k))
            \/ pc = "registered" /\ Register(k)
            \/ pc = "connected" /\ StreamConnect(k)
            \/ pc = "running" /\ StreamConnected(k)
            \/ pc = "leaving" /\ (StreamConnectFail(k) \/ StreamEnd(k))
         /\ pc = "connected" => stream[k].pc = "registered"
         /\ pc = "running" => stream[k].pc = "connected"
  BY DEF StreamSession, AcceptFail, Register, StreamConnect, StreamConnected, StreamConnectFail, StreamEnd, Unregister, Attached
<1>3. /\ stream' \in [Stream -> StreamWork]
      /\ stream'[k].pc = pc
      /\ stream'[k].shell = s /\ stream'[k].token = stream[k].token
      /\ \A l \in Stream \ {k} : stream'[l] = stream[l]
      /\ s \in Shell /\ stream[k].token \in Token
  BY <1>2, StreamMoves DEF Attached
<1> HIDE DEF s
<1>4. /\ tmux' = tmux \/ (tmux' = tmux \cup {s} /\ (Deleted(s) => s \in late'))
      /\ late' \in {late, late \cup {s}}
      /\ shut' \in {shut, shut \cup {k}}
      /\ \/ conns' = conns
         \/ conns' = [conns EXCEPT ![s] = @ \cup {k}] /\ (Deleted(s) => s \in late')
         \/ conns' = [conns EXCEPT ![s] = @ \ {k}] /\ pc = "over"
      /\ pc = "registered" => conns' = [conns EXCEPT ![s] = @ \cup {k}]
  <2>1. CASE pc = "over" /\ AcceptFail(k)
    BY <2>1 DEF AcceptFail
  <2>2. CASE pc = "over" /\ Unregister(k)
    BY <2>2 DEF Unregister, s
  <2>3. CASE pc = "registered" /\ Register(k)
    BY <2>3 DEF Register, s
  <2>4. CASE pc = "connected" /\ StreamConnect(k)
    BY <2>4 DEF StreamConnect, OpensTmux, s
  <2>5. CASE pc \in {"running", "leaving"} /\ (StreamConnected(k) \/ StreamConnectFail(k) \/ StreamEnd(k))
    BY <2>5 DEF StreamConnected, StreamConnectFail, StreamEnd
  <2> QED
    BY <1>2, <2>1, <2>2, <2>3, <2>4, <2>5
<1>5. /\ conns' \in [Shell -> SUBSET Stream]
      /\ \A z \in Shell \ {s} : conns'[z] = conns[z]
      /\ conns'[s] \in {conns[s], conns[s] \cup {k}, conns[s] \ {k}}
      /\ conns'[s] = conns[s] \cup {k} /\ conns'[s] # conns[s] => (Deleted(s) => s \in late')
      /\ pc = "registered" => k \in conns'[s]
      /\ k \in conns[s] /\ pc # "over" => k \in conns'[s]
  BY <1>0, <1>3, <1>4 DEF TypeOK
<1>6. TypeOK' /\ LoadedShells'
  BY <1>0, <1>1, <1>3, <1>4, <1>5 DEF ShellInv, TypeOK, LoadedShells
<1>7. TokenInv'
  <2>1. IssuedTokens'
    BY <1>1, <1>2, <1>3 DEF ShellInv, TokenInv, IssuedTokens, Attached
  <2>2. \A l \in Stream : Attached(l)' => Attached(l) /\ stream'[l].token = stream[l].token
    BY <1>2, <1>3 DEF Attached
  <2>3. TakenOnce'
    BY <1>0, <2>2 DEF ShellInv, TokenInv, TakenOnce, TokenAdmitsOne
  <2> QED
    BY <2>1, <2>3 DEF TokenInv
<1>8. OpenIsKnown'
  <2>1. ASSUME NEW l \in Stream \ {k}, Open(l)' PROVE l \in conns'[stream'[l].shell]
    <3>1. Open(l) /\ stream'[l].shell = stream[l].shell
      BY <1>3, <1>4, <2>1 DEF Open
    <3>2. stream[l].shell \in Shell /\ l \in conns[stream[l].shell]
      BY <3>1 DEF ShellInv, LoadedShells, DeleteInv, OpenIsKnown, Open
    <3> QED
      BY <1>5, <3>1, <3>2
  <2>2. ASSUME Open(k)' PROVE k \in conns'[stream'[k].shell]
    <3>1. pc = "registered" \/ (Open(k) /\ pc # "over")
      BY <1>2, <1>3, <1>4, <2>2 DEF Open
    <3>2. Open(k) => k \in conns[s]
      BY DEF ShellInv, DeleteInv, OpenIsKnown, s
    <3> QED
      BY <1>3, <1>5, <3>1, <3>2
  <2> QED
    BY <2>1, <2>2 DEF OpenIsKnown
<1>9. DeleteCloses' /\ DeleteKills'
  <2>1. ASSUME NEW d \in Del, del'[d].pc \in {"closed", "over", "unkilled"}, del'[d].shell \notin late'
        PROVE  /\ conns'[del'[d].shell] = {}
               /\ del'[d].pc = "over" => del'[d].shell \notin tmux'
    <3> DEFINE z == del[d].shell
    <3>1. /\ z \in Shell /\ Deleted(z) /\ z \notin late' /\ z \notin late /\ del'[d] = del[d]
      BY <1>1, <1>4, <2>1 DEF ShellInv, LoadedShells, DeleteInv, DeleteMarks
    <3>2. conns[z] = {} /\ (del[d].pc = "over" => z \notin tmux)
      BY <2>1, <3>1 DEF ShellInv, DeleteInv, DeleteCloses, DeleteKills
    <3> HIDE DEF z
    <3>3. conns'[z] = {}
      BY <1>5, <3>1, <3>2
    <3>4. del[d].pc = "over" => z \notin tmux'
      BY <1>4, <3>1, <3>2
    <3> QED
      BY <3>1, <3>3, <3>4 DEF z
  <2> QED
    BY <2>1 DEF DeleteCloses, DeleteKills
<1> QED
  BY <1>1, <1>6, <1>7, <1>8, <1>9 DEF ShellInv, DeleteInv

--------------------------------------------------------------------------------
LEMMA DeleteKeeps == ASSUME ShellInv, NEW d \in Del, DeleteShell(d) PROVE ShellInv'
<1> USE DEF guest, tokens, sockets
<1> DEFINE s == del[d].shell
<1>0. TypeOK /\ UNCHANGED <<token, expired, stream, cmd, late>>
  BY DEF ShellInv, DeleteShell, DeleteLoad, DeleteMark, DeleteDrop, DeleteClose, DeleteKill, DeleteUnkilled
<1>1. del \in [Del -> Work] /\ \A e \in Del : del[e].pc # "idle" => del[e].shell \in Shell
  BY <1>0 DEF TypeOK, ShellInv, LoadedShells
<1>2. CASE DeleteLoad(d)
  <2>1. PICK z \in Shell : del' = [del EXCEPT ![d] = [pc |-> "loaded", shell |-> z]]
    BY <1>2 DEF DeleteLoad
  <2>2. /\ del' \in [Del -> Work] /\ del'[d].pc = "loaded"
        /\ \A e \in Del \ {d} : del'[e] = del[e]
        /\ \A e \in Del : del'[e].pc # "idle" => del'[e].shell \in Shell
    BY <1>1, <2>1, Loaded
  <2>3. UNCHANGED <<row, tmux, att, conns, shut>>
    BY <1>2 DEF DeleteLoad
  <2> QED
    BY <1>0, <2>2, <2>3 DEF ShellInv, TypeOK, LoadedShells, TokenInv, IssuedTokens, TakenOnce, TokenAdmitsOne, Attached,
       DeleteInv, OpenIsKnown, Open, DeleteMarks, DeleteCloses, DeleteKills, Deleted
<1>3. CASE ~DeleteLoad(d)
  <2>1. PICK pc \in {"marked", "dropped", "closed", "over", "unkilled"} :
           /\ del' = [del EXCEPT ![d].pc = pc] /\ del[d].pc # "idle"
           /\ pc = "marked" => DeleteMark(d)
           /\ pc # "marked" => del[d].pc \in {"marked", "dropped", "closed"} /\ UNCHANGED row
           /\ pc = "closed" => DeleteClose(d)
           /\ pc # "closed" => UNCHANGED <<conns, shut>>
           /\ pc \in {"over", "unkilled"} => del[d].pc = "closed"
           /\ pc = "over" => DeleteKill(d)
           /\ pc # "over" => UNCHANGED tmux
           /\ att' \subseteq att
    BY <1>3 DEF DeleteShell, DeleteMark, DeleteDrop, DeleteClose, DeleteKill, DeleteUnkilled
  <2>2. pc \in WorkPC
    BY <2>1 DEF WorkPC
  <2>3. /\ del' \in [Del -> Work] /\ del'[d].pc = pc /\ del'[d].shell = s
        /\ \A e \in Del \ {d} : del'[e] = del[e]
        /\ \A e \in Del : del'[e].pc # "idle" => del'[e].shell \in Shell
    BY <1>1, <2>1, <2>2, Advanced
  <2>4. s \in Shell
    BY <1>1, <2>1
  <2>5. /\ pc = "marked" => row' = [row EXCEPT ![s] = "deleted"]
        /\ pc = "closed" => conns' = [conns EXCEPT ![s] = {}] /\ shut' = shut \cup conns[s]
        /\ pc = "over" => tmux' = tmux \ {s}
    BY <2>1 DEF DeleteMark, DeleteClose, DeleteKill
  <2> HIDE DEF s
  <2>6. /\ row' \in [Shell -> {"none", "READY", "ERROR", "deleted"}]
        /\ \A z \in Shell : Deleted(z) => row'[z] = "deleted"
        /\ pc = "marked" => row'[s] = "deleted"
    BY <1>0, <2>1, <2>4, <2>5 DEF TypeOK, Deleted
  <2>7. /\ conns' \in [Shell -> SUBSET Stream] /\ shut' \subseteq Stream /\ tmux' \subseteq tmux
        /\ \A z \in Shell \ {s} : conns'[z] = conns[z]
        /\ conns'[s] = conns[s] \/ (conns'[s] = {} /\ conns[s] \subseteq shut')
        /\ shut \subseteq shut'
        /\ pc = "closed" => conns'[s] = {}
    BY <1>0, <2>1, <2>4, <2>5 DEF TypeOK
  <2>8. TypeOK' /\ LoadedShells'
    BY <1>0, <2>1, <2>3, <2>6, <2>7 DEF TypeOK, ShellInv, LoadedShells
  <2>9. TokenInv'
    BY <1>0, <2>1 DEF ShellInv, TokenInv, IssuedTokens, TakenOnce, TokenAdmitsOne, Attached
  <2>10. OpenIsKnown'
    <3>1. ASSUME NEW k \in Stream, Open(k)' PROVE k \in conns'[stream'[k].shell]
      <4>1. Open(k) /\ stream[k].shell \in Shell /\ k \in conns[stream[k].shell] /\ k \notin shut'
        BY <1>0, <2>7, <3>1 DEF ShellInv, LoadedShells, DeleteInv, OpenIsKnown, Open
      <4> QED
        BY <1>0, <2>7, <4>1
    <3> QED
      BY <3>1 DEF OpenIsKnown
  <2>11. DeleteMarks'
    BY <1>1, <2>1, <2>3, <2>6 DEF ShellInv, DeleteInv, DeleteMarks, Deleted, s
  <2>12. DeleteCloses'
    <3>1. del[d].pc = "closed" /\ s \notin late => conns[s] = {}
      BY DEF ShellInv, DeleteInv, DeleteCloses, s
    <3>2. ASSUME NEW e \in Del \ {d}, del[e].pc \in {"closed", "over", "unkilled"}, del[e].shell \notin late
          PROVE  conns'[del[e].shell] = {}
      <4>1. del[e].shell \in Shell /\ conns[del[e].shell] = {}
        BY <1>1, <3>2 DEF ShellInv, DeleteInv, DeleteCloses
      <4> QED
        BY <2>7, <4>1
    <3> QED
      BY <1>0, <2>1, <2>3, <2>7, <3>1, <3>2 DEF DeleteCloses
  <2>13. DeleteKills'
    BY <1>0, <2>1, <2>3, <2>5, <2>7 DEF ShellInv, DeleteInv, DeleteKills
  <2> QED
    BY <2>8, <2>9, <2>10, <2>11, <2>12, <2>13 DEF ShellInv, DeleteInv
<1> QED
  BY <1>2, <1>3

LEMMA ShellInvStep == ShellInv /\ [ShellNext]_svars => ShellInv'
<1> SUFFICES ASSUME ShellInv, [ShellNext]_svars PROVE ShellInv'
  OBVIOUS
<1>1. CASE \E s \in Shell : CreateShell(s)
  BY <1>1, CreateKeeps
<1>2. CASE \E t \in Token : CreateAttachment(t) \/ Expire(t)
  BY <1>2, TokenKeeps
<1>3. CASE \E k \in Stream : StreamSession(k)
  BY <1>3, StartKeeps, StreamKeeps
<1>4. CASE \E d \in Del : DeleteShell(d)
  BY <1>4, DeleteKeeps
<1>5. CASE \E x \in Cmd : Command(x)
  BY <1>5, CommandKeeps
<1>6. CASE \E g \in Git : GitCommand(g)
  <2>1. UNCHANGED <<row, tmux, token, att, expired, conns, shut, stream, del, cmd, late>>
    BY <1>6 DEF GitCommand, GitLoad, GitAcquire, GitGiveUp, GitRelease, gitUnchanged, guest, tokens, sockets
  <2> QED
    BY <2>1, OtherKeeps
<1>7. CASE MachineDown
  BY <1>7, OtherKeeps DEF MachineDown, tokens, sockets, others
<1>8. CASE UNCHANGED svars
  BY <1>8, OtherKeeps DEF svars
<1> QED
  BY <1>1, <1>2, <1>3, <1>4, <1>5, <1>6, <1>7, <1>8 DEF ShellNext

--------------------------------------------------------------------------------
\* One attachment token admits one websocket (startAttachment), for any number of
\* handlers that arrive with it.
THEOREM TokensAreSpentOnce == ShellSpec => []TokenAdmitsOne
<1>1. ShellInv => TokenAdmitsOne
  BY DEF ShellInv, TokenInv, TakenOnce
<1> QED
  BY <1>1, ShellInvInit, ShellInvStep, PTL DEF ShellSpec

\* A delete that returned leaves neither an open websocket nor a tmux session of its
\* shell (DeleteShell), late requests and a guest that cannot be reached apart.
THEOREM DeletesEnd == ShellSpec => []DeleteEndsShell
<1>1. ShellInv => DeleteEndsShell
  BY DEF ShellInv, DeleteInv, OpenIsKnown, DeleteCloses, DeleteKills, DeleteEndsShell
<1> QED
  BY <1>1, ShellInvInit, ShellInvStep, PTL DEF ShellSpec
================================================================================
