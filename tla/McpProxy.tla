-------------------------------- MODULE McpProxy --------------------------------
(***************************************************************************)
(* The MCP proxy (mcp-proxy/src/index.ts) in front of a server that writes *)
(* files, together with the claim commands of ClaimLeases: a process is    *)
(* either a claim command or one tool call that a proxy handles for the    *)
(* process's agent.  A call is decided against the claims read from the    *)
(* store; the rest of the handler is synchronous, but another proxy may    *)
(* write to the same audit log between its look at the size and its append.*)
(* When the server gets to a request is up to the server.                  *)
(***************************************************************************)
EXTENDS ClaimLeases, ToolPolicy

CONSTANTS
  Configurations,     \* the options a proxy may run with
  Request,            \* tool calls: a name, and the files under each key
  HasLog,             \* whether --audit-log is given
  MaxLog,             \* lines that fit under auditLogMaxBytes
  NoRequest, NoWrite

ASSUME ProxyAssumption ==
  /\ Configurations \subseteq Options
  /\ Request \subseteq [tool : Name, args : [Key -> SUBSET File]]
  /\ NoRequest \notin Request
  /\ HasLog \in BOOLEAN
  /\ MaxLog \in Nat
  /\ IsFiniteSet(Process) /\ Process # {}

VARIABLES
  options,   \* the options of the proxies
  request,   \* the call each process is deciding, or NoRequest
  logging,   \* the decided call each process writes its audit line for, or NoWrite
  sent,      \* the call each process has sent to the server, or NoWrite
  logLines,  \* lines in the audit log
  landed     \* the last write the server made to each file, or NoWrite

proxyVars == <<options, request, logging, sent, logLines, landed>>
allVars == <<vars, options, request, logging, sent, logLines, landed>>

ProxyInit ==
  /\ Init
  /\ options \in Configurations
  /\ request = [p \in Process |-> NoRequest]
  /\ logging = [p \in Process |-> NoWrite]
  /\ sent = [p \in Process |-> NoWrite]
  /\ logLines = 0
  /\ landed = [f \in File |-> NoWrite]

Free(p) == request[p] = NoRequest /\ logging[p] = NoWrite /\ sent[p] = NoWrite

FilesOf(r) == IF PathsFor(options, r.tool, r.args) = Undefined THEN {}
              ELSE PathsFor(options, r.tool, r.args)

Unleased(r) == [f \in FilesOf(r) |-> NoClaim]

(* Mutant: the size of the log is not looked at. *)
LineIsAlwaysDue == {FALSE, HasLog}

(* The first half of appendAuditEvent.  The line is to be written when it   *)
(* fits; one that does not fit, or a log that cannot be examined, is passed *)
(* over in silence.                                                         *)
LineIsDue ==
  IF ~HasLog THEN {FALSE}
  ELSE {FALSE, logLines < MaxLog}

(* The end of a call's handler: a call that is to be forwarded is sent.     *)
Dispatch(p, call) == sent' = IF call.forward THEN [sent EXCEPT ![p] = call] ELSE sent

(* The rest of the handler of tools/call once the decision d is there, up   *)
(* to the append of the audit line if one is due.                           *)
Conclude(p, d, lease) ==
  /\ LET call == [forward |-> d.forward, files |-> FilesOf(request[p]), lease |-> lease]
     IN \E due \in LineIsDue :
          IF due THEN logging' = [logging EXCEPT ![p] = call] /\ sent' = sent
                 ELSE Dispatch(p, call) /\ logging' = logging
  /\ request' = [request EXCEPT ![p] = NoRequest]
  /\ UNCHANGED <<options, logLines, landed>>

-----------------------------------------------------------------------------
(* A claim command, or the clock. *)
ClaimStep ==
  /\ \/ Tick
     \/ \E p \in Process : Free(p) /\ (ReadStore(p) \/ Refuse(p) \/ Prepare(p) \/ Commit(p))
  /\ UNCHANGED proxyVars

Receive(p) ==
  /\ Free(p) /\ pc[p] = "idle"
  /\ \E r \in Request : request' = [request EXCEPT ![p] = r]
  /\ UNCHANGED <<vars, options, logging, sent, logLines, landed>>

Asks(p) == request[p] # NoRequest /\ NeedsAccess(options, request[p].tool, request[p].args)

(* A call that is decided by its name and its arguments alone. *)
DecideAtOnce(p) ==
  /\ request[p] # NoRequest /\ ~Asks(p)
  /\ Conclude(p, Decide(options, request[p].tool, request[p].args, "error"),
              Unleased(request[p]))
  /\ UNCHANGED vars

(* checkWriteAccessAsync reads the claim store ... *)
Consult(p) ==
  /\ Asks(p)
  /\ ReadStore(p)
  /\ UNCHANGED proxyVars

(* Mutant: the first of several files stands for all of them.               *)
GrantedByOne(p) ==
  /\ Asks(p)
  /\ \E f \in FilesOf(request[p]) : Allow(p, {f})
  /\ Conclude(p, Decide(options, request[p].tool, request[p].args, "ok"),
              [f \in FilesOf(request[p]) |-> grant'[f]])

(* ... and allows the write of every file the call names, each under a      *)
(* claim of the agent ...                                                   *)
Granted(p) ==
  /\ Asks(p)
  /\ Allow(p, FilesOf(request[p]))
  /\ Conclude(p, Decide(options, request[p].tool, request[p].args, "ok"),
              [f \in FilesOf(request[p]) |-> grant'[f]])

(* ... or refuses it, or fails. *)
Refused(p) ==
  /\ Asks(p)
  /\ Refuse(p)
  /\ \E verdict \in {"denied", "error"} :
       Conclude(p, Decide(options, request[p].tool, request[p].args, verdict),
                Unleased(request[p]))

(* The audit line is appended, or that fails and the call with it. *)
AppendLine(p) ==
  /\ logging[p] # NoWrite
  /\ \/ logLines' = logLines + 1 /\ Dispatch(p, logging[p])
     \/ UNCHANGED <<logLines, sent>>
  /\ logging' = [logging EXCEPT ![p] = NoWrite]
  /\ UNCHANGED <<vars, options, request, landed>>

(* The server carries out a call it was sent. *)
Land(p) ==
  /\ sent[p] # NoWrite
  /\ landed' = [f \in File |-> IF f \in sent[p].files
                                THEN [agent |-> AgentOf[p], lease |-> sent[p].lease[f]]
                                ELSE landed[f]]
  /\ sent' = [sent EXCEPT ![p] = NoWrite]
  /\ UNCHANGED <<vars, options, request, logging, logLines>>

(* The proxy is killed while it decides, or before it appends. *)
Die(p) ==
  /\ request[p] # NoRequest \/ logging[p] # NoWrite
  /\ request' = [request EXCEPT ![p] = NoRequest]
  /\ logging' = [logging EXCEPT ![p] = NoWrite]
  /\ End(p)
  /\ UNCHANGED <<store, time, grant, grantTime, options, sent, logLines, landed>>

ProxyNext ==
  \/ ClaimStep
  \/ \E p \in Process :
       \/ Receive(p) \/ DecideAtOnce(p) \/ Consult(p) \/ Granted(p) \/ Refused(p)
       \/ AppendLine(p) \/ Land(p) \/ Die(p)

ProxySpec == ProxyInit /\ [][ProxyNext]_allVars

-----------------------------------------------------------------------------
Enforced == options.mode = "enforce" /\ options.failMode = "closed"

UnderLease(w, f) ==
  /\ w.lease \in store
  /\ w.lease.agent = w.agent
  /\ f \in Covers[w.lease.surface]
  /\ w.lease.created <= time + MaxSkew

(* With --mode enforce and --fail-mode closed the server writes a file only *)
(* for a call that was allowed under a claim which the store holds for the  *)
(* calling agent and which covers the file; nothing between the decision    *)
(* and the write, whatever fails, sends a call the decision did not allow.  *)
WritesUnderLease ==
  Enforced => \A f \in File : landed[f] # NoWrite => UnderLease(landed[f], f)

(* A write that lands while its lease is surely running follows the writes  *)
(* of other agents in the order of the leases.  A write out of order is     *)
(* always one that was decided in time and held up until its lease ended.   *)
TimelyWrite(f) ==
  LET old == landed[f]
      new == landed'[f]
  IN new # old /\ old # NoWrite /\ old.agent # new.agent /\ new.lease.expires > time + MaxSkew
       => old.lease.expires <= new.lease.created
TimelyWritesInOrder == [][Enforced => \A f \in File : TimelyWrite(f)]_allVars

(* A log that several proxies share outgrows auditLogMaxBytes by less than  *)
(* a line per process: each looks at the size before it appends, and nothing*)
(* keeps the others from appending in between.                              *)
AuditLogBounded == logLines < MaxLog + Cardinality(Process)
=============================================================================
