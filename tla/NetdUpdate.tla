----------------------------- MODULE NetdUpdate -----------------------------
(***************************************************************************)
(* ApplyUpdate: a node's client asks netd to install a signed release      *)
(* (pkg/netd/update.go, extract.go, codesign.go, wire/client.go). Several  *)
(* connections may ask at once. The installer netd starts runs in its own  *)
(* session and restarts netd, so it outlives the daemon that started it:   *)
(* what keeps its directory and excludes a second installer is the staging *)
(* lock, a flock whose descriptor the installer inherits.                  *)
(*                                                                         *)
(* A release archive is known by its digest; Archive gives its members and *)
(* Version its release version. A staging directory is named by the        *)
(* request that made it.                                                   *)
(***************************************************************************)
EXTENDS Integers, Sequences, FiniteSets

CONSTANTS
  Clients,       \* the connections that carry ApplyUpdate
  Digests,       \* the archives there are, by sha256
  Archive,       \* [Digests -> Seq of members]
  Version,       \* [Digests -> releases]
  SetFiles, SkippedFiles, PayloadFiles,    \* updateSetFiles, updateSkippedFiles, cp-payload
  UpdateRequests,                \* what clients may send
  FirstInstalled,  \* the digest of the release installed at first
  MaxMembers,      \* wire.MaxUpdateArchiveMembers
  MaxRequests, MaxFaults,        \* bounds: requests, and stops, crashes and changes on disk
  NoOne

\* A signed payload; a request's signature is over the payload "signed".
Payloads == [sha256 : Digests, version : {Version[c] : c \in Digests}, allow : BOOLEAN, required : BOOLEAN]
Certs == [chains : BOOLEAN, codeSigning : BOOLEAN, names : BOOLEAN]
Members == [name : STRING, type : {"macho", "marker", "data", "dir", "link"},
            sig : [valid : BOOLEAN, developerID : BOOLEAN, team : STRING]]

ASSUME UpdateAssumption ==
  /\ FirstInstalled \in Digests /\ NoOne \notin Clients
  /\ Clients \cap (1..MaxRequests) = {}   \* the holders of the lock are told apart
  /\ \A c \in Digests : \A i \in DOMAIN Archive[c] : Archive[c][i] \in Members
  /\ UpdateRequests \subseteq
       [peer : BOOLEAN, cert : Certs, signed : Payloads, payload : Payloads, archiveOK : BOOLEAN]
  /\ MaxMembers \in Nat /\ MaxRequests \in Nat \ {0} /\ MaxFaults \in Nat

VARIABLES
  proc,        \* the daemon: up, stopping (its context is cancelled) or down
  updateMu,    \* Server.updateMu: the connection that holds it
  clusterCA,   \* Server.clusterCA is loaded
  caFile,      \* the cluster CA file exists
  updater,     \* the root updater's plist exists
  archive,     \* the digest of the bytes now in the archive file, which its owner may rewrite
  lock,        \* the holders of the staging lock: connections and installers (by request)
  dirs,        \* the staging directories there are
  handler,     \* each connection's handleApplyUpdate
  installers,  \* the installer processes that run
  conn,        \* each connection: open at both ends, and the frames sent and not yet read
  client,      \* each client's ApplyUpdate call
  installed,   \* the digest of the release installed
  outcome,     \* history: what became of each request
  asked, faults   \* bounds

updateVars == <<proc, updateMu, clusterCA, caFile, updater, archive, lock, dirs, handler,
                installers, conn, client, installed, outcome, asked, faults>>
diskVars == <<caFile, updater, archive>>

Requests == 1..MaxRequests
Resting == [pc |-> "idle"]
-----------------------------------------------------------------------------
(* The checks, as functions of what they read. *)

\* A release is [core, pre] with pre its prerelease identifiers; a build that is not a
\* tagged release has no core. An identifier ParseUint accepts is [num |-> TRUE] with
\* its value; any other is [num |-> FALSE] with its rank in the order of strings.
IsRelease(v) == Len(v.core) = 3
Sign(a, b) == IF a < b THEN -1 ELSE IF a > b THEN 1 ELSE 0

\* Mutant of comparePreIdent: numbers are compared as strings (11 sorts before 2).
ComparePreIdentAsText(a, b) ==
  IF a.num /\ b.num THEN -Sign(a.val, b.val) ELSE IF a.num THEN -1 ELSE IF b.num THEN 1 ELSE Sign(a.val, b.val)

comparePreIdent(a, b) ==
  IF a.num = b.num THEN Sign(a.val, b.val) ELSE IF a.num THEN -1 ELSE 1

\* The first non-zero of a sequence of comparisons, or last.
FirstDiff(cs, last) ==
  LET D == {i \in DOMAIN cs : cs[i] # 0}
  IN  IF D = {} THEN last ELSE cs[CHOOSE i \in D : \A j \in D : i <= j]

\* No prerelease sorts after any, and a shorter prefix first.
comparePrerelease(a, b) ==
  IF a = <<>> \/ b = <<>> THEN -Sign(Len(a), Len(b))
  ELSE FirstDiff([i \in 1..(IF Len(a) < Len(b) THEN Len(a) ELSE Len(b)) |-> comparePreIdent(a[i], b[i])],
                 Sign(Len(a), Len(b)))

compareReleases(a, b) ==
  FirstDiff([i \in 1..3 |-> Sign(a.core[i], b.core[i])], comparePrerelease(a.pre, b.pre))

NotDowngrade(v, w) == IsRelease(v) /\ IsRelease(w) /\ compareReleases(v, w) >= 0

\* verifyUpdatePayload: a certificate of the cluster CA that is for code signing and
\* names the update signer, and its signature over this payload.
verifyUpdatePayload(r, ca) ==
  /\ ca
  /\ r.cert.chains /\ r.cert.codeSigning /\ r.cert.names
  /\ r.signed = r.payload

\* A member is [name, type, sig]; the staged set is what is written of them.
Staged(c) == {Archive[c][i] : i \in {j \in DOMAIN Archive[c] :
                /\ Archive[c][j].type \in {"macho", "data", "marker"}
                /\ Archive[c][j].name \notin SkippedFiles}}

\* extractUpdateArchive: regular files of the set, each once, and nothing missing.
extractUpdateArchive(c) ==
  LET M == Archive[c]
      Written == {i \in DOMAIN M : M[i].type # "dir" /\ M[i].name \notin SkippedFiles}
  IN  /\ Len(M) <= MaxMembers
      /\ \A i \in DOMAIN M : M[i].type # "link" /\ (M[i].type = "dir" => M[i].name \in PayloadFiles)
      /\ \A i \in Written : M[i].name \in SetFiles \cup PayloadFiles
      /\ \A i, j \in Written : M[i].name = M[j].name => i = j
      /\ SetFiles \subseteq {M[i].name : i \in Written}

\* stagedSigningSet: each staged file is a Mach-O or a cp-payload version marker.
MachOs(c) == {f \in Staged(c) : f.type = "macho"}
stagedSigningSet(c) ==
  /\ \A f \in Staged(c) : f.type = "macho" \/ (f.type = "marker" /\ f.name \in PayloadFiles)
  /\ SetFiles \subseteq {f.name : f \in MachOs(c)}

\* A team counts only behind a valid Developer ID signature.
team(sig) == IF sig.valid /\ sig.developerID THEN sig.team ELSE ""
InstalledSig(c) == (CHOOSE f \in Staged(c) : f.name = "k3sm").sig

checkCodeSigning(inst, sigs, required) ==
  /\ inst.valid /\ \A s \in sigs : s.valid
  /\ team(inst) # "" => \A s \in sigs : team(s) = team(inst)
  /\ Cardinality({team(s) : s \in sigs}) <= 1
  /\ required => "" \notin {team(s) : s \in sigs}

SigningAccepts(inst, c, required) ==
  checkCodeSigning(InstalledSig(inst), {f.sig : f \in MachOs(c)}, required)

-----------------------------------------------------------------------------
(* The handler. *)

Doing(h, pc) == handler[h].pc = pc
Then(h, pc) == handler' = [handler EXCEPT ![h].pc = pc]
Alive == proc # "down"

\* A frame reaches the client only on an open connection; a failed send is ignored.
Emit(h, phase) ==
  conn' = [conn EXCEPT ![h].frames = IF conn[h].open THEN Append(@, phase) ELSE @]

\* The handler returns its final frame; its deferred calls remove the directory, close
\* the lock and unlock updateMu.
Return(h, phase, what) ==
  /\ Emit(h, phase)
  /\ handler' = [handler EXCEPT ![h] = Resting]
  /\ outcome' = [outcome EXCEPT ![handler[h].id] = what]
  /\ dirs' = dirs \ {handler[h].id} /\ lock' = lock \ {h}
  /\ updateMu' = IF updateMu = h THEN NoOne ELSE updateMu
updateFailed(h) == Return(h, "Failed", "refused")

\* What the handler asks of its surroundings: the peer's credential again, the root
\* updater's plist, the archive file, the release installed.
authorizeUpdatePeer(r) == r.peer
checkUpdaterAbsent == ~updater
openUpdateArchive(r) == r.archiveOK
installedVersion == Version[installed]

\* A CA that is not loaded yet is read again, and a loaded one kept.
loadClusterCALocked == clusterCA' = (clusterCA \/ caFile)

\* updateMu is taken without waiting.
Admit(h) ==
  /\ Doing(h, "admit")
  /\ IF authorizeUpdatePeer(handler[h].req) /\ checkUpdaterAbsent /\ updateMu = NoOne
       THEN updateMu' = h /\ Then(h, "verify") /\ Emit(h, "Verifying") /\ UNCHANGED <<lock, dirs, outcome>>
       ELSE updateFailed(h)
  /\ UNCHANGED <<proc, clusterCA, diskVars, installers, client, installed, asked, faults>>

\* The archive is opened here and read later.
Verify(h) ==
  /\ Doing(h, "verify")
  /\ loadClusterCALocked
  /\ IF verifyUpdatePayload(handler[h].req, clusterCA') /\ openUpdateArchive(handler[h].req)
       THEN Then(h, "lock") /\ UNCHANGED <<conn, outcome, dirs, lock, updateMu>>
       ELSE updateFailed(h)
  /\ UNCHANGED <<proc, diskVars, installers, client, installed, asked, faults>>

\* The lock is a flock taken without waiting; the sweep removes every directory an earlier
\* ApplyUpdate left.
lockStaging(h) == lock = {} /\ lock' = {h}
sweepUpdateDirs == dirs' = {}

\* The sweep runs under the lock.
LockStaging(h) ==
  /\ Doing(h, "lock")
  /\ \/ lockStaging(h) /\ sweepUpdateDirs /\ Then(h, "copy") /\ UNCHANGED <<conn, outcome, updateMu>>
     \/ lock # {} /\ updateFailed(h)
  /\ UNCHANGED <<proc, clusterCA, diskVars, installers, client, installed, asked, faults>>

\* copyVerifiedArchive hashes the bytes it copies; what the file holds later is not read.
CopyArchive(h) ==
  /\ Doing(h, "copy")
  /\ IF archive = handler[h].req.payload.sha256
       THEN handler' = [handler EXCEPT ![h].pc = "extract", ![h].copy = archive]
            /\ UNCHANGED <<conn, outcome, dirs, lock, updateMu>>
       ELSE updateFailed(h)
  /\ UNCHANGED <<proc, clusterCA, diskVars, installers, client, installed, asked, faults>>

\* Mutant of Extract: the archive is unpacked from the file, not from the copy.
ExtractOriginal(h) ==
  /\ Doing(h, "extract")
  /\ IF extractUpdateArchive(archive) /\ stagedSigningSet(archive)
       THEN dirs' = dirs \cup {handler[h].id}
            /\ handler' = [handler EXCEPT ![h].pc = "inspect", ![h].copy = archive]
            /\ UNCHANGED <<conn, outcome, lock, updateMu>>
       ELSE updateFailed(h)
  /\ UNCHANGED <<proc, clusterCA, diskVars, installers, client, installed, asked, faults>>

\* The copy is unpacked into a fresh directory, which is removed if that is refused.
Extract(h) ==
  /\ Doing(h, "extract")
  /\ IF extractUpdateArchive(handler[h].copy) /\ stagedSigningSet(handler[h].copy)
       THEN dirs' = dirs \cup {handler[h].id} /\ Then(h, "inspect") /\ UNCHANGED <<conn, outcome, lock, updateMu>>
       ELSE updateFailed(h)
  /\ UNCHANGED <<proc, clusterCA, diskVars, installers, client, installed, asked, faults>>

\* inspectStagedTree and the code-signing policy, against the release installed now.
Inspect(h) ==
  /\ Doing(h, "inspect")
  /\ IF SigningAccepts(installed, handler[h].copy, handler[h].req.payload.required)
       THEN Then(h, "compare") /\ UNCHANGED <<conn, outcome, dirs, lock, updateMu>>
       ELSE updateFailed(h)
  /\ UNCHANGED <<proc, clusterCA, diskVars, installers, client, installed, asked, faults>>

\* checkNotDowngrade, unless the payload allows one; then Installing is announced.
CheckNotDowngrade(h) ==
  /\ Doing(h, "compare")
  /\ LET p == handler[h].req.payload
     IN  IF p.allow \/ NotDowngrade(p.version, installedVersion)
           THEN Then(h, "ack") /\ Emit(h, "Installing") /\ UNCHANGED <<outcome, dirs, lock, updateMu>>
           ELSE updateFailed(h)
  /\ UNCHANGED <<proc, clusterCA, diskVars, installers, client, installed, asked, faults>>

\* Mutant of AwaitAck: the context is not looked at after the wait.
AwaitAckOnly(h) ==
  /\ Doing(h, "ack")
  /\ handler' = [handler EXCEPT ![h].pc = "wait", ![h].run = "starting"]
  /\ UNCHANGED <<conn, outcome, dirs, lock, updateMu>>
  /\ UNCHANGED <<proc, clusterCA, diskVars, installers, client, installed, asked, faults>>

\* The acknowledgement, something else, a closed connection or the bound end the wait
\* alike; a daemon that is stopping starts no installer.
AwaitAck(h) ==
  /\ Doing(h, "ack")
  /\ IF proc = "stopping" THEN Return(h, "Failed", "stopped")
     ELSE /\ handler' = [handler EXCEPT ![h].pc = "wait", ![h].run = "starting"]
          /\ UNCHANGED <<conn, outcome, dirs, lock, updateMu>>
  /\ UNCHANGED <<proc, clusterCA, diskVars, installers, client, installed, asked, faults>>

\* Mutant of RunInstaller: the lock's descriptor is not inherited.
RunInstallerAlone(h) ==
  /\ Alive /\ ~Doing(h, "idle") /\ handler[h].run = "starting"
  /\ \/ /\ installers' = installers \cup {[id |-> handler[h].id, digest |-> handler[h].copy,
                                           req |-> handler[h].req]}
        /\ handler' = [handler EXCEPT ![h].run = "running"]
        /\ outcome' = [outcome EXCEPT ![handler[h].id] = "ran"]
        /\ UNCHANGED lock
     \/ /\ handler' = [handler EXCEPT ![h].run = "err"]
        /\ outcome' = [outcome EXCEPT ![handler[h].id] = "failed"]
        /\ UNCHANGED <<installers, lock>>
  /\ UNCHANGED <<proc, updateMu, clusterCA, diskVars, dirs, conn, client, installed, asked, faults>>

\* execInstaller, in a goroutine whose context a stop does not cancel: the process starts
\* in its own session with a descriptor of the lock, or cannot be started.
RunInstaller(h) ==
  /\ Alive /\ ~Doing(h, "idle") /\ handler[h].run = "starting"
  /\ \/ /\ installers' = installers \cup {[id |-> handler[h].id, digest |-> handler[h].copy,
                                           req |-> handler[h].req]}
        /\ handler' = [handler EXCEPT ![h].run = "running"]
        /\ outcome' = [outcome EXCEPT ![handler[h].id] = "ran"]
        /\ lock' = lock \cup {handler[h].id}
     \/ /\ handler' = [handler EXCEPT ![h].run = "err"]
        /\ outcome' = [outcome EXCEPT ![handler[h].id] = "failed"]
        /\ UNCHANGED <<installers, lock>>
  /\ UNCHANGED <<proc, updateMu, clusterCA, diskVars, dirs, conn, client, installed, asked, faults>>

InstallerDone(h) ==
  /\ Doing(h, "wait") /\ handler[h].run \in {"ok", "err"}
  /\ Return(h, IF handler[h].run = "ok" THEN "Done" ELSE "Failed", outcome[handler[h].id])
  /\ UNCHANGED <<proc, clusterCA, diskVars, installers, client, installed, asked, faults>>

\* The daemon stops while the installer runs: the directory and the lock are left to it.
Abandon(h) ==
  /\ Doing(h, "wait") /\ proc = "stopping"
  /\ Emit(h, "Failed")
  /\ handler' = [handler EXCEPT ![h].pc = "abandoned"]
  /\ updateMu' = NoOne
  /\ UNCHANGED <<proc, clusterCA, diskVars, lock, dirs, installers, client, installed, outcome, asked, faults>>

HandleApplyUpdate(h) ==
  /\ Alive
  /\ \/ Admit(h) \/ Verify(h) \/ LockStaging(h) \/ CopyArchive(h) \/ Extract(h) \/ Inspect(h)
     \/ CheckNotDowngrade(h) \/ AwaitAck(h) \/ RunInstaller(h) \/ InstallerDone(h) \/ Abandon(h)

-----------------------------------------------------------------------------
(* The installer, the disk and the daemon's life. *)

\* An installer that exits 0 has installed its set; one that fails, or is killed at its
\* wall clock, may have got that far.
InstallerExit(i, ok, did) ==
  /\ i \in installers /\ (ok => did)
  /\ installers' = installers \ {i} /\ lock' = lock \ {i.id}
  /\ installed' = IF did THEN i.digest ELSE installed
  /\ outcome' = [outcome EXCEPT ![i.id] = IF ok THEN "ok" ELSE "failed"]
  /\ handler' = [h \in Clients |->
       IF ~Doing(h, "idle") /\ handler[h].id = i.id
         THEN [handler[h] EXCEPT !.run = IF ok THEN "ok" ELSE "err"] ELSE handler[h]]
  /\ UNCHANGED <<proc, updateMu, clusterCA, diskVars, dirs, conn, client, asked, faults>>

\* A change on the disk by someone else: the archive's owner writes another one, the
\* cluster CA or the root updater appears, an operator's own install (which takes the
\* staging lock for its run) puts another release in place.
Fault == faults < MaxFaults /\ faults' = faults + 1
DiskChanges ==
  /\ Fault
  /\ \/ \E c \in Digests \ {archive} : archive' = c /\ UNCHANGED <<caFile, updater, installed>>
     \/ ~caFile /\ caFile' = TRUE /\ UNCHANGED <<archive, updater, installed>>
     \/ ~updater /\ updater' = TRUE /\ UNCHANGED <<archive, caFile, installed>>
     \/ /\ lock = {}
        /\ \E c \in Digests \ {installed} :
             /\ extractUpdateArchive(c) /\ stagedSigningSet(c)
             /\ installed' = c
        /\ UNCHANGED diskVars
  /\ UNCHANGED <<proc, updateMu, clusterCA, lock, dirs, handler, installers, conn, client, outcome, asked>>

\* The daemon's context is cancelled, by an installer's restart or by anyone.
Stop ==
  /\ proc = "up"
  /\ installers # {} \/ faults < MaxFaults
  /\ faults' = IF installers # {} THEN faults ELSE faults + 1
  /\ proc' = "stopping"
  /\ UNCHANGED <<updateMu, clusterCA, diskVars, lock, dirs, handler, installers, conn, client, installed,
                 outcome, asked>>

\* handleConn's watcher closes the connection of a daemon that is stopping.
CloseConn(h) ==
  /\ proc = "stopping" /\ conn[h].open
  /\ conn' = [conn EXCEPT ![h].open = FALSE]
  /\ UNCHANGED <<proc, updateMu, clusterCA, diskVars, lock, dirs, handler, installers, client, installed,
                 outcome, asked, faults>>

\* The process ends: its descriptors are closed, the installers' are not.
Die ==
  /\ proc' = "down" /\ updateMu' = NoOne /\ clusterCA' = FALSE
  /\ lock' = lock \ Clients
  /\ handler' = [h \in Clients |-> Resting]
  /\ conn' = [h \in Clients |-> [conn[h] EXCEPT !.open = FALSE]]
  /\ UNCHANGED <<diskVars, dirs, installers, client, installed, outcome, asked>>

\* Serve returns once every handler has.
Exit ==
  /\ proc = "stopping" /\ \A h \in Clients : Doing(h, "idle") \/ Doing(h, "abandoned")
  /\ Die /\ UNCHANGED faults
Crash == Alive /\ Fault /\ Die

\* launchd starts the daemon again; NewServer tries to load the cluster CA.
Start ==
  /\ proc = "down"
  /\ proc' = "up" /\ clusterCA' = caFile
  /\ UNCHANGED <<updateMu, diskVars, lock, dirs, handler, installers, conn, client, installed, outcome,
                 asked, faults>>

-----------------------------------------------------------------------------
(* The client. *)

\* Client.ApplyUpdate dials and, the daemon being of a minor that has the verb, sends it;
\* the caller has just written the archive it names.
ApplyUpdate(h, r) ==
  /\ proc = "up" /\ Doing(h, "idle") /\ client[h].pc # "reading" /\ asked < MaxRequests
  /\ asked' = asked + 1 /\ archive' = r.payload.sha256
  /\ conn' = [conn EXCEPT ![h] = [open |-> TRUE, frames |-> <<>>]]
  /\ client' = [client EXCEPT ![h] = [pc |-> "reading", id |-> asked', last |-> "", installing |-> FALSE]]
  /\ handler' = [handler EXCEPT ![h] =
       [pc |-> "admit", id |-> asked', req |-> r, copy |-> FirstInstalled, run |-> "none"]]
  /\ UNCHANGED <<proc, updateMu, clusterCA, caFile, updater, lock, dirs, installers, installed, outcome, faults>>

\* One frame: a terminal phase is the result. An Installing frame is acknowledged, which
\* the daemon does not wait for past its bound.
ReadFrame(h) ==
  /\ client[h].pc = "reading" /\ conn[h].frames # <<>>
  /\ LET f == Head(conn[h].frames)
     IN  client' = [client EXCEPT ![h].last = f,
                      ![h].installing = @ \/ f = "Installing",
                      ![h].pc = IF f \in {"Done", "Failed"} THEN "returned" ELSE @]
  /\ conn' = [conn EXCEPT ![h].frames = Tail(@), ![h].open = @ /\ client'[h].pc = "reading"]
  /\ UNCHANGED <<proc, updateMu, clusterCA, diskVars, lock, dirs, handler, installers, installed, outcome,
                 asked, faults>>

\* The stream's end is Restarting after Installing, and an error before it.
ReadEOF(h) ==
  /\ client[h].pc = "reading" /\ conn[h].frames = <<>> /\ ~conn[h].open
  /\ client' = [client EXCEPT ![h].pc = "returned",
                  ![h].last = IF @ = "Installing" THEN "Restarting" ELSE "error"]
  /\ UNCHANGED <<proc, updateMu, clusterCA, diskVars, lock, dirs, handler, installers, conn, installed,
                 outcome, asked, faults>>

\* The caller's context ends: the connection is closed, and the daemon goes on.
Cancel(h) ==
  /\ client[h].pc = "reading" /\ Fault
  /\ client' = [client EXCEPT ![h].pc = "returned", ![h].last = "cancelled"]
  /\ conn' = [conn EXCEPT ![h].open = FALSE]
  /\ UNCHANGED <<proc, updateMu, clusterCA, diskVars, lock, dirs, handler, installers, installed, outcome, asked>>

-----------------------------------------------------------------------------

UpdateInit ==
  /\ proc = "up" /\ updateMu = NoOne
  /\ caFile \in BOOLEAN /\ clusterCA = caFile /\ updater = FALSE
  /\ archive = FirstInstalled /\ installed = FirstInstalled
  /\ lock = {} /\ dirs = {} /\ installers = {}
  /\ handler = [h \in Clients |-> Resting]
  /\ conn = [h \in Clients |-> [open |-> FALSE, frames |-> <<>>]]
  /\ client = [h \in Clients |-> [pc |-> "idle"]]
  /\ outcome = [i \in Requests |-> "none"]
  /\ asked = 0 /\ faults = 0

UpdateNext ==
  \/ \E h \in Clients :
       \/ HandleApplyUpdate(h) \/ CloseConn(h)
       \/ ReadFrame(h) \/ ReadEOF(h) \/ Cancel(h)
       \/ \E r \in UpdateRequests : ApplyUpdate(h, r)
  \/ \E i \in installers, ok, did \in BOOLEAN : InstallerExit(i, ok, did)
  \/ DiskChanges \/ Stop \/ Exit \/ Crash \/ Start

-----------------------------------------------------------------------------
(* Properties. *)

\* However the daemon that started it ended, a running installer is the only one, keeps
\* its staging directory (the next ApplyUpdate's sweep spares it) and holds the lock.
InstallerUndisturbed ==
  \A i \in installers : installers = {i} /\ i.id \in dirs /\ i.id \in lock

\* What an installer puts in place is the archive its signed payload names, although its
\* owner may rewrite the file while netd checks it: every file of it validly signed, by the
\* team of the release it replaces if that has one.
OnlyVerifiedInstalled ==
  \A i \in installers :
    /\ verifyUpdatePayload(i.req, TRUE) /\ i.digest = i.req.payload.sha256
    /\ \A f \in MachOs(i.digest) :
         f.sig.valid /\ (team(InstalledSig(installed)) # "" => team(f.sig) = team(InstalledSig(installed)))

\* The client is told the truth: Done means its installer exited 0, and a Failed that no
\* Installing preceded means nothing of the archive ran.
FinalTrue ==
  \A h \in Clients : client[h].pc = "returned" =>
    /\ client[h].last = "Done" => outcome[client[h].id] = "ok"
    /\ client[h].last = "Failed" /\ ~client[h].installing => outcome[client[h].id] = "refused"

\* A stream that ends before Installing means that nothing of the archive ran, nor will:
\* the connection of a daemon that is stopping may close while the request goes on, and
\* the frame that would announce its installer be lost.
SilenceTrue ==
  \A h \in Clients :
    client[h].pc = "returned" /\ client[h].last = "error" /\ ~client[h].installing =>
      outcome[client[h].id] \in {"none", "refused", "stopped"}

\* What Client.ApplyUpdate returns of its own accord is true of the request: its final
\* phase, and the error of a stream that stopped short.
ReplyTrue == FinalTrue /\ SilenceTrue

=============================================================================
