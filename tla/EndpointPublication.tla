------------------------ MODULE EndpointPublication -------------------------
(***************************************************************************)
(* shared/src/RuntimeServerInfo.cpp, as the server main function uses it   *)
(* at its start and its end: several servers with one configuration share  *)
(* the file that tells clients where to connect.  Each takes the next free *)
(* port, publishes it through a temporary file of one common name, and     *)
(* takes the file away when it stops and still finds itself in it.         *)
(*                                                                         *)
(* The files are names for inodes: who has the temporary file open goes on *)
(* writing to it when another server has renamed it.  One flush writes the *)
(* whole of an endpoint.  Each operation on the files may fail, whether    *)
(* another server is the reason or the file system.                        *)
(***************************************************************************)
EXTENDS Integers, FiniteSets, FiniteSetsExt

CONSTANTS
  Servers,           \* processes that start with this configuration
  Port,              \* the configured port
  PortSearchWindow,  \* kPortSearchWindow
  ForeignPorts,      \* taken by other programs
  None,              \* no such file
  MaxStarts          \* bound: starts of servers together

ASSUME EndpointAssumption ==
  /\ IsFiniteSet(Servers)
  /\ {Port, MaxStarts} \subseteq Nat \ {0}
  /\ PortSearchWindow \in Nat
  /\ ForeignPorts \subseteq Nat
  /\ None \notin Nat \cup [port : Nat, started_at : Nat]

VARIABLES
  pc,                \* server -> where it stands
  endpoint,          \* server -> port and started_at_unix_ms
  published,         \* server -> published_runtime_endpoint has a value
  out,               \* server -> the inode its stream writes to
  tmp, file,         \* the inodes behind the two names
  content,           \* inode -> the endpoint in it, None while it is empty
  starts,            \* the system clock, in starts
  last,              \* history: the endpoint published last, until a fallback gives it up
  disturbed,         \* history: two servers were busy with the files at a time
  refused,           \* history: a temporary file was there and could not be renamed
  abandoned          \* history: a server was killed, or could not remove a file

proc_vars == <<endpoint, starts>>
file_vars == <<tmp, file, content>>
history_vars == <<last, disturbed, refused, abandoned>>
endpoint_vars == <<pc, published, out, proc_vars, file_vars, history_vars>>

Inodes == 1 .. Cardinality(Servers) + 1
NoEndpoint == [port |-> 0, started_at |-> 0]

\* Places between two file operations that belong together.
Busy == {"opened", "written", "fallback", "last_try", "removing"}

\* Places in which the ENet host exists.
Bound == {"bound", "running"} \cup (Busy \ {"removing"})

EndpointInit ==
  /\ pc = [s \in Servers |-> "down"]
  /\ endpoint = [s \in Servers |-> NoEndpoint]
  /\ published = [s \in Servers |-> FALSE]
  /\ out = [s \in Servers |-> None]
  /\ tmp = None /\ file = None
  /\ content = [i \in Inodes |-> None]
  /\ starts = 0
  /\ last = None
  /\ disturbed = FALSE /\ refused = FALSE /\ abandoned = FALSE

Goto(s, place) == pc' = [pc EXCEPT ![s] = place]

\* A file operation of s; does it fall between two of another server?
Touches(s) ==
  disturbed' = (disturbed \/ \E t \in Servers \ {s} : pc[t] \in Busy)

\* filesystem::remove, whose error nobody acts upon.
Removal(name) ==
  \/ name' = None /\ UNCHANGED abandoned
  \/ name # None /\ UNCHANGED name /\ abandoned' = TRUE

-----------------------------------------------------------------------------
(* The start of the server *)

PortsInUse == ForeignPorts \cup {endpoint[s].port : s \in {t \in Servers : pc[t] \in Bound}}

FreePorts == (Port .. Port + PortSearchWindow) \ PortsInUse

\* The configured port or the next free one; without any the process ends.
Bind(s) ==
  /\ pc[s] = "down"
  /\ starts < MaxStarts
  /\ FreePorts # {}
  /\ Goto(s, "bound")
  /\ starts' = starts + 1
  /\ endpoint' = [endpoint EXCEPT ![s] = [port |-> Min(FreePorts), started_at |-> starts']]
  /\ UNCHANGED <<published, out, file_vars, history_vars>>

FreshInode == CHOOSE i \in Inodes : i \notin {tmp, file} \cup {out[s] : s \in Servers}

\* The stream is opened and what it finds is truncated.
OpenTemporary(s) ==
  /\ pc[s] = "bound"
  /\ Goto(s, "opened")
  /\ LET inode == IF tmp = None THEN FreshInode ELSE tmp
     IN  /\ out' = [out EXCEPT ![s] = inode]
         /\ tmp' = inode
         /\ content' = [content EXCEPT ![inode] = None]
  /\ Touches(s)
  /\ UNCHANGED <<last, refused, abandoned, published, file, proc_vars>>

\* No directory for it, or no leave to write there: the server runs unpublished.
OpenFails(s) ==
  /\ pc[s] = "bound"
  /\ Goto(s, "running")
  /\ UNCHANGED <<published, out, proc_vars, file_vars, history_vars>>

WriteTemporary(s) ==
  /\ pc[s] = "opened"
  /\ Goto(s, "written")
  /\ content' = [content EXCEPT ![out[s]] = endpoint[s]]
  /\ out' = [out EXCEPT ![s] = None]
  /\ Touches(s)
  /\ UNCHANGED <<last, refused, abandoned, published, tmp, file, proc_vars>>

\* A failed write after which the temporary file is left where it is.
WriteFailsUncleaned(s) ==
  /\ pc[s] = "opened"
  /\ Goto(s, "running")
  /\ out' = [out EXCEPT ![s] = None]
  /\ Touches(s)
  /\ UNCHANGED <<last, refused, abandoned, published, tmp, file, content, proc_vars>>

\* No room on the disk: the temporary file goes, the server runs unpublished.
WriteFails(s) ==
  /\ pc[s] = "opened"
  /\ Goto(s, "running")
  /\ out' = [out EXCEPT ![s] = None]
  /\ Removal(tmp)
  /\ Touches(s)
  /\ UNCHANGED <<last, refused, published, file, content, proc_vars>>

\* rename, when it succeeds.
Rename(s) ==
  /\ tmp # None
  /\ tmp' = None /\ file' = tmp
  /\ published' = [published EXCEPT ![s] = TRUE]
  /\ last' = endpoint[s]
  /\ Goto(s, "running")
  /\ Touches(s)
  /\ UNCHANGED <<refused, abandoned, out, content, proc_vars>>

\* It fails: another server has renamed the temporary file, or the file system
\* does not let this one.
RenameFails(s, otherwise) ==
  /\ refused' = (refused \/ tmp # None)
  /\ Goto(s, otherwise)
  /\ Touches(s)
  /\ UNCHANGED <<last, published, out, file, content, proc_vars>>

Publish(s) ==
  /\ pc[s] = "written"
  /\ \/ Rename(s)
     \/ RenameFails(s, "fallback") /\ UNCHANGED <<tmp, abandoned>>

\* The fallback: the published file is removed, whosever it is, and the rename
\* tried again.
ClearForRename(s) ==
  /\ pc[s] = "fallback"
  /\ Goto(s, "last_try")
  /\ Removal(file)
  /\ last' = IF file' = None THEN None ELSE last
  /\ Touches(s)
  /\ UNCHANGED <<refused, published, out, tmp, content, proc_vars>>

\* After a second error the server runs unpublished.
PublishAgain(s) ==
  /\ pc[s] = "last_try"
  /\ \/ Rename(s)
     \/ RenameFails(s, "running") /\ Removal(tmp)

-----------------------------------------------------------------------------
(* The end of the server *)

\* The loop ends and the host is destroyed; its port is free at once.
Stop(s) ==
  /\ pc[s] = "running"
  /\ Goto(s, IF published[s] THEN "stopped" ELSE "down")
  /\ UNCHANGED <<published, out, proc_vars, file_vars, history_vars>>

\* read_active_server_info: an empty file does not parse.
ReadInfo == IF file = None THEN None ELSE content[file]

\* A cleanup that does not look whose file it is.
CheckOwnershipNever(s) ==
  /\ pc[s] = "stopped"
  /\ published' = [published EXCEPT ![s] = FALSE]
  /\ Goto(s, "removing")
  /\ Touches(s)
  /\ UNCHANGED <<last, refused, abandoned, out, proc_vars, file_vars>>

\* Is it still this server that clients find?
CheckOwnership(s) ==
  /\ pc[s] = "stopped"
  /\ published' = [published EXCEPT ![s] = FALSE]
  /\ Goto(s, IF ReadInfo = endpoint[s] THEN "removing" ELSE "down")
  /\ Touches(s)
  /\ UNCHANGED <<last, refused, abandoned, out, proc_vars, file_vars>>

RemoveInfo(s) ==
  /\ pc[s] = "removing"
  /\ Goto(s, "down")
  /\ Removal(file)
  /\ Touches(s)
  /\ UNCHANGED <<last, refused, published, out, tmp, content, proc_vars>>

\* The process is killed.
Crash(s) ==
  /\ pc[s] # "down"
  /\ Goto(s, "down")
  /\ published' = [published EXCEPT ![s] = FALSE]
  /\ out' = [out EXCEPT ![s] = None]
  /\ abandoned' = TRUE
  /\ UNCHANGED <<last, disturbed, refused, proc_vars, file_vars>>

-----------------------------------------------------------------------------
EndpointNext ==
  \E s \in Servers :
    \/ Bind(s)
    \/ OpenTemporary(s)
    \/ OpenFails(s)
    \/ WriteTemporary(s)
    \/ WriteFails(s)
    \/ Publish(s)
    \/ ClearForRename(s)
    \/ PublishAgain(s)
    \/ Stop(s)
    \/ CheckOwnership(s)
    \/ RemoveInfo(s)
    \/ Crash(s)

EndpointSpec == EndpointInit /\ [][EndpointNext]_endpoint_vars

-----------------------------------------------------------------------------
(* Properties *)

Endpoints == [port : (Port .. Port + PortSearchWindow) \ ForeignPorts, started_at : 1 .. starts]

\* The type invariant; no two servers are bound to one port.
EndpointTypes ==
  /\ pc \in [Servers -> {"down", "stopped"} \cup Bound \cup Busy]
  /\ \A s \in Servers : pc[s] \in Bound => endpoint[s] \in Endpoints
  /\ \A s, t \in Servers :
       pc[s] \in Bound /\ pc[t] \in Bound /\ s # t => endpoint[s].port # endpoint[t].port
  /\ published \in [Servers -> BOOLEAN]
  /\ {tmp, file} \subseteq Inodes \cup {None}
  /\ content \in [Inodes -> Endpoints \cup {None}]
  /\ starts \in 0 .. MaxStarts

\* A client that reads the file finds the server that published last, as long as
\* it runs, whichever others start in vain, stop or crash, and whatever a crash
\* left in the temporary file: if only no two of them are at the files at once.
\* One thing takes a server out of sight that runs: the fallback of another whose
\* rename the file system refused, and only until somebody publishes again.
LastIsFound ==
  ~disturbed /\ (\A s \in Servers : pc[s] \notin Busy)
    => \A s \in Servers :
         pc[s] = "running" /\ published[s] /\ endpoint[s] = last
           => ReadInfo = endpoint[s]

\* What must hold of each server that runs, and of the files it is found by.
EndpointInv == EndpointTypes /\ LastIsFound

\* Whoever publishes and stops at the same time as whom: when all servers have
\* ended in order, no client is sent to a port where nobody is, and no temporary
\* file is left.  (A file that does not parse can be: nobody is sent anywhere.)
\* A rename that is refused does not change that, unless another server is at the
\* files as well: it could publish the endpoint of the one that gives up.
NothingIsLeft ==
  ~abandoned /\ ~(refused /\ disturbed) /\ (\A s \in Servers : pc[s] = "down")
    => ReadInfo = None /\ tmp = None
=============================================================================
