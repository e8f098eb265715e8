---------------------------- MODULE ServerSocket -----------------------------
(***************************************************************************)
(* Who owns the local socket.  A server that starts probes what is at the  *)
(* path, removes a socket nobody answers on, binds its own and notes which *)
(* file that is.  A server that stops closes its listener first and then   *)
(* removes the file, if it still is its own.  A server that is killed      *)
(* leaves the file behind.  Files are told by their inode, which the file  *)
(* system may use again once the file is gone and its listener is closed.  *)
(***************************************************************************)
EXTENDS Naturals, FiniteSets

CONSTANTS
    Servers,   \* processes, each started once
    Inodes,
    NoFile,    \* nothing at the path
    MaxKills   \* how many servers are killed

ASSUME InodesAssumption == NoFile \notin Inodes /\ Servers \cap Inodes = {}
ASSUME KillsAssumption == MaxKills \in Nat

VARIABLES
    socket,    \* the file at the path
    private,   \* whether that file has its final mode
    phase,     \* how far each server is
    listener,  \* the file that each server listens on
    noted,     \* the identity each server saw last
    kills,
    crowded    \* history: two servers were starting or stopping at one time

socketVars == <<socket, private, phase, listener, noted, kills, crowded>>

Starting == {"probing", "rechecking", "removing", "binding", "inspecting", "restricting", "verifying"}
Stopping == {"closing", "comparing", "unlinking"}
Phases == Starting \cup Stopping \cup {"off", "serving", "gone", "refused", "leaving"}

SocketTypeOK ==
    /\ socket \in Inodes \cup {NoFile}
    /\ private \in BOOLEAN
    /\ phase \in [Servers -> Phases]
    /\ listener \in [Servers -> Inodes \cup {NoFile}]
    /\ noted \in [Servers -> Inodes \cup {NoFile}]
    /\ kills \in 0 .. MaxKills
    /\ crowded \in BOOLEAN

SocketInit ==
    /\ socket \in Inodes \cup {NoFile}
    /\ private \in BOOLEAN
    /\ phase = [s \in Servers |-> "off"]
    /\ listener = [s \in Servers |-> NoFile]
    /\ noted = [s \in Servers |-> NoFile]
    /\ kills = 0
    /\ crowded = FALSE

-----------------------------------------------------------------------------
Busy(phases) == {s \in Servers : phases[s] \in Starting \cup Stopping \cup {"leaving"}}

Enter(s, p) ==
    /\ phase' = [phase EXCEPT ![s] = p]
    /\ crowded' = (crowded \/ Cardinality(Busy(phase')) > 1)

\* Somebody listens on the file at the path.
Answers == socket # NoFile /\ \E s \in Servers : listener[s] = socket

Unused == Inodes \ ({listener[s] : s \in Servers} \cup {socket})

\* prepare_path: what is there must be a socket that only its owner can use.
Inspect(s) ==
    /\ phase[s] = "off"
    /\ noted' = [noted EXCEPT ![s] = socket]
    /\ CASE socket = NoFile -> Enter(s, "binding")
         [] socket # NoFile /\ private -> Enter(s, "probing")
         [] socket # NoFile /\ ~private -> Enter(s, "refused")
    /\ UNCHANGED <<socket, private, listener, kills>>

\* Mutant: a socket is stale if it does not answer at once.
ProbeHastily(s) ==
    /\ phase[s] = "probing"
    /\ \E answered \in {Answers, FALSE} :
         Enter(s, IF answered THEN "refused" ELSE "rechecking")
    /\ UNCHANGED <<socket, private, listener, noted, kills>>

\* A connection means that another server owns the socket; a probe that times
\* out, behind a listener that is too busy, decides nothing and fails.
Probe(s) ==
    /\ phase[s] = "probing"
    /\ CASE socket = NoFile -> Enter(s, "binding")
         [] Answers -> Enter(s, "refused")
         [] socket # NoFile /\ ~Answers -> Enter(s, "rechecking")
    /\ UNCHANGED <<socket, private, listener, noted, kills>>

\* remove_stale_if_unchanged looks at the file again.
Recheck(s) ==
    /\ phase[s] = "rechecking"
    /\ CASE socket = NoFile -> Enter(s, "binding")
         [] socket = noted[s] /\ private -> Enter(s, "removing")
         [] socket # NoFile /\ ~(socket = noted[s] /\ private) -> Enter(s, "refused")
    /\ UNCHANGED <<socket, private, listener, noted, kills>>

\* Whatever is at the path goes; if nothing is, the start fails.
RemoveStale(s) ==
    /\ phase[s] = "removing"
    /\ IF socket = NoFile THEN Enter(s, "refused") ELSE Enter(s, "binding")
    /\ socket' = NoFile
    /\ UNCHANGED <<private, listener, noted, kills>>

Bind(s) ==
    /\ phase[s] = "binding"
    /\ \/ /\ socket = NoFile
          /\ \E inode \in Unused :
                socket' = inode /\ listener' = [listener EXCEPT ![s] = inode]
          /\ private' = FALSE
          /\ Enter(s, "inspecting")
       \/ /\ socket # NoFile
          /\ Enter(s, "refused")
          /\ UNCHANGED <<socket, private, listener>>
    /\ UNCHANGED <<noted, kills>>

\* From here on the file is the server's to remove.  Without a file the start
\* fails, and the listener closes.
InspectBound(s) ==
    /\ phase[s] = "inspecting"
    /\ noted' = [noted EXCEPT ![s] = socket]
    /\ IF socket = NoFile
       THEN Enter(s, "refused") /\ listener' = [listener EXCEPT ![s] = NoFile]
       ELSE Enter(s, "restricting") /\ UNCHANGED listener
    /\ UNCHANGED <<socket, private, kills>>

SetPrivate(s) ==
    /\ phase[s] = "restricting"
    /\ IF socket = NoFile THEN Enter(s, "leaving") ELSE Enter(s, "verifying")
    /\ private' = (private \/ socket # NoFile)
    /\ UNCHANGED <<socket, listener, noted, kills>>

Verify(s) ==
    /\ phase[s] = "verifying"
    /\ IF socket = noted[s] /\ private THEN Enter(s, "serving") ELSE Enter(s, "leaving")
    /\ UNCHANGED <<socket, private, listener, noted, kills>>

\* serve ends, or the start failed with a listener: an error drops the guard of
\* the file, which was bound last, before the listener.
Stop(s) ==
    /\ \/ phase[s] = "serving" /\ Enter(s, "closing")
       \/ phase[s] = "leaving" /\ Enter(s, "comparing")
    /\ UNCHANGED <<socket, private, listener, noted, kills>>

Close(s) ==
    /\ phase[s] = "closing"
    /\ listener' = [listener EXCEPT ![s] = NoFile]
    /\ Enter(s, "comparing")
    /\ UNCHANGED <<socket, private, noted, kills>>

\* remove_if_same_socket.
Compare(s) ==
    /\ phase[s] = "comparing"
    /\ IF socket # NoFile /\ socket = noted[s]
       THEN Enter(s, "unlinking") /\ UNCHANGED listener
       ELSE Enter(s, "gone") /\ listener' = [listener EXCEPT ![s] = NoFile]
    /\ UNCHANGED <<socket, private, noted, kills>>

Unlink(s) ==
    /\ phase[s] = "unlinking"
    /\ socket' = NoFile
    /\ listener' = [listener EXCEPT ![s] = NoFile]
    /\ Enter(s, "gone")
    /\ UNCHANGED <<private, noted, kills>>

\* A signal that cannot be handled, or a crash: the file stays.
Kill(s) ==
    /\ phase[s] \notin {"off", "gone", "refused"}
    /\ kills < MaxKills
    /\ kills' = kills + 1
    /\ listener' = [listener EXCEPT ![s] = NoFile]
    /\ Enter(s, "gone")
    /\ UNCHANGED <<socket, private, noted>>

SocketNext ==
    \E s \in Servers :
        \/ Inspect(s) \/ Probe(s) \/ Recheck(s) \/ RemoveStale(s)
        \/ Bind(s) \/ InspectBound(s) \/ SetPrivate(s) \/ Verify(s)
        \/ Stop(s) \/ Close(s) \/ Compare(s) \/ Unlink(s) \/ Kill(s)

SocketSpec == SocketInit /\ [][SocketNext]_socketVars

-----------------------------------------------------------------------------
\* As long as no two servers ever start or stop at one time, a server that
\* serves is the one that clients reach, whatever was killed before, and no
\* second one serves (listener.rs bind and drop).
ServingMeansReachable ==
    \A s \in Servers : phase[s] = "serving" /\ ~crowded =>
        /\ socket = listener[s] /\ private
        /\ \A other \in Servers \ {s} : phase[other] # "serving"

=============================================================================
