------------------------------- MODULE Nastawy -------------------------------
(***************************************************************************)
(* The path of the controller settings (nastawy, a P and an I) from the    *)
(* web interface to the server.  The Tornado process (sockets/server.py)   *)
(* writes them to one file per tunable device, nastawy_bud.txt for the     *)
(* building and nastawy_wym.txt for the exchanger's regulator; the server  *)
(* (serwer/Server.cpp) reads the file of a device each time that device    *)
(* asks for its parameters.  Nothing synchronises the two processes.       *)
(*                                                                         *)
(* A pair P, I is one value of Settings: czytaj_nastawy always reads and   *)
(* stores both.                                                            *)
(***************************************************************************)
EXTENDS Naturals

CONSTANTS
  Tunable,   \* the devices that have a settings file
  Settings,  \* the pairs of P and I a page can send
  Empty,     \* content of a file between Tornado's open(..., 'w') and its close
  NoFile,    \* the file cannot be opened
  Unset,     \* the P and I of a record never written: empty strings
  Garbage,   \* a P and I made from bytes that no file held
  MaxEdits   \* bound: settings messages Tornado handles

ASSUME NastawyAssumption ==
  /\ MaxEdits \in Nat
  /\ {Empty, NoFile, Unset, Garbage} \cap Settings = {}
  /\ Empty # NoFile

VARIABLES
  nastawy,   \* content of each settings file
  edits,     \* settings messages handled so far
  pi,        \* budynek_zeszle.P, .I and regulator_zeszle.P, .I
  running    \* the server process: "up", "closed", "aborted" or "crashed"

nastawyVars == <<nastawy, edits, pi, running>>

NastawyTypeOK ==
  /\ nastawy \in [Tunable -> Settings \cup {Empty, NoFile}]
  /\ edits \in 0..MaxEdits
  /\ pi \in [Tunable -> Settings \cup {Unset, Garbage}]
  /\ running \in {"up", "closed", "aborted", "crashed"}

\* main reads both files before it accepts the first connection.
NastawyInit ==
  /\ nastawy \in [Tunable -> Settings \cup {NoFile}]
  /\ edits = 0
  /\ pi = [d \in Tunable |-> IF nastawy[d] = NoFile THEN Unset ELSE nastawy[d]]
  /\ running = "up"

------------------------------------------------------------------------------
(* The server's side. *)

\* Mutant: settings read once are kept.
ReadWholeOnce(d) ==
  /\ nastawy[d] \in Settings
  /\ pi' = [pi EXCEPT ![d] = IF pi[d] = Unset THEN nastawy[d] ELSE pi[d]]
  /\ UNCHANGED running

\* The file holds a pair: its P and I replace those of the record.
ReadWhole(d) ==
  /\ nastawy[d] \in Settings
  /\ pi' = [pi EXCEPT ![d] = nastawy[d]]
  /\ UNCHANGED running

\* fopen fails: the record keeps its P and I.
ReadNothing(d) ==
  /\ nastawy[d] = NoFile
  /\ UNCHANGED <<pi, running>>

\* The file is empty: fscanf stores nothing, so strtok splits whatever the
\* stack held in bufor.  Two tokens become the device's P and I; with fewer,
\* strncpy copies from NULL and the process dies.
ReadTorn(d) ==
  /\ nastawy[d] = Empty
  /\ \/ pi' = [pi EXCEPT ![d] = Garbage] /\ UNCHANGED running
     \/ running' = "crashed" /\ UNCHANGED pi

czytaj_nastawy(d) == ReadWhole(d) \/ ReadNothing(d) \/ ReadTorn(d)

------------------------------------------------------------------------------
(* Tornado's side.  Its loop runs one on_message at a time, so a second   *)
(* file is opened only when the first is written and closed.              *)

\* open(..., 'w') truncates the file at once.
OpenSettings(d) ==
  /\ edits < MaxEdits
  /\ \A e \in Tunable : nastawy[e] # Empty
  /\ nastawy' = [nastawy EXCEPT ![d] = Empty]
  /\ edits' = edits + 1
  /\ UNCHANGED <<pi, running>>

\* write only fills Python's buffer; the pair reaches the file in close.
WriteSettings(d) ==
  /\ nastawy[d] = Empty
  /\ \E s \in Settings : nastawy' = [nastawy EXCEPT ![d] = s]
  /\ UNCHANGED <<edits, pi, running>>

on_message == \E d \in Tunable : OpenSettings(d) \/ WriteSettings(d)
==============================================================================
