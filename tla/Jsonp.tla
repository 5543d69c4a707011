-------------------------------- MODULE Jsonp ---------------------------------
(***************************************************************************)
(* Requests by script tags (page/flot/jquery.js): each installs a function *)
(* of the window under a name, and the script that the server sends calls  *)
(* it.  When the request is done the value before is put back and the name *)
(* is free for the next request.                                           *)
(*                                                                         *)
(* The browser runs a script and fires its onload in one step, unless the  *)
(* tag was removed: then it may still run it, but no onload comes.         *)
(***************************************************************************)
EXTENDS Integers, Sequences, FiniteSets

CONSTANTS
  Requests,
  FixedName,      \* the page gives all of them the same jsonpCallback
  Overlaps,       \* a request may begin before the one before is done
  LateRuns,       \* a script may run after its tag was removed
  MayNotCall,     \* a script may fail to call the function
  MaxName         \* bound: names that are made up

RequestsAssumption == Requests \subseteq Nat

\* One name for all is for requests that follow each other; a name can be made
\* up for each of the others.
NamesAssumption ==
  /\ RequestsAssumption
  /\ MaxName \in Nat
  /\ FixedName \in BOOLEAN /\ (FixedName => ~Overlaps)
  /\ IsFiniteSet(Requests) /\ (FixedName \/ Cardinality(Requests) <= MaxName)

\* Names made up: 1, 2, ... (expando and nonce); 0 is the one of the page.
Names == 0..MaxName

VARIABLES
  window,         \* [name -> the request whose function it is, or none]
  oldCallbacks,   \* free names
  nonce,
  name,           \* [request -> name]
  overwritten,    \* [request -> what was there before]
  container,      \* [request -> whose data its function has been called with]
  phase,          \* "new", "sent", "done"
  script,         \* requests whose script has not run
  delivered       \* [request -> whose data it was given, or none]

jsonpVars == <<window, oldCallbacks, nonce, name, overwritten, container, phase, script, delivered>>

none == -1

JsonpInit ==
  /\ window = [n \in Names |-> none]
  /\ oldCallbacks = << >> /\ nonce = 1
  /\ name = [r \in Requests |-> none]
  /\ overwritten = [r \in Requests |-> none]
  /\ container = [r \in Requests |-> none]
  /\ phase = [r \in Requests |-> "new"]
  /\ script = {}
  /\ delivered = [r \in Requests |-> none]

\* Mutant: the last name is used again without being taken.
NextNameKept ==
  IF FixedName THEN <<0, oldCallbacks, nonce>>
  ELSE IF oldCallbacks = << >> THEN <<nonce, << >>, nonce + 1>>
  ELSE <<oldCallbacks[Len(oldCallbacks)], oldCallbacks, nonce>>

\* jsonpCallback: the name that was freed last, or a new one.
NextName ==
  IF FixedName THEN <<0, oldCallbacks, nonce>>
  ELSE IF oldCallbacks = << >> THEN <<nonce, << >>, nonce + 1>>
  ELSE <<oldCallbacks[Len(oldCallbacks)], SubSeq(oldCallbacks, 1, Len(oldCallbacks) - 1), nonce>>

\* The prefilter takes a name and installs the function; the script transport
\* inserts the tag.
send(r) ==
  /\ phase[r] = "new"
  /\ Overlaps \/ \A q \in Requests : phase[q] # "sent"
  /\ LET n == NextName[1]
     IN  /\ name' = [name EXCEPT ![r] = n]
         /\ overwritten' = [overwritten EXCEPT ![r] = window[n]]
         /\ window' = [window EXCEPT ![n] = r]
  /\ oldCallbacks' = NextName[2] /\ nonce' = NextName[3]
  /\ phase' = [phase EXCEPT ![r] = "sent"]
  /\ script' = script \cup {r}
  /\ UNCHANGED <<container, delivered>>

\* A script calls what the window has under its name: the function of some
\* request takes the data (or the call fails).
CalledBy(r) ==
  IF window[name[r]] = none THEN container ELSE [container EXCEPT ![window[name[r]]] = r]

\* Afterwards: the value before is put back, the name is free, and a function
\* that was there before is called with the answer too.
CleanUp(r, cont) ==
  LET before == overwritten[r]
      passed == IF cont[r] # none /\ before # none THEN [cont EXCEPT ![before] = cont[r]] ELSE cont
  IN  /\ window' = [window EXCEPT ![name[r]] = before]
      /\ oldCallbacks' = IF FixedName THEN oldCallbacks ELSE Append(oldCallbacks, name[r])
      /\ container' = [passed EXCEPT ![r] = none]

\* The script runs (it may fail to call) and its onload fires: the converter
\* takes what the function was called with, or complains that it was not.
ScriptLoads(r, calls) ==
  /\ r \in script /\ phase[r] = "sent"
  /\ calls \/ MayNotCall
  /\ script' = script \ {r}
  /\ LET cont == IF calls THEN CalledBy(r) ELSE container
     IN  /\ delivered' = [delivered EXCEPT ![r] = cont[r]]
         /\ CleanUp(r, cont)
  /\ phase' = [phase EXCEPT ![r] = "done"]
  /\ UNCHANGED <<nonce, name, overwritten>>

\* abort, or the time-out: the tag is removed.
Abort(r) ==
  /\ phase[r] = "sent"
  /\ phase' = [phase EXCEPT ![r] = "done"]
  /\ CleanUp(r, container)
  /\ script' = IF LateRuns THEN script ELSE script \ {r}
  /\ UNCHANGED <<nonce, name, overwritten, delivered>>

\* The script of a removed tag runs all the same.
LateScript(r) ==
  /\ r \in script /\ phase[r] = "done"
  /\ script' = script \ {r}
  /\ container' = CalledBy(r)
  /\ UNCHANGED <<window, oldCallbacks, nonce, name, overwritten, phase, delivered>>

JsonpNext ==
  \/ \E r \in Requests : send(r) \/ Abort(r) \/ LateScript(r)
  \/ \E r \in Requests, calls \in BOOLEAN : ScriptLoads(r, calls)

JsonpSpec == JsonpInit /\ [][JsonpNext]_jsonpVars

------------------------------------------------------------------------------
\* A name belongs to one request at a time: the names of requests under way
\* and the free names are all different.
NamesApart ==
  /\ \A q, r \in Requests :
       (q # r /\ phase[q] = "sent" /\ phase[r] = "sent") => name[q] # name[r]
  /\ \A i \in DOMAIN oldCallbacks : \A j \in DOMAIN oldCallbacks :
       i # j => oldCallbacks[i] # oldCallbacks[j]
  /\ \A i \in DOMAIN oldCallbacks : \A r \in Requests :
       phase[r] = "sent" => name[r] # oldCallbacks[i]

\* What a request is given is its own answer.
OwnAnswer == \A r \in Requests : delivered[r] \in {none, r}

\* "Restore preexisting value": when no request is under way, the window has
\* what it had.
WindowRestored ==
  (\A r \in Requests : phase[r] # "sent") => \A n \in Names : window[n] = none
==============================================================================
