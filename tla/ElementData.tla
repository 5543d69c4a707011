------------------------------- MODULE ElementData -------------------------------
(***************************************************************************)
(* What jQuery keeps about elements (page/flot/jquery.js): data, event     *)
(* handlers and queues are in one cache, under a number that is written    *)
(* into the element; the number of an element that is cleaned is given to  *)
(* another.  The page sets, reads and removes data, binds events, and      *)
(* removes, empties, clones and inserts elements.                          *)
(*                                                                         *)
(* Trees of two levels; one piece of data, under its two spellings; its    *)
(* data-* attribute; one handler of a type.                                *)
(***************************************************************************)
EXTENDS Integers, Sequences, FiniteSets, SequencesExt, FiniteSetsExt, Functions, TLC

CONSTANTS
  N,             \* elements are 1..N: 1 is in the document, 2 in it, the others come by cloning
  Values,
  ObjectNames,   \* spellings in objects given to data
  Attribute,     \* the value of the attribute of element 1 and its clones, 0 for none
  EventTypes,
  Special,       \* types that jQuery handles specially
  MaxQueues,     \* bound: queues made
  MaxSteps       \* bound

DataAssumption ==
  N \in Nat \ {0, 1} /\ {MaxQueues, MaxSteps} \subseteq Nat /\ Special \subseteq EventTypes /\ 0 \notin Values

Elems == 1..N
Names == {"fooBar", "foo-bar"}
camelCase(name) == "fooBar"

VARIABLES
  store,    \* [id, cache, deletedIds, guid, listening, queues]
  parent,   \* "document", "nowhere", "unmade" or an element
  attr,
  last,     \* what was set last, 0 if nothing
  did,      \* [op, elem, value]: what the page did last, and what it read
  steps

vars == <<store, parent, attr, last, did, steps>>

NoData == [name \in Names |-> 0]
NoEntry == [data |-> NoData, events |-> {}, parsed |-> FALSE, queue |-> 0]

Init ==
  /\ store = [id |-> [e \in Elems |-> 0], cache |-> << >>, deletedIds |-> <<>>, guid |-> 1,
              listening |-> [e \in Elems |-> {}], queues |-> <<>>]
  /\ parent = [e \in Elems |-> CASE e = 1 -> "document" [] e = 2 -> "1" [] OTHER -> "unmade"]
  /\ attr = [e \in Elems |-> IF e = 1 THEN Attribute ELSE 0]
  /\ last = [e \in Elems |-> 0]
  /\ did = [op |-> "none", elem |-> 1, value |-> 0]
  /\ steps = 0

Has(st, e) == st.id[e] \in DOMAIN st.cache
Entry(st, e) == IF Has(st, e) THEN st.cache[st.id[e]] ELSE NoEntry
Put(st, e, entry) == [st EXCEPT !.cache = (st.id[e] :> entry) @@ @]
Without(f, n) == Restrict(f, DOMAIN f \ {n})
------------------------------------------------------------------------------
(* The cache. *)

\* The entry of an element is made when it is first wanted: its number is the
\* last one that became free, or a new one.
Open(st, e) ==
  IF st.id[e] # 0 THEN st
  ELSE LET n == IF st.deletedIds = <<>> THEN st.guid ELSE Last(st.deletedIds)
       IN  [st EXCEPT !.id[e] = n, !.cache = (n :> NoEntry) @@ @,
                      !.deletedIds = IF @ = <<>> THEN @ ELSE Front(@),
                      !.guid = IF st.deletedIds = <<>> THEN @ + 1 ELSE @]

\* The cache entry, the number in the element: both go, and the number is free.
Destroy(st, e) ==
  [st EXCEPT !.id[e] = 0, !.cache = Without(@, st.id[e]), !.deletedIds = Append(@, st.id[e])]

isEmptyDataObject(entry) == entry = NoEntry

\* Mutant: data given under a name are kept as it is spelled.
WriteAsIs(st, e, name, v) ==
  LET o == Open(st, e) IN Put(o, e, [Entry(o, e) EXCEPT !.data[name] = v])

\* data(elem, name, value)
Write(st, e, name, v) ==
  LET o == Open(st, e) IN Put(o, e, [Entry(o, e) EXCEPT !.data[camelCase(name)] = v])

\* data(elem, {name: value}): copied over as it is.
Extend(st, e, name, v) ==
  LET o == Open(st, e) IN Put(o, e, [Entry(o, e) EXCEPT !.data[name] = v])

\* As it is spelled, or else as it is stored.
Lookup(st, e, name) ==
  LET d == Entry(st, e).data IN IF d[name] # 0 THEN d[name] ELSE d[camelCase(name)]

\* Data that are not there are taken from the attribute, once.
dataAttr(st, e, name) ==
  IF Lookup(st, e, name) = 0 /\ attr[e] # 0 THEN Write(st, e, name, attr[e]) ELSE st

\* removeData(elem, name): the entry goes when nothing is left in it.
RemoveData(st, e, names) ==
  IF ~Has(st, e) THEN st
  ELSE LET entry == [Entry(st, e) EXCEPT !.data = [n \in Names |-> IF n \in names THEN 0 ELSE @[n]]]
       IN  IF isEmptyDataObject(entry) THEN Destroy(st, e) ELSE Put(st, e, entry)

\* The spelling that is there.
NamesFor(st, e, name) ==
  IF Entry(st, e).data[name] # 0 THEN {name} ELSE {camelCase(name)}

\* removeData(elem, "events", true), the same for a queue.
RemovePrivate(st, e, entry) == IF isEmptyDataObject(entry) THEN Destroy(st, e) ELSE Put(st, e, entry)

eventAdd(st, e, t) ==
  LET o == Open(st, e)
  IN  [Put(o, e, [Entry(o, e) EXCEPT !.events = @ \cup {t}]) EXCEPT !.listening[e] = @ \cup {t}]

\* The last event takes the list of events with it.
eventRemove(st, e, types) ==
  IF Entry(st, e).events = {} THEN st
  ELSE LET entry == [Entry(st, e) EXCEPT !.events = @ \ types]
           s == [st EXCEPT !.listening[e] = @ \ types]
       IN  IF entry.events = {} THEN RemovePrivate(s, e, entry) ELSE Put(s, e, entry)

\* Mutant: the number is freed though removing the events has done it.
CleanTwice(st, e) ==
  LET types == Entry(st, e).events
      s == [eventRemove(st, e, types \cap Special) EXCEPT !.listening[e] = @ \ types]
  IN  IF ~Has(st, e) THEN st
      ELSE [s EXCEPT !.id[e] = 0, !.cache = Without(@, st.id[e]), !.deletedIds = Append(@, st.id[e])]

\* Events first; those of a special type may have removed the entry already.
CleanOne(st, e) ==
  LET types == Entry(st, e).events
      s == [eventRemove(st, e, types \cap Special) EXCEPT !.listening[e] = @ \ types]
  IN  IF Has(s, e) THEN Destroy(s, e) ELSE s

cleanData(st, elems) == FoldLeft(CleanOne, st, SetToSortSeq(elems, <))

\* A clone gets all that is private, the events bound anew, and a copy of the data.
cloneCopyEvent(st, src, dest) ==
  IF isEmptyDataObject(Entry(st, src)) THEN st
  ELSE LET o == Open(st, dest)
           copied == Put(o, dest, [Entry(st, src) EXCEPT !.events = {}])
       IN  FoldSet(LAMBDA t, s : eventAdd(s, dest, t), copied, Entry(st, src).events)
------------------------------------------------------------------------------
(* What the page does. *)

Made(e) == parent[e] # "unmade"
Children(e) == {c \in Elems : parent[c] = ToString(e)}

Page(op, e, value) ==
  /\ steps < MaxSteps /\ Made(e)
  /\ steps' = steps + 1 /\ did' = [op |-> op, elem |-> e, value |-> value]

setData(e, name, v) ==
  /\ Page("set", e, v)
  /\ store' = Write(store, e, name, v) /\ last' = [last EXCEPT ![e] = v]
  /\ UNCHANGED <<parent, attr>>

setObject(e, name, v) ==
  /\ Page("set", e, v)
  /\ store' = Extend(store, e, name, v) /\ last' = [last EXCEPT ![e] = v]
  /\ UNCHANGED <<parent, attr>>

getData(e, name) ==
  LET st == dataAttr(store, e, name) IN
  /\ Page("get", e, Lookup(st, e, name))
  /\ store' = st
  /\ UNCHANGED <<parent, attr, last>>

\* data(): the attributes are read the first time, and that is remembered.
getAll(e) ==
  LET o == Open(store, e)
      st == IF Entry(o, e).parsed THEN o ELSE dataAttr(o, e, "fooBar")
  IN  /\ Page("all", e, Lookup(st, e, "fooBar"))
      /\ store' = Put(st, e, [Entry(st, e) EXCEPT !.parsed = TRUE])
      /\ UNCHANGED <<parent, attr, last>>

removeData(e, name) ==
  /\ Page("remove", e, 0)
  /\ store' = RemoveData(store, e, NamesFor(store, e, name))
  /\ last' = [last EXCEPT ![e] = 0]
  /\ UNCHANGED <<parent, attr>>

removeAllData(e) ==
  /\ Page("remove", e, 0)
  /\ store' = RemoveData(store, e, Names)
  /\ last' = [last EXCEPT ![e] = 0]
  /\ UNCHANGED <<parent, attr>>

bind(e, t) ==
  /\ Page("bind", e, 0)
  /\ store' = eventAdd(store, e, t)
  /\ UNCHANGED <<parent, attr, last>>

unbind(e, t) ==
  /\ Page("unbind", e, 0)
  /\ store' = eventRemove(store, e, {t})
  /\ UNCHANGED <<parent, attr, last>>

\* queue(elem, type, function) makes the array of the queue if there is none, and
\* what happens when it is empty, which knows this element.
queue(e) ==
  LET st == Open(store, e) IN
  /\ Len(store.queues) < MaxQueues /\ Page("queue", e, 0)
  /\ Entry(st, e).queue = 0
  /\ store' = [Put(st, e, [Entry(st, e) EXCEPT !.queue = Len(st.queues) + 1])
                EXCEPT !.queues = Append(@, [elem |-> e, live |-> TRUE])]
  /\ UNCHANGED <<parent, attr, last>>

\* The last function of a queue has run: once, the element that made the queue
\* loses its queue.
queueEnds(e) ==
  LET q == Entry(store, e).queue
      of == store.queues[q].elem
      st == [store EXCEPT !.queues[q].live = FALSE]
      ended == [Entry(st, of) EXCEPT !.queue = 0]
  IN  /\ q # 0
      /\ Page("dequeue", e, 0)
      /\ store' = IF store.queues[q].live /\ Has(st, of) THEN RemovePrivate(st, of, ended) ELSE st
      /\ UNCHANGED <<parent, attr, last>>

\* remove() cleans an element and all in it.
Removed(e) == {e} \cup Children(e)

remove(e) ==
  /\ Page("out", e, 0)
  /\ store' = cleanData(store, Removed(e))
  /\ last' = [x \in Elems |-> IF x \in {e} \cup Children(e) THEN 0 ELSE last[x]]
  /\ parent' = [parent EXCEPT ![e] = "nowhere"]
  /\ UNCHANGED attr

detach(e) ==
  /\ parent[e] # "nowhere"
  /\ Page("detach", e, 0)
  /\ parent' = [parent EXCEPT ![e] = "nowhere"]
  /\ UNCHANGED <<store, attr, last>>

empty(e) ==
  /\ Children(e) # {}
  /\ Page("empty", e, 0)
  /\ store' = cleanData(store, Children(e))
  /\ last' = [x \in Elems |-> IF x \in Children(e) THEN 0 ELSE last[x]]
  /\ parent' = [x \in Elems |-> IF x \in Children(e) THEN "nowhere" ELSE parent[x]]
  /\ UNCHANGED attr

append(e, to) ==
  /\ to # e /\ Made(to) /\ Children(e) = {}
  /\ parent[to] \in {"document", "nowhere"} /\ parent[e] # ToString(to)
  /\ Page("append", e, 0)
  /\ parent' = [parent EXCEPT ![e] = ToString(to)]
  /\ UNCHANGED <<store, attr, last>>

\* Data and events are copied if the page asks for it, those of what is in the
\* element if it asks for that too.
clone(e, with, deep) ==
  LET old == SetToSortSeq({e} \cup Children(e), LAMBDA a, b : a = e \/ (b # e /\ a < b))
      free == SetToSortSeq({x \in Elems : ~Made(x)}, <)
      new == [k \in DOMAIN old |-> free[k]]
      copied == IF ~with THEN {} ELSE IF deep THEN DOMAIN old ELSE {1}
      Of(x) == old[CHOOSE k \in DOMAIN new : new[k] = x]
  IN  /\ Len(old) <= Len(free) /\ (deep => with)
      /\ Page("clone", e, 0)
      /\ store' = FoldLeft(LAMBDA s, k : IF k \in copied THEN cloneCopyEvent(s, old[k], new[k]) ELSE s,
                           store, [k \in DOMAIN old |-> k])
      /\ parent' = [x \in Elems |-> IF x \notin ToSet(new) THEN parent[x]
                                    ELSE IF x = new[1] THEN "nowhere" ELSE ToString(new[1])]
      /\ attr' = [x \in Elems |-> IF x \in ToSet(new) THEN attr[Of(x)] ELSE attr[x]]
      /\ last' = [x \in Elems |-> IF x \in {new[k] : k \in copied} THEN last[Of(x)] ELSE last[x]]

Next ==
  \E e \in Elems :
    \/ \E v \in Values : \E n \in Names : setData(e, n, v)
    \/ \E v \in Values, n \in ObjectNames : setObject(e, n, v)
    \/ \E n \in Names : getData(e, n) \/ removeData(e, n)
    \/ getAll(e) \/ removeAllData(e)
    \/ \E t \in EventTypes : bind(e, t) \/ unbind(e, t)
    \/ queue(e) \/ queueEnds(e)
    \/ remove(e) \/ detach(e) \/ empty(e)
    \/ \E to \in Elems : append(e, to)
    \/ \E with, deep \in BOOLEAN : clone(e, with, deep)

Spec == Init /\ [][Next]_vars
------------------------------------------------------------------------------
(* Properties *)

\* Whatever is removed, emptied, cloned and used again, an entry is that of one
\* element, the number of an element has an entry, and a number that is free
\* is free once and no element's.
OwnEntry ==
  LET used == {store.id[e] : e \in Elems} \ {0}
  IN  /\ DOMAIN store.cache = used
      /\ Cardinality(used) = Cardinality({e \in Elems : store.id[e] # 0})
      /\ IsInjective(store.deletedIds) /\ ToSet(store.deletedIds) \cap used = {}

\* What the page reads is what it set last for this element, in whichever
\* spelling, or that of its original when it was cloned; after removal, or if
\* nothing was set, its attribute.
ReadBack ==
  did.op = "get" => did.value = IF last[did.elem] # 0 THEN last[did.elem] ELSE attr[did.elem]

\* data() has what data(name) has.
AllValues ==
  did.op = "all" => did.value = IF last[did.elem] # 0 THEN last[did.elem] ELSE attr[did.elem]

\* An element listens for exactly the events that it has handlers for.
Listening == \A e \in Elems : store.listening[e] = Entry(store, e).events

\* remove() and empty() leave nothing of what they take out of the page: no
\* entry, no number, no listener.
NothingLeft ==
  \A e \in Elems :
    /\ did'.op \in {"out", "empty"} /\ steps' # steps
    /\ IF did'.op = "out" THEN e \in {did'.elem} \cup Children(did'.elem) ELSE e \in Children(did'.elem)
    => store'.id[e] = 0 /\ store'.listening[e] = {}

\* Two elements never have one queue.
OwnQueue ==
  \A e, f \in Elems : e # f /\ Entry(store, e).queue # 0 => Entry(store, e).queue # Entry(store, f).queue
=================================================================================
