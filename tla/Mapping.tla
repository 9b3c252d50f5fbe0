------------------------------- MODULE Mapping -------------------------------
(***************************************************************************)
(* nitinol-resolver: a Mapper is a HashMap from ResolveType, an event type *)
(* and a handler type, to a resolver, which an entity's mapping function   *)
(* fills.  Of a resolver only the type of the event it decodes is kept.    *)
(* What is found is the set of the entries that a walk of the map, in      *)
(* whatever order, may meet first.                                         *)
(***************************************************************************)
EXTENDS Naturals, Sequences

CONSTANTS
  Types,             \* event types (EVENT_TYPE)
  MaxRegistrations   \* bound: how often the mapping function registers

\* HANDLER_TYPE of Project and of Subscribe, RESOLVE_TYPE of SubscribeProcess.
Handlers == {"projection", "subscribe", "process-subscriber"}

Entries == [event : Types, handler : Handlers, decodes : Types]

VARIABLES
  mapper,       \* the entries of the map
  registered    \* history: the entries in the order of their registration

SameKey(x, y) == x.event = y.event /\ x.handler = y.handler

\* Mutant: an entry stays when another is registered under its key.
InsertBeside(x) ==
  /\ Len(registered) < MaxRegistrations
  /\ mapper' = mapper \cup {x}
  /\ registered' = Append(registered, x)

\* HashMap::insert replaces what the key was mapped to.
Insert(x) ==
  /\ Len(registered) < MaxRegistrations
  /\ mapper' = {y \in mapper : ~SameKey(x, y)} \cup {x}
  /\ registered' = Append(registered, x)

\* register ties the key's event type to the one that is decoded.
Register(e, h) == Insert([event |-> e, handler |-> h, decodes |-> e])

\* register_with does not: E is given beside a resolver that has its own.
RegisterWith(e, d) == Insert([event |-> e, handler |-> "process-subscriber", decodes |-> d])

\* filter, as subscribe and subscribe_in_process use it.
Filter(map, h) == {x \in map : x.handler = h}

\* find by event type alone, in a filtered map.
FindFiltered(e, h) == {x \in Filter(mapper, h) : x.event = e}

\* find as the projector uses it, on the whole map.
FindProjector(e) == {x \in mapper : x.event = e /\ x.handler = "projection"}

MapperInit == mapper = {} /\ registered = <<>>

MapperNext ==
  \/ \E e \in Types, h \in Handlers \ {"process-subscriber"} : Register(e, h)
  \/ \E e, d \in Types : RegisterWith(e, d)

----------------------------------------------------------------------------
\* The last registration for an event type and a handler type, if there is one.
LastFor(e, h) ==
  LET at == {n \in DOMAIN registered : registered[n].event = e /\ registered[n].handler = h}
  IN  {registered[n] : n \in {m \in at : \A i \in at : i <= m}}

\* Whoever looks a payload's resolver up finds the one registered last for that
\* event type and that use of it, and no other, whatever the order of the walk.
FindsTheLast ==
  \A e \in Types :
    /\ FindProjector(e) = LastFor(e, "projection")
    /\ \A h \in Handlers \ {"projection"} : FindFiltered(e, h) = LastFor(e, h)
=============================================================================
