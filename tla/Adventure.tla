------------------------------- MODULE Adventure ------------------------------
(***************************************************************************)
(* The text adventure of hardware/etc/samples, one of the programs of the  *)
(* SoC: two entities take turns at one terminal, walk between locations    *)
(* and pick up, drop and give objects.  What is in a location or carried   *)
(* by an entity is a fixed array of identifiers that ends at the first 0,  *)
(* so its last cell stays 0.  A command is the words of a line; names are  *)
(* their identifiers, and what is only printed is left out.                *)
(***************************************************************************)
EXTENDS Integers, Sequences, FiniteSets

CONSTANTS               \* the sizes of the arrays: 128, 8 and 32 in the program
    LOCATION_MAX_OBJECTS, LOCATION_MAX_ENTITIES, ENTITY_MAX_OBJECTS

VARIABLES
    objectsAt, entitiesAt,      \* by location: its lists of objects and of entities
    carried,                    \* by entity: its list of objects
    location,                   \* by entity
    active_entity

avars == <<objectsAt, entitiesAt, carried, location, active_entity>>

Locations == 1 .. 4             \* roome, office, bathroom, kitchen
Entities == 1 .. 2              \* me, u
Objects == 1 .. 3               \* notebook, mirror, lighter
Directions == 1 .. 4            \* north, east, south, west
exits == << <<2, 3, 0, 4>>, <<0, 0, 1, 0>>, <<0, 0, 0, 0>>, <<0, 1, 0, 0>> >>

-----------------------------------------------------------------------------
(***************************************************************************)
(* Lists in arrays.                                                        *)
(***************************************************************************)
List(s, len) == [c \in 0 .. len - 1 |-> IF c < Len(s) THEN s[c + 1] ELSE 0]
Cells(list) == DOMAIN list
Ends(list) == CHOOSE c \in Cells(list) : list[c] = 0 /\ \A d \in 0 .. c - 1 : list[d] # 0
Listed(list) == {c \in Cells(list) : \A d \in 0 .. c : list[d] # 0}    \* before the first 0
InList(list, id) == \E c \in Listed(list) : list[c] = id
IndexOf(list, id) == CHOOSE c \in Listed(list) : list[c] = id /\ \A d \in 0 .. c - 1 : list[d] # id

EndCell(list) == Cardinality(Cells(list)) - 1
Full_late(list) == \A c \in Cells(list) : list[c] # 0      \* uses the last cell, too
Full(list) == \A c \in Cells(list) \ {EndCell(list)} : list[c] # 0
add_to_list(list, id) ==            \* called when the list is not full
    LET e == Ends(list)
    IN  [c \in Cells(list) |-> IF c = e THEN id ELSE IF c = e + 1 THEN 0 ELSE list[c]]
remove_from_list_by_index(list, ix) ==
    LET e == Ends(list)
    IN  [c \in Cells(list) |-> IF c \in ix .. e - 1 THEN list[c + 1] ELSE list[c]]
remove_entity_from_list(list, eid) == remove_from_list_by_index(list, IndexOf(list, eid))

-----------------------------------------------------------------------------
(***************************************************************************)
(* The commands of the active entity, and the turn that passes after each. *)
(***************************************************************************)
me == active_entity
here == location[me]
Turn == active_entity' = IF active_entity = 1 THEN 2 ELSE 1

action_take(oid) ==
    /\ InList(objectsAt[here], oid) /\ ~Full(carried[me])
    /\ carried' = [carried EXCEPT ![me] = add_to_list(@, oid)]
    /\ objectsAt' = [objectsAt EXCEPT ![here] =
                        remove_from_list_by_index(@, IndexOf(@, oid))]
    /\ Turn /\ UNCHANGED <<entitiesAt, location>>

action_drop(oid) ==
    /\ InList(carried[me], oid) /\ ~Full(objectsAt[here])
    /\ objectsAt' = [objectsAt EXCEPT ![here] = add_to_list(@, oid)]
    /\ carried' = [carried EXCEPT ![me] = remove_from_list_by_index(@, IndexOf(@, oid))]
    /\ Turn /\ UNCHANGED <<entitiesAt, location>>

action_go(dir) ==
    LET to == exits[here][dir]
    IN  /\ to # 0 /\ ~Full(entitiesAt[to])
        /\ entitiesAt' = [entitiesAt EXCEPT
                ![to] = add_to_list(@, me),
                ![here] = remove_entity_from_list(@, me)]
        /\ location' = [location EXCEPT ![me] = to]
        /\ Turn /\ UNCHANGED <<objectsAt, carried>>

\* also to oneself: the list grows at its end before it shrinks
action_give(oid, to) ==
    /\ InList(entitiesAt[here], to) /\ InList(carried[me], oid) /\ ~Full(carried[to])
    /\ LET given == [carried EXCEPT ![to] = add_to_list(@, oid)]
       IN  carried' = [given EXCEPT ![me] =
                remove_from_list_by_index(@, IndexOf(carried[me], oid))]
    /\ Turn /\ UNCHANGED <<objectsAt, entitiesAt, location>>

\* help, an inventory, too few words, a word not understood, no such exit, object or
\* entity, or no space
handle_input_other == Turn /\ UNCHANGED <<objectsAt, entitiesAt, carried, location>>

AdventureInit ==
    /\ objectsAt = [l \in Locations |-> List(IF l = 2 THEN <<1, 3>> ELSE <<>>, LOCATION_MAX_OBJECTS)]
    /\ entitiesAt = [l \in Locations |->
            List(CASE l = 1 -> <<1>> [] l = 2 -> <<2>> [] OTHER -> <<>>, LOCATION_MAX_ENTITIES)]
    /\ carried = <<List(<<2>>, ENTITY_MAX_OBJECTS), List(<<>>, ENTITY_MAX_OBJECTS)>>
    /\ location = <<1, 2>>
    /\ active_entity = 1

AdventureNext ==
    \/ \E oid \in Objects : \/ action_take(oid) \/ action_drop(oid)
                            \/ \E to \in Entities : action_give(oid, to)
    \/ \E dir \in Directions : action_go(dir)
    \/ handle_input_other

-----------------------------------------------------------------------------
Holds(lists, n) == {l \in DOMAIN lists : InList(lists[l], n)}
Once(list) == \A c, d \in Listed(list) : list[c] = list[d] => c = d
Ended(list) == list[EndCell(list)] = 0

\* Nothing is lost, doubled or in two places: an object lies in one location or is
\* carried by one entity, once; an entity is in the list of the location it is at and
\* of no other; and every array still ends in 0, whichever was full when an object or
\* entity was moved to it, or gave the object to itself.
EverythingInOnePlace ==
    /\ \A o \in Objects : Cardinality(Holds(objectsAt, o)) + Cardinality(Holds(carried, o)) = 1
    /\ \A e \in Entities : Holds(entitiesAt, e) = {location[e]}
    /\ \A l \in Locations : \A list \in {objectsAt[l], entitiesAt[l]} : Once(list) /\ Ended(list)
    /\ \A e \in Entities : Once(carried[e]) /\ Ended(carried[e])
=============================================================================
