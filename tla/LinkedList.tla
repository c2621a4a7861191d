----------------------------- MODULE LinkedList ----------------------------
(***************************************************************************)
(* TList (include/hc_list.h): a chain of items with the address of its     *)
(* last link.  An iterator is the address of a link as well, the one that  *)
(* leads to the item it stands before.  Clients push values and items, pop *)
(* both, walk the list, take items out of it on the way and put them back. *)
(***************************************************************************)
EXTENDS FiniteSets, Integers, Sequences

CONSTANTS
  Node,       \* the items the allocator can hand out
  Value,      \* what a list holds
  MaxCount    \* clients stop where FCount would leave -MaxCount .. MaxCount

Entry == "FEntry"   \* the link that is a member of the list itself
NULL == "NULL"
Junk == "junk"      \* what memory holds that is not allocated or not set

ASSUME LinkedListAssumption ==
  /\ IsFiniteSet(Node) /\ Node \cap {Entry, NULL, Junk} = {}
  /\ MaxCount \in Nat

VARIABLES
  next,       \* what each link holds, FEntry among them
  element,    \* the value in each item
  allocated,  \* the items that exist
  held,       \* those a client has taken out or allocated itself
  FExtry,     \* the last link
  FCount,     \* what Size returns
  it          \* an iterator of a client, NULL if there is none

listVars == <<next, element, allocated, held, FExtry, FCount, it>>

Link == Node \cup {Entry}

ListTypeOK ==
  /\ next \in [Link -> Node \cup {NULL, Junk}]
  /\ element \in [Node -> Value \cup {Junk}]
  /\ allocated \subseteq Node
  /\ held \subseteq allocated
  /\ FExtry \in Link
  /\ FCount \in -MaxCount .. MaxCount
  /\ it \in Link \cup {NULL}

ListInit ==
  /\ next = [k \in Link |-> IF k = Entry THEN NULL ELSE Junk]
  /\ element = [n \in Node |-> Junk]
  /\ allocated = {}
  /\ held = {}
  /\ FExtry = Entry
  /\ FCount = 0
  /\ it = NULL

-----------------------------------------------------------------------------
(* The items that the links reach from FEntry, in order.                   *)
Chain ==
  LET at[k \in 0 .. Cardinality(Node)] ==
        IF k = 0 THEN next[Entry]
        ELSE IF at[k - 1] \in Node THEN next[at[k - 1]] ELSE NULL
      reached == {k \in 0 .. Cardinality(Node) - 1 : at[k] \in Node}
  IN [k \in 1 .. Cardinality(reached) |-> at[k - 1]]

Listed == {Chain[i] : i \in DOMAIN Chain}

(* What an iterator stands before, and the one that stands after all items.*)
ItemAt(link) == next[link]

End == FExtry

(* Two iterators are equal when their links hold the same.                 *)
AtEnd(link) == ItemAt(link) = ItemAt(End)

Counted(k) ==
  /\ FCount + k \in -MaxCount .. MaxCount
  /\ FCount' = FCount + k

LinkFrontKeepsTail(n) ==
  /\ FExtry' = FExtry
  /\ next' = [next EXCEPT ![n] = next[Entry], ![Entry] = n]
  /\ Counted(1)

(* PushFront and PushBack of an item.                                      *)
LinkFront(n) ==
  /\ FExtry' = IF next[Entry] = NULL THEN n ELSE FExtry
  /\ next' = [next EXCEPT ![n] = next[Entry], ![Entry] = n]
  /\ Counted(1)

LinkBack(n) ==
  /\ next' = [next EXCEPT ![n] = NULL, ![FExtry] = n]
  /\ FExtry' = n
  /\ Counted(1)

(* Pop takes the first item out.                                           *)
UnlinkFirst ==
  /\ next' = [next EXCEPT ![Entry] = next[next[Entry]]]
  /\ FExtry' = IF next[next[Entry]] = NULL THEN Entry ELSE FExtry

UnlinkKeepsTail(link) ==
  /\ next' = [next EXCEPT ![link] = next[next[link]]]
  /\ FExtry' = IF next'[Entry] = NULL THEN Entry ELSE FExtry

(* Extract takes out the item the iterator stands before.                  *)
UnlinkAt(link) ==
  /\ next' = [next EXCEPT ![link] = next[next[link]]]
  /\ FExtry' = IF next'[Entry] = NULL THEN Entry
               ELSE IF FExtry = next[link] THEN link ELSE FExtry

-----------------------------------------------------------------------------
(* The operations.                                                         *)

Allocate(n, v) ==
  /\ n \notin allocated
  /\ allocated' = allocated \cup {n}
  /\ held' = held \cup {n}
  /\ element' = [element EXCEPT ![n] = v]
  /\ UNCHANGED <<next, FExtry, FCount, it>>

Release(n) ==
  /\ n \in held
  /\ allocated' = allocated \ {n}
  /\ held' = held \ {n}
  /\ next' = [next EXCEPT ![n] = Junk]
  /\ element' = [element EXCEPT ![n] = Junk]
  /\ UNCHANGED <<FExtry, FCount, it>>

PushItem(n) ==
  /\ n \in held
  /\ held' = held \ {n}
  /\ LinkFront(n) \/ LinkBack(n)
  /\ UNCHANGED <<element, allocated, it>>

(* PushFront and PushBack of a value allocate the item.                    *)
PushValue(n, v) ==
  /\ n \notin allocated
  /\ allocated' = allocated \cup {n}
  /\ element' = [element EXCEPT ![n] = v]
  /\ LinkFront(n) \/ LinkBack(n)
  /\ UNCHANGED <<held, it>>

(* A client does not take an item off the front that its iterator stands   *)
(* behind.                                                                 *)
MayPop == next[Entry] # NULL /\ next[Entry] # it

PopItem ==
  /\ MayPop
  /\ UnlinkFirst
  /\ held' = held \cup {next[Entry]}
  /\ Counted(-1)
  /\ UNCHANGED <<element, allocated, it>>

(* Pop(ref) counts twice: in the Pop it calls, and itself.                 *)
PopValue ==
  /\ MayPop
  /\ LET n == next[Entry]
     IN /\ next' = [next EXCEPT ![Entry] = next[n], ![n] = Junk]
        /\ FExtry' = IF next[n] = NULL THEN Entry ELSE FExtry
        /\ element' = [element EXCEPT ![n] = Junk]
        /\ allocated' = allocated \ {n}
  /\ Counted(-2)
  /\ UNCHANGED <<held, it>>

(* Clear pops and releases until the list is empty.                        *)
ClearList ==
  /\ it \notin Listed
  /\ next' = [k \in Link |-> IF k = Entry THEN NULL ELSE IF k \in Listed THEN Junk ELSE next[k]]
  /\ FExtry' = IF Listed = {} THEN FExtry ELSE Entry
  /\ element' = [n \in Node |-> IF n \in Listed THEN Junk ELSE element[n]]
  /\ allocated' = allocated \ Listed
  /\ Counted(-Len(Chain))
  /\ UNCHANGED <<held, it>>

Begin ==
  /\ it' = Entry
  /\ UNCHANGED <<next, element, allocated, held, FExtry, FCount>>

(* it++ moves to the link of the item it stood before.                     *)
Advance ==
  /\ it # NULL /\ ~ AtEnd(it)
  /\ it' = ItemAt(it)
  /\ UNCHANGED <<next, element, allocated, held, FExtry, FCount>>

ExtractMovesOn ==
  /\ it # NULL /\ ~ AtEnd(it)
  /\ UnlinkAt(it)
  /\ held' = held \cup {ItemAt(it)}
  /\ it' = ItemAt(it)
  /\ UNCHANGED <<element, allocated, FCount>>

(* Extract leaves the iterator where it is, before the next item, and does *)
(* not count.                                                              *)
Extract ==
  /\ it # NULL /\ ~ AtEnd(it)
  /\ UnlinkAt(it)
  /\ held' = held \cup {ItemAt(it)}
  /\ UNCHANGED <<element, allocated, FCount, it>>

ListNext ==
  \/ \E n \in Node, v \in Value : Allocate(n, v) \/ PushValue(n, v)
  \/ \E n \in Node : Release(n) \/ PushItem(n)
  \/ PopItem \/ PopValue \/ ClearList
  \/ Begin \/ Advance \/ Extract

ListSpec == ListInit /\ [][ListNext]_listVars

-----------------------------------------------------------------------------
(* Whatever clients push, pop, extract and put back, and wherever their    *)
(* iterator stands meanwhile, the list is the sequence of the values in    *)
(* it: no item is lost behind FExtry, none appears twice                   *)
(* (include/hc_list.h:135-225).                                            *)
Values == [i \in DOMAIN Chain |-> element[Chain[i]]]

List == INSTANCE ValueList WITH values <- Values

ImplementsList == List!Spec

(* An item is in the list or in a client's hands and not in both, and none *)
(* is forgotten: who pops or extracts an item must release it              *)
(* (include/hc_list.h:170), and can.                                       *)
Accounted == allocated = Listed \cup held /\ Listed \cap held = {}

(* An iterator survives every push and its own Extract: it stands on a     *)
(* link of the list (include/hc_list.h:27-92, 209-225).                    *)
IteratorInList == it \in Listed \cup {Entry, NULL}
=============================================================================
