----------------------------- MODULE Observable ----------------------------
(***************************************************************************)
(* TObservable (include/hc_observer.h) on its TList: Notify walks the list *)
(* and calls Update of each observer, which may add and delete observers.  *)
(* Everything happens in one thread; what interleaves is the loop and the  *)
(* calls that Update makes back.                                           *)
(*                                                                         *)
(* The variables of LinkedList are those of FObservers, whose values are   *)
(* the observers; it is Notify's iterator, NULL outside Notify.  No item   *)
(* is ever held: DeleteObserver drops what Extract returns.                *)
(***************************************************************************)
EXTENDS LinkedList

CONSTANT SelfDelete   \* may Update delete the very registration it is called for?

ASSUME ObservableAssumption == SelfDelete \in BOOLEAN

VARIABLES
  current,    \* the item whose Update runs, NULL between two of them
  told,       \* the items whose observers this Notify has updated
  owed        \* the items there when it began, except those deleted since

list == <<next, element, allocated, held, FExtry, FCount>>
observableVars == <<list, it, current, told, owed>>

Observer == Value

ObservableTypeOK ==
  /\ ListTypeOK \/ it = Junk
  /\ current \in Node \cup {NULL}
  /\ told \subseteq Node
  /\ owed \subseteq Node

ObservableInit ==
  /\ ListInit
  /\ current = NULL
  /\ told = {}
  /\ owed = {}

-----------------------------------------------------------------------------
(* The application calls between notifications, observers from Update.     *)
MayCall == it = NULL \/ current # NULL

AddObserver(n, o) ==
  /\ MayCall
  /\ n \notin allocated
  /\ allocated' = allocated \cup {n}
  /\ element' = [element EXCEPT ![n] = o]
  /\ LinkBack(n)
  /\ UNCHANGED <<held, it, current, told, owed>>

(* The link that leads to the observer's first item.                       *)
Holds(o) == {i \in DOMAIN Chain : element[Chain[i]] = o}
First(o) == CHOOSE i \in Holds(o) : \A j \in Holds(o) : i <= j
LinkTo(i) == IF i = 1 THEN Entry ELSE Chain[i - 1]

DeleteReleases(o) ==
  /\ MayCall /\ Holds(o) # {}
  /\ LET n == Chain[First(o)]
         link == LinkTo(First(o))
     IN /\ SelfDelete \/ n # current
        /\ next' = [next EXCEPT ![link] = next[n], ![n] = Junk]
        /\ FExtry' = IF FExtry = n THEN link ELSE FExtry
        /\ allocated' = allocated \ {n}
        /\ owed' = owed \ {n}
  /\ UNCHANGED <<element, held, FCount, it, current, told>>

(* DeleteObserver extracts the item and does not release it.               *)
DeleteObserver(o) ==
  /\ MayCall /\ Holds(o) # {}
  /\ LET n == Chain[First(o)]
     IN /\ SelfDelete \/ n # current
        /\ UnlinkAt(LinkTo(First(o)))
        /\ owed' = owed \ {n}
  /\ UNCHANGED <<element, allocated, held, FCount, it, current, told>>

Notify ==
  /\ it = NULL
  /\ IF next[Entry] = NULL
       THEN UNCHANGED <<it, told, owed>>
       ELSE it' = Entry /\ told' = {} /\ owed' = Listed
  /\ UNCHANGED <<list, current>>

(* The loop's test and its call.                                           *)
Update ==
  /\ it \in Link /\ current = NULL /\ ~ AtEnd(it)
  /\ current' = ItemAt(it)
  /\ told' = told \cup {ItemAt(it)}
  /\ UNCHANGED <<list, it, owed>>

UpdateReturnsToStart ==
  /\ current # NULL
  /\ it' = Entry
  /\ current' = NULL
  /\ UNCHANGED <<list, told, owed>>

(* it++ once Update has returned.  Where the link holds no item the result *)
(* is no address of a link.                                                *)
UpdateReturns ==
  /\ current # NULL
  /\ it' = IF ItemAt(it) \in Node THEN ItemAt(it) ELSE Junk
  /\ current' = NULL
  /\ UNCHANGED <<list, told, owed>>

NotifyEnds ==
  /\ it \in Link /\ current = NULL /\ AtEnd(it)
  /\ it' = NULL
  /\ UNCHANGED <<list, current, told, owed>>

ObservableNext ==
  \/ \E n \in Node, o \in Observer : AddObserver(n, o)
  \/ \E o \in Observer : DeleteObserver(o)
  \/ Notify \/ Update \/ UpdateReturns \/ NotifyEnds

ObservableSpec == ObservableInit /\ [][ObservableNext]_observableVars

-----------------------------------------------------------------------------
(* As long as no Update deletes its own registration, the link on which    *)
(* Notify stands goes on to lead to the item it is at, although that link  *)
(* may belong to an item that has been deleted meanwhile: DeleteObserver   *)
(* never releases it (include/hc_observer.h:30-42, 50-52).                 *)
NotifySafe ==
  /\ it # Junk
  /\ current # NULL => next[it] = current

(* Each is updated exactly once: none twice for one registration, none     *)
(* once deleted, and when Notify ends none is left that was registered all *)
(* the while (include/hc_observer.h:45-53).                                *)
ToldOnce ==
  [][/\ current = NULL /\ current' # NULL => current' \in Listed \ told
     /\ it # NULL /\ it' = NULL => owed \subseteq told]_observableVars
=============================================================================
