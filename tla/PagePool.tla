------------------------------ MODULE PagePool ------------------------------
(***************************************************************************)
(* What the page allocator promises its callers: each heap control owns a  *)
(* set of blocks, a block is only ever cut from memory that nobody owns,   *)
(* no page is owned twice, and a block goes back as a whole, when its      *)
(* owner says so.  How free memory is kept is left out.                    *)
(***************************************************************************)
EXTENDS Integers

CONSTANTS
  HeapCtrl,  \* the owners
  NPags      \* the pages of the address space

VARIABLES
  mem,       \* the pages given to the pool so far
  own        \* own[hc]: the blocks of hc

vars == <<mem, own>>

Block == {b \in [addr : 0 .. NPags - 1, pags : 1 .. NPags] : b.addr + b.pags <= NPags}
PagsOf(b) == b.addr .. b.addr + b.pags - 1

Unowned(b) ==
  /\ PagsOf(b) \subseteq mem
  /\ \A hc \in HeapCtrl : \A c \in own[hc] : PagsOf(b) \cap PagsOf(c) = {}

Init == mem = {} /\ own = [hc \in HeapCtrl |-> {}]

\* The pool is given more memory, none of which it has already.
Grow ==
  \E b \in Block : /\ mem' = mem \cup PagsOf(b)
                   /\ PagsOf(b) \cap mem = {}
                   /\ UNCHANGED own

Alloc(hc) ==
  \E b \in Block : /\ own' = [own EXCEPT ![hc] = @ \cup {b}]
                   /\ Unowned(b)
                   /\ UNCHANGED mem

\* The new block and the one just above it, which hc owns, become one block.
AllocJoined(hc) ==
  \E c \in own[hc] : \E b \in Block :
    /\ c.addr = b.addr + b.pags
    /\ own' = [own EXCEPT ![hc] = (@ \ {c}) \cup {[b EXCEPT !.pags = @ + c.pags]}]
    /\ Unowned(b)
    /\ UNCHANGED mem

Release(hc) ==
  \E b \in own[hc] : /\ own' = [own EXCEPT ![hc] = @ \ {b}]
                     /\ UNCHANGED mem

Next ==
  \/ Grow
  \/ \E hc \in HeapCtrl : Alloc(hc) \/ AllocJoined(hc) \/ Release(hc)

Spec == Init /\ [][Next]_vars
=============================================================================
