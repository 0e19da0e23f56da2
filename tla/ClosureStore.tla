---------------------------- MODULE ClosureStore ----------------------------
(***************************************************************************)
(* What closures promise, without slots, cells or frames: a variable that  *)
(* a closure captured is one location that holds one value for as long as  *)
(* the program runs, whoever reads or writes it, whether the function it   *)
(* belongs to still runs or not.  The machine implements this with slots   *)
(* of Vm::locals that become Upvalue cells when their function returns     *)
(* (vm/mod.rs); SharedVariables gives the mapping.                         *)
(*                                                                         *)
(* The module is an interface: request is what the running function asks   *)
(* of the store next, and any request may follow any other.                *)
(***************************************************************************)
EXTENDS Integers, Sequences

VARIABLES
  store,    (* the value of every captured variable that has one           *)
  owners,   (* for every running function the captured variables it owns   *)
  request,  (* the next access: its kind, the variable, the value          *)
  answer    (* the value the last access delivered                         *)

vars == <<store, owners, request, answer>>

Accesses(c) == request.to = {c}

Owned == UNION {owners[i] : i \in DOMAIN owners}

(* What the machine starts with: one function, which has captured nothing. *)
Init == store = << >> /\ owners = << {} >>

Read ==
  /\ request.kind = "read"
  /\ \E c \in DOMAIN store : Accesses(c) /\ answer' = store[c]
  /\ UNCHANGED <<store, owners>>

(* The first write of a variable that was captured before it had a value   *)
(* adds it to the store.                                                   *)
Write ==
  /\ request.kind = "write"
  /\ \E c \in request.to :
       /\ Accesses(c)
       /\ store' = [d \in DOMAIN store \cup {c} |-> IF d = c THEN request.value
                                                            ELSE store[d]]
  /\ answer' = request.value
  /\ UNCHANGED owners

(* An element of a tuple is replaced: of a tuple that one variable holds,  *)
(* or that none does.                                                      *)
Amend ==
  /\ request.kind = "amend"
  /\ DOMAIN store' = DOMAIN store
  /\ \A c, d \in DOMAIN store :
       store'[c] # store[c] /\ store'[d] # store[d] => c = d
  /\ UNCHANGED owners

(* A closure is made: variables of running functions that none had         *)
(* captured join the store, each with one owner.                           *)
Capture ==
  /\ request.kind = "capture"
  /\ Len(owners') = Len(owners)
  /\ \A i \in DOMAIN owners : owners[i] \subseteq owners'[i]
  /\ \A i \in DOMAIN owners : (owners'[i] \ owners[i]) \cap (DOMAIN store \cup Owned) = {}
  /\ \A i, j \in DOMAIN owners : i # j => owners'[i] \cap owners'[j] = {}
  /\ DOMAIN store \subseteq DOMAIN store'
  /\ DOMAIN store' \ DOMAIN store \subseteq Owned' \ Owned
  /\ \A c \in DOMAIN store : store'[c] = store[c]

Enter ==
  /\ request.kind = "other"
  /\ owners' = Append(owners, {})
  /\ UNCHANGED store

(* Functions end, one by returning or several by failing: what they own    *)
(* goes on without an owner.                                               *)
Leave ==
  /\ request.kind = "other"
  /\ \E n \in 0 .. Len(owners) - 1 : owners' = SubSeq(owners, 1, n)
  /\ UNCHANGED store

(* Whatever else the machine does.                                         *)
Other == request.kind = "other" /\ UNCHANGED <<store, owners>>

Next == Read \/ Write \/ Amend \/ Capture \/ Enter \/ Leave \/ Other

Spec == Init /\ [][Next]_vars
=============================================================================
