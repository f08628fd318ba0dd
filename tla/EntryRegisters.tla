--------------------------- MODULE EntryRegisters ---------------------------
(***************************************************************************)
(* What data.json promises the writers of package entries: every entry is  *)
(* a register of its own, and a save adds to what the entry holds now.     *)
(***************************************************************************)
CONSTANTS Namespaces, Saves, None

VARIABLE entries  \* None, or the saves an entry is made of

Init == entries \in [Namespaces -> (SUBSET Saves) \cup {None}]

Insert(n, s) ==
    /\ entries[n] = None
    /\ entries' = [entries EXCEPT ![n] = {s}]

Save(n, s) ==
    /\ entries[n] # None
    /\ s \notin entries[n]
    /\ entries' = [entries EXCEPT ![n] = @ \cup {s}]

Remove(n) ==
    /\ entries[n] # None
    /\ entries' = [entries EXCEPT ![n] = None]

Next ==
    \E n \in Namespaces :
        Remove(n) \/ \E s \in Saves : Insert(n, s) \/ Save(n, s)

Spec == Init /\ [][Next]_entries

=============================================================================
