---------------------------- MODULE LeaseLattice ----------------------------
(***************************************************************************)
(* kernel/boulder/src/lease_lattice.rs: a fixed table of capability leases *)
(* behind one spin lock.  A lease is issued as a root or attenuated from a *)
(* parent; a token names a slot, the generation the slot had and a keyed   *)
(* tag.  The tag is a 32-bit hash, so it is modelled as an arbitrary       *)
(* member of Tags: what holds may not depend on tags being distinct.       *)
(* `grants` is history: what each issue promised, its lineage, and what    *)
(* has been admitted through it or through a lease attenuated from it.     *)
(***************************************************************************)
EXTENDS Integers, Sequences, FiniteSets, FiniteSetsExt

CONSTANTS
    Slots,          \* indices of the records: 0 .. N - 1
    Rights,         \* the single rights, "delegate" among them
    RightSets,      \* the LeaseRights asked for
    Tags,           \* values of seal
    Generations,    \* 2^16: generations are 1 .. Generations - 1, and more of
                    \* them than MaxIssues, so that none comes round again
    MaximumDepth,   \* MAXIMUM_DELEGATION_DEPTH
    Ticks,          \* now_tick
    Expiries,       \* the values of expires_at asked for
    Quotas,         \* quotas asked for
    MaxIssues,      \* bound: how many leases are issued
    RootParent      \* ROOT_PARENT

VARIABLES records, now, grants

vars == <<records, now, grants>>

Empty(generation) ==
    [active |-> FALSE, generation |-> generation, depth |-> 0, rights |-> {},
     parent |-> RootParent, parentGeneration |-> 0, notBefore |-> 0,
     expires |-> 0, quota |-> 0, uses |-> 0, tag |-> 0]

Init ==
    /\ records = [s \in Slots |-> Empty(1)]
    /\ now = 0
    /\ grants = << >>

\* wrapping_add(1).max(1) on a u16
Successor(generation) ==
    IF generation + 1 = Generations THEN 1 ELSE generation + 1

Free == {s \in Slots : ~records[s].active}

\* What a holder of the n-th token presents.
Token(n) == grants[n].token

ValidateTokenWithoutTime(token) ==
    LET record == records[token.slot] IN
    /\ record.active
    /\ record.generation = token.generation
    /\ record.tag = token.tag

ValidateToken(token) ==
    /\ ValidateTokenWithoutTime(token)
    /\ records[token.slot].notBefore <= now
    /\ now <= records[token.slot].expires


\* The parent still is the lease this one was attenuated from.
ParentLive(s) ==
    LET parent == records[records[s].parent] IN
    /\ parent.active
    /\ parent.generation = records[s].parentGeneration

\* validate_ancestry: the walk up to a root, at most MaximumDepth links.
Ancestry[s \in Slots, links \in 0 .. MaximumDepth] ==
    records[s].parent # RootParent =>
        links > 0 /\ ParentLive(s) /\ Ancestry[records[s].parent, links - 1]

ValidateAncestry(s) == Ancestry[s, MaximumDepth]

-----------------------------------------------------------------------------
\* The new record and its token; the caller's other changes are in `others`.
Place(others, slot, fields, lineage) ==
    \E tag \in Tags :
      LET generation == Successor(records[slot].generation)
          record == [fields EXCEPT !.generation = generation, !.tag = tag] IN
      /\ records' = [others EXCEPT ![slot] = record]
      /\ grants' = Append(grants,
             [token |-> [slot |-> slot, generation |-> generation, tag |-> tag],
              rights |-> record.rights, expires |-> record.expires,
              quota |-> record.quota, used |-> 0, revoked |-> FALSE,
              lineage |-> lineage \cup {Len(grants) + 1}])

IssueRoot(rights, notBefore, expires, quota) ==
    /\ Len(grants) < MaxIssues
    /\ expires # 0
    /\ expires > notBefore
    /\ quota # 0
    /\ Free # {}
    /\ Place(records, Min(Free),
             [Empty(1) EXCEPT !.active = TRUE, !.rights = rights,
                              !.notBefore = notBefore, !.expires = expires,
                              !.quota = quota],
             {})
    /\ UNCHANGED now

\* Mutant: the child's quota is not charged to the parent.
ChargeNothing(slot, quota) == records

\* The quota set aside for a child is used up in the parent at once.
ChargeParent(slot, quota) == [records EXCEPT ![slot].uses = @ + quota]

\* The checks of attenuate on what the child asks for.
Attenuates(parent, rights, expires, quota) ==
    /\ "delegate" \in parent.rights
    /\ parent.depth < MaximumDepth
    /\ rights \subseteq parent.rights
    /\ expires <= parent.expires
    /\ expires > now
    /\ quota <= parent.quota - parent.uses

Attenuate(n, rights, expires, quota) ==
    LET slot == Token(n).slot
        parent == records[slot] IN
    /\ Len(grants) < MaxIssues
    /\ quota # 0
    /\ ValidateToken(Token(n))
    /\ ValidateAncestry(slot)
    /\ Attenuates(parent, rights, expires, quota)
    /\ Free # {}
    /\ Place(ChargeParent(slot, quota), Min(Free),
             [Empty(1) EXCEPT !.active = TRUE, !.depth = parent.depth + 1,
                              !.rights = rights, !.parent = slot,
                              !.parentGeneration = parent.generation,
                              !.notBefore = now, !.expires = expires,
                              !.quota = quota],
             grants[n].lineage)
    /\ UNCHANGED now

\* Everything admitted through a lease counts for its whole lineage.
Admit(n, required) ==
    LET slot == Token(n).slot IN
    /\ ValidateToken(Token(n))
    /\ ValidateAncestry(slot)
    /\ required \in records[slot].rights
    /\ records[slot].uses < records[slot].quota
    /\ records' = [records EXCEPT ![slot].uses = @ + 1]
    /\ grants' = [m \in DOMAIN grants |->
                     IF m \in grants[n].lineage
                     THEN [grants[m] EXCEPT !.used = @ + 1]
                     ELSE grants[m]]
    /\ UNCHANGED now

Cleared(generation) == Empty(Successor(generation))

Revoke(n) ==
    LET slot == Token(n).slot IN
    /\ ValidateTokenWithoutTime(Token(n))
    /\ records' = [records EXCEPT ![slot] = Cleared(@.generation)]
    /\ grants' = [grants EXCEPT ![n].revoked = TRUE]
    /\ UNCHANGED now

\* The caller's now_tick is a sample of a counter that only advances.
Tick ==
    /\ now + 1 \in Ticks
    /\ now' = now + 1
    /\ UNCHANGED <<records, grants>>

Next ==
    \/ \E rights \in RightSets, notBefore \in {0, now}, expires \in Expiries, quota \in Quotas :
          IssueRoot(rights, notBefore, expires, quota)
    \/ \E n \in DOMAIN grants, rights \in RightSets, expires \in Expiries, quota \in Quotas :
          Attenuate(n, rights, expires, quota)
    \/ \E n \in DOMAIN grants, required \in Rights : Admit(n, required)
    \/ \E n \in DOMAIN grants : Revoke(n)
    \/ Tick

Spec == Init /\ [][Next]_vars

-----------------------------------------------------------------------------
\* Types: a record's generation never is 0, and no lease uses more than its
\* quota_limit (the comparisons of admit and attenuate).
TypeOK ==
    /\ now \in Ticks
    /\ DOMAIN records = Slots
    /\ \A s \in Slots :
          /\ records[s].generation \in 1 .. Generations - 1
          /\ records[s].uses \in 0 .. records[s].quota
          /\ records[s].depth \in 0 .. MaximumDepth
          /\ records[s].rights \subseteq Rights

\* However a grant is split among delegates, and whatever is revoked and
\* reissued meanwhile, the admissions made through it and everything
\* attenuated from it never exceed the quota it was issued with, and no
\* lease promises a right or a lifetime that some lease above it lacks.
GrantsHonoured ==
    /\ TypeOK
    /\ \A n \in DOMAIN grants :
          /\ grants[n].used <= grants[n].quota
          /\ \A m \in grants[n].lineage :
                /\ grants[n].rights \subseteq grants[m].rights
                /\ grants[n].expires <= grants[m].expires

=============================================================================
