--------------------------- MODULE DeviceBinding ----------------------------
(***************************************************************************)
(* The device half of the boot sequence (kernel/boulder/src/main.rs): the  *)
(* census of PCI functions (drivers/device_census.rs), the claims on the   *)
(* xHCI and display functions, the retained xHCI controllers               *)
(* (drivers/xhci.rs), the DriverNet resolution of the displays, the        *)
(* publication of both censuses and their reconciliation before PID 1.     *)
(*                                                                         *)
(* Sealed roots are modelled as tuples: two roots are equal exactly when   *)
(* the same function sealed the same things.  A takeover (XhciTakeover)    *)
(* and a DMA epoch (XhciDmaEpoch) contribute their possible outcomes.      *)
(***************************************************************************)
EXTENDS DriverNet

CONSTANTS
    Hosts,                  \* xHCI functions of the PCI inventory
    Others,                 \* functions of no claimed family
    MaximumControllers,     \* MAXIMUM_XHCI_CONTROLLERS
    MaximumDisplays         \* MAXIMUM_DISPLAY_CLAIMS

VARIABLES
    boot,           \* where the boot sequence is
    todo,           \* claims the current loop has not reached
    census,         \* DeviceCensus.slots by address
    xhci            \* XhciProbeCensus: the retained controllers by address

bindingVars == <<boot, todo, census, xhci>>
vars == <<netVars, bindingVars>>

DisplaySet == ToSet(Displays)
Functions == Hosts \cup DisplaySet \cup Others

NoRoot == <<>>

Init ==
    /\ NetInit
    /\ boot = "claim_displays" /\ todo = {}
    /\ census = [f \in Functions |-> [state |-> "Detected", driver |-> "", root |-> NoRoot]]
    /\ xhci = <<>>

Halt == boot' = "halted" /\ UNCHANGED <<todo, census, xhci>>

-----------------------------------------------------------------------------
(* The census                                                              *)

\* validate_claim; the manifests of main.rs ask for no more than the ceilings of
\* their families allow.
Claimable(f) == census[f].state = "Detected"

\* claim_family: every matching slot, or none when one of them is not free or
\* there are more than the claim set holds.
ClaimFamily(family, driver, capacity, next) ==
    IF Cardinality(family) > capacity \/ \E f \in family : ~Claimable(f)
    THEN Halt
    ELSE /\ census' = [f \in Functions |->
                         IF f \in family THEN [census[f] EXCEPT !.state = "Claimed", !.driver = driver]
                         ELSE census[f]]
         /\ boot' = next
         /\ todo' = family
         /\ UNCHANGED xhci

\* commit, quarantine and defer of a claim: refused unless the slot is still
\* claimed by the claim's driver and the root is not zero.
Settle(f, driver, state, root) ==
    /\ census[f].state = "Claimed" /\ census[f].driver = driver /\ root # NoRoot
    /\ census' = [census EXCEPT ![f].state = state, ![f].root = root]

ClaimDisplays ==
    /\ boot = "claim_displays"
    /\ ClaimFamily(DisplaySet, "drivernet", MaximumDisplays, "claim_hosts")
    /\ UNCHANGED netVars

ClaimHosts ==
    /\ boot = "claim_hosts"
    /\ ClaimFamily(Hosts, "xhci", MaximumControllers, "hosts")
    /\ UNCHANGED netVars

-----------------------------------------------------------------------------
(* xHCI controllers                                                        *)

\* insert_snapshot: refused for a known address and beyond the capacity.
Insert(h, kind) ==
    /\ h \notin DOMAIN xhci /\ Cardinality(DOMAIN xhci) < MaximumControllers
    /\ xhci' = [f \in DOMAIN xhci \cup {h} |-> IF f = h THEN kind ELSE xhci[f]]

\* boot_xhci_terminal_root.
TerminalRoot(h) ==
    CASE xhci[h] = "ready" -> <<"reset_ready", h>>
      [] xhci[h] = "debt"  -> <<"debt", h>>
      [] xhci[h] = "none"  -> <<"snapshot", h>>

Host(h) == boot = "hosts" /\ h \in todo /\ todo' = todo \ {h} /\ UNCHANGED <<netVars, boot>>

\* probe_bootstrap fails: nothing is retained.
ProbeFails(h) ==
    /\ Host(h)
    /\ Settle(h, "xhci", "Quarantined", <<"containment", h>>)
    /\ UNCHANGED xhci

\* activate_reset_ready fails before it changed the controller.
TakeoverContained(h) ==
    /\ Host(h)
    /\ Insert(h, "none")
    /\ Settle(h, "xhci", "Quarantined", <<"activation", h>>)

\* activate_reset_ready fails after it changed the controller.
TakeoverInDebt(h) ==
    /\ Host(h)
    /\ Insert(h, "debt")
    /\ Settle(h, "xhci", "Quarantined", <<"debt", h>>)

\* Mutant: the controller is retained after the claim was quarantined.
ResetReadyQuarantined(h) ==
    /\ Host(h)
    /\ Insert(h, "ready")
    /\ Settle(h, "xhci", "Quarantined", <<"reset_ready", h>>)

\* The controller is reset-ready; its DMA epoch completed or was not needed.
ResetReady(h) ==
    /\ Host(h)
    /\ Insert(h, "ready")
    /\ Settle(h, "xhci", "Deferred", <<"reset_ready", h>>)

\* A DMA epoch that cannot be completed, or a refused insertion or settlement,
\* stops the machine.
HostHalts ==
    /\ boot = "hosts" /\ todo # {}
    /\ Halt /\ UNCHANGED netVars

\* publish_boot_xhci.
PublishXhci ==
    /\ boot = "hosts" /\ todo = {}
    /\ boot' = "drivernet"
    /\ UNCHANGED <<netVars, todo, census, xhci>>

-----------------------------------------------------------------------------
(* Displays                                                                *)

\* resolve_drivernet.
ResolveDisplays ==
    /\ boot = "drivernet"
    /\ NetNext
    /\ boot' = IF stage' = "resolved" THEN "displays" ELSE boot
    /\ todo' = IF stage' = "resolved" THEN DisplaySet ELSE todo
    /\ UNCHANGED <<census, xhci>>

\* The resolution of a display claim decides it: committed, contained, or, when
\* no fingerprint was made for it, contained with the census root.
BindDisplay(d) ==
    LET found == {i \in DOMAIN results : gpus[i].address = d}
        i     == Min(found)
    IN  /\ boot = "displays" /\ d \in todo
        /\ todo' = todo \ {d}
        /\ IF found = {}
           THEN Settle(d, "drivernet", "Quarantined", <<"census">>)
           ELSE IF results[i].status = "Committed"
           THEN Settle(d, "drivernet", "Operational", <<"resolution", i>>)
           ELSE Settle(d, "drivernet", "Quarantined",
                       IF results[i].status = "Failed" THEN <<"decision", i>>
                       ELSE <<"resolution", i>>)
        /\ UNCHANGED <<netVars, boot, xhci>>

\* publish_boot_census.
PublishCensus ==
    /\ boot = "displays" /\ todo = {}
    /\ boot' = "reconcile" /\ todo' = Hosts
    /\ UNCHANGED <<netVars, census, xhci>>

\* The reconciliation loop: a retained controller must name the root its claim
\* was settled with, a quarantined claim may have none.
Agrees(h) ==
    IF h \in DOMAIN xhci
    THEN census[h].state \in {"Deferred", "Quarantined"} /\ census[h].driver = "xhci"
         /\ TerminalRoot(h) = census[h].root
    ELSE census[h].state = "Quarantined"

Reconcile ==
    /\ boot = "reconcile" /\ todo # {}
    /\ \E h \in todo :
         \/ Agrees(h) /\ todo' = todo \ {h} /\ UNCHANGED boot
         \/ ~Agrees(h) /\ boot' = "diverged" /\ UNCHANGED todo
    /\ UNCHANGED <<netVars, census, xhci>>

\* render_boot_signature of the primary firmware scanout, then PID 1.
EnterPid1 ==
    /\ boot = "reconcile" /\ todo = {}
    /\ boot' = IF primary # 0 /\ results[primary].strategy = "firmware" /\ retained = 0
               THEN "halted" ELSE "pid1"
    /\ UNCHANGED <<netVars, todo, census, xhci>>

Next ==
    \/ ClaimDisplays \/ ClaimHosts
    \/ \E h \in Hosts : ProbeFails(h) \/ TakeoverContained(h) \/ TakeoverInDebt(h) \/ ResetReady(h)
    \/ HostHalts \/ PublishXhci
    \/ ResolveDisplays
    \/ \E d \in DisplaySet : BindDisplay(d)
    \/ PublishCensus \/ Reconcile \/ EnterPid1

Spec == Init /\ [][Next]_vars

-----------------------------------------------------------------------------
(* What holds                                                              *)

\* main.rs from the censuses to PID 1: PID 1 is entered only when every claimed
\* function is settled, a display is operational exactly when DriverNet holds a
\* committed lease for it, a controller is retained as reset-ready exactly when
\* its claim is deferred on that controller's root, a controller the takeover
\* changed is retained with its debt, and no unclaimed function was touched;
\* the scanout is still retained; and a settled claim is never settled again.
BindingsAgree ==
    /\ [](boot = "pid1" =>
            /\ \A f \in Hosts \cup DisplaySet :
                 census[f].state \in {"Operational", "Quarantined", "Deferred"}
            /\ \A f \in Others : census[f].state = "Detected"
            /\ \A d \in DisplaySet :
                 census[d].state = "Operational"
                   <=> \E i \in DOMAIN results :
                         gpus[i].address = d /\ results[i].status = "Committed"
            /\ \A h \in Hosts :
                 /\ census[h].state = "Deferred" <=> h \in DOMAIN xhci /\ xhci[h] = "ready"
                 /\ h \in DOMAIN xhci => TerminalRoot(h) = census[h].root
            /\ primary # 0 /\ results[primary].strategy = "firmware" => retained > 0)
    /\ [][\A f \in Functions :
            census[f].state \notin {"Detected", "Claimed"} => census'[f] = census[f]]_vars

\* main.rs:1868 reports the takeover of a controller nothing was written to as
\* contained and quarantines its claim: the claims of a boot are reconciled.
ContainedClaimsReconcile == boot # "diverged"
=============================================================================
