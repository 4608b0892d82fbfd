------------------------------ MODULE Firewall ------------------------------
(* firewall.rs: the chains of the table inet coffeeblack. Every nft call is a *)
(* step of its own; what a peer's packet meets is computed from the chains.   *)
(* The table itself belongs to the interface's hooks, which delete it.        *)
EXTENDS Naturals

CONSTANTS
    FwHandlers,     \* requests in flight that rebuild the rules
    FwPeers,
    FwEvents,       \* bound: requests
    FwFaults        \* bound: nft calls that fail

VARIABLES
    fwMode,         \* [helper, ipv6]: nft runs behind the privileged helper; IPv6 is not disabled
    fwRow,          \* the interface row: firewall, lockdown (with a target), its family, block, port
    fwPeer,         \* peer -> enabled, and the families of the one site opened to it
    fwUp,           \* the interface is up
    fwNft,          \* the table: its chains, the jumps out of `forward` and the last handle given to one
    fwLegacy,       \* the rules mirrored into xt_tables
    fwTask, fwLeft,
    fwExcused       \* history: since the last rebuild began, a call failed or two requests overlapped

rowVars == <<fwMode, fwRow, fwPeer>>
vars == <<rowVars, fwUp, fwNft, fwLegacy, fwTask, fwLeft, fwExcused>>

Families == {"v4", "v6"}
Absent == [there |-> FALSE]
Chain(rules) == [there |-> TRUE, rules |-> rules]
\* POST_UP_TEMPLATE, POST_DOWN_TEMPLATE
NoTable == [table |-> FALSE, handle |-> 0, jumps |-> {}, peers |-> Absent, filter |-> Absent, nat |-> Absent]
HookTable == [NoTable EXCEPT !.table = TRUE, !.peers = Chain({})]

Idle == [pc |-> "idle"]
Busy == {h \in FwHandlers : fwTask[h] # Idle}
Goto(h, pc) == fwTask' = [fwTask EXCEPT ![h].pc = pc]

Init ==
    /\ fwMode \in [helper : BOOLEAN, ipv6 : BOOLEAN]
    /\ fwRow = [firewall |-> FALSE, lockdown |-> FALSE, target |-> "v4", block |-> FALSE, port |-> "51820"]
    /\ fwPeer = [p \in FwPeers |-> [enabled |-> TRUE, opens |-> {"v4"}]]
    /\ fwUp \in BOOLEAN /\ fwLegacy = {}
    /\ fwNft = IF fwUp THEN HookTable ELSE NoTable
    /\ fwTask = [h \in FwHandlers |-> Idle]
    /\ fwLeft = [event |-> FwEvents, fault |-> FwFaults]
    /\ fwExcused = FALSE

-----------------------------------------------------------------------------
(* nft and nft_apply: a transaction is applied whole or not at all *)

Fails == fwLeft.fault > 0 /\ fwLeft' = [fwLeft EXCEPT !.fault = @ - 1] /\ fwExcused' = TRUE

\* The jumps to add are those the listing does not show, the ones to delete those it does; with
\* none of them nft is not called.
Missing(h, chains) == {to \in chains : \A j \in fwTask[h].listing : j.to # to}
Listed(h, chains) == {j \in fwTask[h].listing : j.to \in chains}
Called(h) ==
    /\ fwTask[h].pc = "jump" => Missing(h, {"in", "out"}) # {}
    /\ fwTask[h].pc = "dnsJump" => Missing(h, {"dns"}) # {}
    /\ fwTask[h].pc = "unjump" => Listed(h, {"in", "out"}) # {}
    /\ fwTask[h].pc = "dnsUnjump" => Listed(h, {"dns"}) # {}

\* A call whose error is returned ends the rebuild; `possible` is what nft itself demands.
Apply(h, at, possible, after, next) ==
    /\ fwTask[h].pc = at
    /\ \/ possible /\ fwNft' = after /\ Goto(h, next) /\ UNCHANGED <<fwLeft, fwExcused>>
       \/ ~possible /\ fwTask' = [fwTask EXCEPT ![h] = Idle] /\ fwExcused' = TRUE /\ UNCHANGED <<fwNft, fwLeft>>
       \/ Called(h) /\ Fails /\ fwTask' = [fwTask EXCEPT ![h] = Idle] /\ UNCHANGED fwNft
    /\ UNCHANGED <<rowVars, fwUp, fwLegacy>>
\* A call whose error is swallowed.
Try(h, at, possible, after, next) ==
    /\ fwTask[h].pc = at /\ Goto(h, next)
    /\ \/ fwNft' = (IF possible THEN after ELSE fwNft) /\ UNCHANGED <<fwLeft, fwExcused>>
       \/ Called(h) /\ Fails /\ UNCHANGED fwNft
    /\ UNCHANGED <<rowVars, fwUp, fwLegacy>>
\* The listing of `forward`: the helper lists another table, which does not exist, and an error
\* is an empty listing.
List(h, at, next) ==
    /\ fwTask[h].pc = at
    /\ \/ fwTask' = [fwTask EXCEPT ![h].pc = next,
                                   ![h].listing = IF fwMode.helper \/ ~fwNft.table THEN {} ELSE fwNft.jumps]
          /\ UNCHANGED <<fwLeft, fwExcused>>
       \/ Fails /\ fwTask' = [fwTask EXCEPT ![h].pc = next, ![h].listing = {}]
    /\ UNCHANGED <<rowVars, fwUp, fwNft, fwLegacy>>

\* `forward` meets its rules in the order of the handles.
WithJumps(h, chains) ==
    LET place(to) == fwNft.handle + (IF to = "out" THEN 2 ELSE 1)
    IN  IF Missing(h, chains) = {} THEN fwNft
        ELSE [fwNft EXCEPT !.handle = @ + 2,
                           !.jumps = @ \cup {[to |-> to, handle |-> place(to)] : to \in Missing(h, chains)}]
\* By handle, all that were listed or, when one is gone, none.
WithoutListed(h, chains) == [fwNft EXCEPT !.jumps = @ \ Listed(h, chains)]
AddedChain(c) == IF c.there THEN c ELSE Chain({})

-----------------------------------------------------------------------------
(* rebuild_dns_lockdown *)

Locked(row) == row.lockdown
Refused(row) == Locked(row) /\ row.target = "v6" /\ ~fwMode.ipv6
Other(family) == CHOOSE f \in Families : f # family

\* dns_filter_rules accept what goes to the target and drop the rest; dns_leak_guard_rules drop
\* the family that cannot be redirected.
FilterRules(row) ==
    IF row.block THEN {<<"target", row.target, "accept">>} \cup {<<"dns", f, "drop">> : f \in Families}
    ELSE {<<"dns", Other(row.target), "drop">>}

RebuildDnsLockdown(h) ==
    /\ fwTask[h].pc = "lockdown"
    /\ IF Refused(fwTask[h].row) THEN fwTask' = [fwTask EXCEPT ![h] = Idle] /\ fwExcused' = TRUE
       ELSE Goto(h, IF Locked(fwTask[h].row) THEN "dnsChains" ELSE "dnsList") /\ UNCHANGED fwExcused
    /\ UNCHANGED <<rowVars, fwUp, fwNft, fwLegacy, fwLeft>>

EnsureDnsChains(h) ==
    \/ Apply(h, "dnsChains", TRUE,
             [fwNft EXCEPT !.table = TRUE, !.nat = AddedChain(@), !.filter = AddedChain(@)], "dnsLook")
    \/ List(h, "dnsLook", "dnsJump")
    \/ Apply(h, "dnsJump", fwNft.filter.there \/ Missing(h, {"dns"}) = {}, WithJumps(h, {"dns"}), "dnsRules")
DnsRules(h) ==
    Apply(h, "dnsRules", fwNft.nat.there /\ fwNft.filter.there,
          [fwNft EXCEPT !.nat = Chain({fwTask[h].row.target}), !.filter = Chain(FilterRules(fwTask[h].row))],
          "filtering")

\* A chain that is still jumped to cannot be deleted, and its flush goes with it.
RemoveDnsLockdown(h) ==
    \/ List(h, "dnsList", "dnsUnjump")
    \/ Try(h, "dnsUnjump", Listed(h, {"dns"}) \subseteq fwNft.jumps, WithoutListed(h, {"dns"}), "dnsFilterGone")
    \/ Try(h, "dnsFilterGone", \A j \in fwNft.jumps : j.to # "dns", [fwNft EXCEPT !.filter = Absent], "dnsNatGone")
    \/ Try(h, "dnsNatGone", TRUE, [fwNft EXCEPT !.nat = Absent], "filtering")

-----------------------------------------------------------------------------
(* The peers' chain *)

\* append_client_rules, gen_rules: a peer's source and an opened destination, in that direction.
\* A v6 destination is left out when IPv6 is disabled.
AppendClientRules(p) ==
    {<<p, f, "accept">> : f \in {g \in fwPeer[p].opens : g = "v4" \/ fwMode.ipv6}}
\* Mutant: the rules of disabled peers are rendered too.
EveryPeersRules == UNION {AppendClientRules(p) : p \in FwPeers}
ClientRules == UNION {AppendClientRules(p) : p \in {q \in FwPeers : fwPeer[q].enabled}}

Filtering(h) ==
    /\ fwTask[h].pc = "filtering"
    /\ Goto(h, IF fwTask[h].row.firewall THEN "initChain" ELSE "flush")
    /\ UNCHANGED <<rowVars, fwUp, fwNft, fwLegacy, fwLeft, fwExcused>>

InitChain(h) ==
    \/ Apply(h, "initChain", TRUE, [fwNft EXCEPT !.table = TRUE, !.peers = AddedChain(@)], "look")
    \/ List(h, "look", "jump")
    \/ Apply(h, "jump", fwNft.peers.there \/ Missing(h, {"in", "out"}) = {}, WithJumps(h, {"in", "out"}), "rules")
ApplyClientRules(h) ==
    Apply(h, "rules", fwNft.peers.there,
          [fwNft EXCEPT !.peers = Chain(ClientRules \cup {<<"any", "any", "drop">>})], "done")

RemoveFiltering(h) ==
    \/ Apply(h, "flush", fwNft.peers.there, [fwNft EXCEPT !.peers = Chain({})], "list")
    \/ List(h, "list", "unjump")
    \/ Try(h, "unjump", Listed(h, {"in", "out"}) \subseteq fwNft.jumps, WithoutListed(h, {"in", "out"}), "done")

RebuildRules(h) ==
    /\ fwTask[h].pc = "rebuild"
    /\ fwTask' = [fwTask EXCEPT ![h] = [pc |-> "lockdown", row |-> fwRow, listing |-> {}]]
    /\ fwExcused' = (Busy # {h})
    /\ UNCHANGED <<rowVars, fwUp, fwNft, fwLegacy, fwLeft>>
Done(h) ==
    /\ fwTask[h].pc = "done"
    /\ fwTask' = [fwTask EXCEPT ![h] = Idle]
    /\ UNCHANGED <<rowVars, fwUp, fwNft, fwLegacy, fwLeft, fwExcused>>

-----------------------------------------------------------------------------
(* Who rebuilds *)

Request(h, pc) ==
    /\ fwTask[h] = Idle /\ fwLeft.event > 0
    /\ fwLeft' = [fwLeft EXCEPT !.event = @ - 1]
    /\ fwTask' = [fwTask EXCEPT ![h] = [pc |-> pc]]
    /\ fwExcused' = (fwExcused \/ Busy # {})

UpdateInterface(h) ==
    /\ Request(h, "rebuild")
    /\ \E firewall, lockdown, block \in BOOLEAN, target \in Families :
        /\ ~lockdown => target = "v4" /\ ~block
        /\ fwRow' = [fwRow EXCEPT !.firewall = firewall, !.lockdown = lockdown, !.target = target, !.block = block]
    /\ UNCHANGED <<fwMode, fwPeer, fwUp, fwNft, fwLegacy>>
UpdatePort(h) ==
    /\ Request(h, "done") /\ fwRow' = [fwRow EXCEPT !.port = IF @ = "51820" THEN "51821" ELSE "51820"]
    /\ UNCHANGED <<fwMode, fwPeer, fwUp, fwNft, fwLegacy>>
UpdateClient(h) ==
    /\ Request(h, "gate")
    /\ \E p \in FwPeers, enabled \in BOOLEAN, opens \in {{"v4"}, Families} :
        fwPeer' = [fwPeer EXCEPT ![p] = [enabled |-> enabled, opens |-> opens]]
    /\ UNCHANGED <<fwMode, fwRow, fwUp, fwNft, fwLegacy>>
RestartInterface(h) == fwUp /\ Request(h, "down") /\ UNCHANGED <<rowVars, fwUp, fwNft, fwLegacy>>
\* The hooks run when the interface goes down and comes up.
CbDown(h) ==
    /\ fwTask[h].pc = "down" /\ Goto(h, "up")
    /\ fwUp' = FALSE /\ fwNft' = IF fwUp THEN NoTable ELSE fwNft
    /\ UNCHANGED <<rowVars, fwLegacy, fwLeft, fwExcused>>
CbUp(h) ==
    /\ fwTask[h].pc = "up" /\ Goto(h, "gate")
    /\ fwUp' = TRUE
    /\ fwNft' = IF fwUp THEN fwNft ELSE [fwNft EXCEPT !.table = TRUE, !.peers = AddedChain(@)]
    /\ UNCHANGED <<rowVars, fwLegacy, fwLeft, fwExcused>>
Gate(h) ==
    /\ fwTask[h].pc = "gate" /\ Goto(h, IF fwRow.firewall THEN "rebuild" ELSE "done")
    /\ UNCHANGED <<rowVars, fwUp, fwNft, fwLegacy, fwLeft, fwExcused>>

\* A start: wg::startup, then ensure_legacy_compat. The interface outlives the process.
LegacyCompatRuleSet == {"in", "out", fwRow.port}
Boot(h) ==
    /\ Busy = {} /\ Request(h, "down")
    /\ fwLegacy' = fwLegacy \cup LegacyCompatRuleSet
    /\ UNCHANGED <<rowVars, fwUp, fwNft>>
RemoveLegacyCompat ==
    /\ Busy = {} /\ fwLegacy # {}
    /\ fwLegacy' = fwLegacy \ LegacyCompatRuleSet
    /\ UNCHANGED <<rowVars, fwUp, fwNft, fwTask, fwLeft, fwExcused>>

Rebuild(h) ==
    RebuildRules(h) \/ RebuildDnsLockdown(h) \/ EnsureDnsChains(h) \/ DnsRules(h) \/ RemoveDnsLockdown(h)
    \/ Filtering(h) \/ InitChain(h) \/ ApplyClientRules(h) \/ RemoveFiltering(h) \/ Done(h)

Next ==
    \/ \E h \in FwHandlers :
        Rebuild(h) \/ UpdateInterface(h) \/ UpdatePort(h) \/ UpdateClient(h) \/ RestartInterface(h)
        \/ CbDown(h) \/ CbUp(h) \/ Gate(h) \/ Boot(h)
    \/ RemoveLegacyCompat

Spec == Init /\ [][Next]_vars

-----------------------------------------------------------------------------
(* A packet through `forward`: the first chain that decides it, else the policy accepts *)

\* What a chain says of a packet: of a peer, to or from a site, perhaps a DNS query for elsewhere.
Says(jump, k) ==
    CASE jump = "dns" ->
            IF k.way = "in" /\ k.dns /\ k.to = "target" /\ <<"target", k.family, "accept">> \in fwNft.filter.rules
            THEN "accept"
            ELSE IF k.way = "in" /\ k.dns /\ <<"dns", k.family, "drop">> \in fwNft.filter.rules THEN "drop" ELSE "return"
      [] jump = k.way ->
            IF k.way = "in" /\ k.to = "site" /\ <<k.peer, k.family, "accept">> \in fwNft.peers.rules THEN "accept"
            ELSE IF <<"any", "any", "drop">> \in fwNft.peers.rules THEN "drop" ELSE "return"
      [] OTHER -> "return"
\* dns-prerouting rewrites the destination first.
Redirected(k) == IF k.dns /\ fwNft.nat.there /\ k.family \in fwNft.nat.rules THEN [k EXCEPT !.to = "target"] ELSE k
Accepted(packet) ==
    LET k == Redirected(packet) IN
    \A j \in fwNft.jumps : Says(j.to, k) = "drop" =>
        \E i \in fwNft.jumps : i.handle < j.handle /\ Says(i.to, k) = "accept"

Packet(p, family, way, to, dns) == [peer |-> p, family |-> family, way |-> way, to |-> to, dns |-> dns]
Quiet == Busy = {} /\ fwUp /\ ~fwExcused

\* Whatever sequence of changes, restarts and failed calls came before, once the last rebuild is
\* done a peer reaches what is opened to it and nothing else; with the firewall off, everything.
PeersAreConfined ==
    Quiet => \A p \in FwPeers, f \in Families, to \in {"site", "elsewhere"} :
        Accepted(Packet(p, f, "in", to, FALSE)) <=>
            \/ ~fwRow.firewall
            \/ to = "site" /\ fwPeer[p].enabled /\ <<p, f, "accept">> \in AppendClientRules(p)

\* Under DNS lockdown no query of a peer leaves for anywhere but the target, whatever the firewall
\* setting (the comment of rebuild_rules).
LockdownHolds ==
    Quiet /\ Locked(fwRow) => \A p \in FwPeers, f \in Families, dns \in {"site", "elsewhere"} :
        LET k == Packet(p, f, "in", dns, TRUE) IN Redirected(k).to = "target" \/ ~Accepted(k)
=============================================================================
