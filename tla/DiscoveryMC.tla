----------------------------- MODULE DiscoveryMC -----------------------------
(* Discovery on a device with any list of capabilities in one place, on any two devices of
   some kinds, and with any request on two devices that are alike. *)
EXTENDS Discovery

Lists(ids) ==
  [head : Addrs \cup {Null}, id : [Addrs -> ids], next : [Addrs -> Addrs \cup {Null}]]

\* Lists with a capability at the second place, and with none.
With(id) == [head |-> 1, id |-> [a \in Addrs |-> IF a = 2 THEN id ELSE "other"],
             next |-> [a \in Addrs |-> IF a = 1 THEN 2 ELSE Null]]
Without == [With("other") EXCEPT !.next[2] = 1]

GoodPort == [caps |-> With("EXP"), ext |-> With("LMR"), speed |-> "16G"]
Good == [ids |-> TRUE, bdf |-> "b1", first |-> TRUE, type |-> "endpoint", usp |-> GoodPort,
         dsp |-> {[GoodPort EXCEPT !.speed = "32G"]}]

Kinds ==
  {Good, [Good EXCEPT !.type = "upstream"], [Good EXCEPT !.type = "root"],
   [Good EXCEPT !.ids = FALSE], [Good EXCEPT !.first = FALSE],
   [Good EXCEPT !.usp.caps = Without], [Good EXCEPT !.dsp = {}],
   [Good EXCEPT !.usp.speed = "8G"],
   [Good EXCEPT !.dsp = {[GoodPort EXCEPT !.speed = "64G"]}],
   [Good EXCEPT !.dsp = {[GoodPort EXCEPT !.caps = Without]}],
   [Good EXCEPT !.dsp = {[GoodPort EXCEPT !.ext = Without]}],
   [Good EXCEPT !.usp.ext = Without]}

All == [spec |-> {}, bus |-> <<>>, bdf |-> <<>>]
Words == Bdfs \cup {Invalid}
Requests ==
  [spec : SUBSET Bdfs, bus : {<<>>} \cup {<<w>> : w \in Words},
   bdf : {<<>>} \cup {<<w>> : w \in Words} \cup {<<v, w>> : v \in Words, w \in Words}]

Machines ==
  {<<>>} \cup {<<[Good EXCEPT !.usp.caps = l]>> : l \in Lists({"EXP", "other"})}
  \cup {<<[Good EXCEPT !.dsp = {[GoodPort EXCEPT !.caps = l]}]>> : l \in Lists({"EXP", "other"})}
  \cup {<<[Good EXCEPT !.usp.ext = [l EXCEPT !.head = 1]]>> :
          l \in Lists({"LMR", "LMR alias", "other"})}
  \cup {<<d, [e EXCEPT !.bdf = "b2"]>> : d \in Kinds, e \in Kinds}

MCSetups ==
  [tool : Tools, devs : Machines, request : {All}]
  \cup [tool : Tools, devs : {<<Good, [Good EXCEPT !.bdf = "b2"]>>}, request : Requests]
=============================================================================
