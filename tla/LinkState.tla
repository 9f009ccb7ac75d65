------------------------------ MODULE LinkState ------------------------------
(***************************************************************************)
(* The LinkState object of a GMA interface (link-state.cc): for which      *)
(* reasons each physical link is considered down, and which links are the  *)
(* defaults for high and low priority traffic.  The object is a record;    *)
(* its methods are operators from the record before to the record after.   *)
(*                                                                         *)
(* A link is identified by its connection id, a number whose order is the  *)
(* order of preference and, in the experiments, the order in which links   *)
(* are added.  Interfaces of a single radio fix their default link and     *)
(* have nothing to split; they are not modelled.                           *)
(***************************************************************************)
EXTENDS Integers, FiniteSets, FiniteSetsExt

CONSTANTS Cids,                 \* connection ids of the links of an interface
          PreferLargeCidValue   \* a larger cid is the higher priority

Wifi == 0
Lte  == 11

ASSUME CidsAssumption ==
  /\ Cids \subseteq Nat /\ {Wifi, Lte} \subseteq Cids
  /\ \A c \in Cids : c < 255
  /\ PreferLargeCidValue \in BOOLEAN

Reasons == {"ctrFailed", "lowQuality", "bitmapFailed"}

LinkStates == [ctrFailed : SUBSET Cids, lowQuality : SUBSET Cids,
               bitmapFailed : SUBSET Cids, high : Cids, low : Cids]

\* State once every link was added in ascending order.  AddPhyLink marks each
\* link but the high priority one as failed, before any link is up, so that
\* the defaults are still the initial ones.
AddedLinks == [ctrFailed |-> Cids \ {Lte}, lowQuality |-> {}, bitmapFailed |-> {},
               high |-> Lte, low |-> Wifi]

IsLinkUp(s, c) == c \notin s.ctrFailed \cup s.lowQuality \cup s.bitmapFailed

UpLinks(s) == {c \in Cids : IsLinkUp(s, c)}

UpdateDefaultLink(s) ==
  IF UpLinks(s) = {} THEN s
  ELSE IF PreferLargeCidValue
       THEN [s EXCEPT !.high = Max(UpLinks(s)), !.low = Min(UpLinks(s))]
       ELSE [s EXCEPT !.high = Min(UpLinks(s)), !.low = Max(UpLinks(s))]

\* The methods CtrlMsgDown, LowRssiDown and LinkBitMapDown, which differ in the
\* reason they record only.  They return whether the link was up before, as if
\* a default link always changed with it.
LinkDown(s, why, c) ==
  LET t == [s EXCEPT ![why] = @ \cup {c}]
  IN  IF IsLinkUp(s, c) THEN UpdateDefaultLink(t) ELSE t

\* Mutant: the defaults are computed before the link is marked as up.
LinkUpLate(s, why, c) ==
  IF c \in s[why] THEN [UpdateDefaultLink(s) EXCEPT ![why] = @ \ {c}] ELSE s

\* CtrlMsgUp, HighRssiUp and LinkBitMapUp
LinkUp(s, why, c) ==
  LET t == [s EXCEPT ![why] = @ \ {c}]
  IN  IF c \in s[why] /\ IsLinkUp(t, c) THEN UpdateDefaultLink(t) ELSE t

=============================================================================
