------------------------------- MODULE Scripts -------------------------------
(***************************************************************************)
(* The scripts of the repository.  Importing code and building the core      *)
(* share no state: a session is one or the other.                            *)
(***************************************************************************)
EXTENDS Vendor, Build

vars == <<vendorVars, buildVars>>

NoBuild == [outputs |-> <<>>, requirements |-> <<>>, tools |-> {}, installed |-> <<>>,
            sv2v |-> [file_list |-> <<>>]]

BuildsNothing ==
  /\ build = NoBuild /\ stage = "none" /\ options = {} /\ design = NoData
  /\ CheckInit /\ ConvertInit(<<>>)

ImportsNothing ==
  /\ project = None /\ tip = [url \in DOMAIN Repos |-> 1]
  /\ target = NoTree /\ patches = NoTree /\ lock = None
  /\ index = [target |-> NoTree, patches |-> NoTree, lock |-> None]
  /\ head = [tree |-> index, rev |-> None, log |-> None]
  /\ run = Idle /\ exit = "none" /\ runs = 0 /\ edits = 0

Init == (VendorInit /\ BuildsNothing) \/ (BuildInit /\ ImportsNothing)

Import == project # None /\ VendorNext /\ UNCHANGED buildVars
BuildCore == stage # "none" /\ BuildNext /\ UNCHANGED vendorVars

Next == Import \/ BuildCore

Spec == Init /\ [][Next]_vars

TypeOK == VendorTypeOK /\ BuildTypeOK
=============================================================================
