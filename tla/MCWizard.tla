------------------------------- MODULE MCWizard -------------------------------
(* A situation on three steps, cut down from shop.yaml and telecom.yaml: what  *)
(* happened and when, the complaint and a fee that one kind asks for, contacts. *)
EXTENDS WizardProperties

CONSTANTS kind, bought, complained, fee, city, phone, email, Slow, Broken, Text, Odd, Wrong

MCFields == {kind, bought, complained, fee, city, phone, email}
MCStepOf == [f \in MCFields |->
    CASE f \in {kind, bought} -> 0 [] f \in {complained, fee} -> 1 [] OTHER -> 2]
MCRequired == {kind, bought, fee, phone, email}
MCShowIf == [f \in {fee} |-> [field |-> kind, values |-> {Slow}]]
MCRules == {[field |-> complained, lo |-> bought, hi |-> complained]}
MCContact == {city, phone, email}
MCLastContact == [f \in MCContact |-> Text]
MCValues == [f \in MCFields |->
    CASE f = kind       -> {Slow, Broken}
      [] f = bought     -> {Blank, 2, 3}
      [] f = complained -> {Bad, 1, 2}
      [] f = email      -> {Blank, Text, Odd}
      [] f = fee        -> {Text}
      [] f = phone      -> {Text, Wrong}
      [] f = city       -> {Text}]
=============================================================================
