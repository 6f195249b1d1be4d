---------------------------- MODULE MCSpecProbe ----------------------------
(* Instances of SpecProbe for TLC: Appium and two protocols, two versions,    *)
(* four routes; the Appium source of version 2 has moved.                     *)
EXTENDS SpecProbe

CONSTANTS webdriver, mjsonwp, r1, r2, r3, r4

TwoThenOne == [appium |-> 2, wdio |-> 1]

TwoProtocols == <<webdriver, mjsonwp>>

SomeClaims == [f \in Files |->
    CASE f = <<Appium, 1>>    -> {r1, r2}
      [] f[1] = webdriver     -> {r1}
      [] f = <<mjsonwp, 1>>   -> {r3, r4}
      [] OTHER                -> {}]

OnlyWebdriver == {f \in Files : f[1] = webdriver}

AllFiles == Files

(* An error of a handler, an unknown command, an error behind a long message, *)
(* and a plain-text page.                                                     *)
SomeHub == [r \in Routes |->
    CASE r = r1 -> [ok |-> FALSE, json |-> TRUE, error |-> "other", far |-> FALSE]
      [] r = r2 -> [ok |-> FALSE, json |-> TRUE, error |-> "unknown", far |-> FALSE]
      [] r = r3 -> [ok |-> FALSE, json |-> TRUE, error |-> "other", far |-> TRUE]
      [] OTHER  -> [ok |-> FALSE, json |-> FALSE, error |-> "none", far |-> FALSE]]
=============================================================================
