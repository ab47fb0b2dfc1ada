----------------------------- MODULE VerifierMC -----------------------------
(* Streams of one or two sections.  In the last one there may be something *)
(* wrong, or it may be cut off; and some have a form that no client's      *)
(* driver writes, though the verifier accepts most of them.                *)
EXTENDS Verifier
List(words) == <<"H2", "Vdata">> \o words
Good == {
  <<"H2", "NotTex", "plain", "dummy">>,
  <<"H2", "TexGeneral", "multi1", "plain">>, <<"H2", "TexGeneral", "multi0">>,
  <<"H2", "Tex0", "lo1", "hi1", "agp", "plain">>, <<"H2", "Tex0", "lo0">>,
  <<"H2", "Tex1", "agp">>, <<"H2", "Tex1", "plain", "local">>,
  <<"H2", "Auto", "v", "v">>, <<"H2", "Stipple", "v", "v", "v">>,
  List(<<"B", "A", "v", "v", "fire", "fire">>),
  List(<<"B", "A", "v", "v", "v", "fire">>),
  List(<<"B", "A", "fire", "fire", "B", "A", "v", "v", "v", "fire">>),
  List(<<"Bsmall", "A", "v", "v", "fire">>),
  <<"R", "v", "R", "v">>,
  <<"V5", "n1", "F5", "zero", "v", "dummy", "zero", "zero">>,
  <<"V5", "n4", "F5", "zero", "v", "v", "v", "v">>,
  <<"V6", "n1", "F6", "zero", "register", "v", "zero", "zero">>,
  <<"V6", "n2", "F6", "zero", "register", "v", "register", "v">>}
Wrong == {
  <<"H2", "NotTex", "zInSystem">>, <<"H2", "NotTex", "plain", "fire">>,
  <<"H2", "Tex1", "agp", "hi0", "lo1">>, <<"H2", "Tex1", "lo1", "plain", "hi1", "agp">>,
  <<"H2", "Tex0", "inSystem">>, <<"H2", "Palette", "v">>,
  <<"H2", "Auto", "v">>, <<"H2">>,
  List(<<"B", "A", "v", "v", "v", "v">>), List(<<"B", "A", "v", "v", "otherFire">>),
  List(<<"B", "v", "fire">>), List(<<"B">>),
  <<"R", "v", "Rforbidden", "v">>,
  <<"V5", "n2", "F5", "zero", "v", "v", "v", "zero">>, <<"V5forbidden", "n0", "F5", "zero">>,
  <<"V5", "v", "F5", "zero", "v", "v">>,
  <<"V6", "n1", "F6", "zero", "forbidden", "v", "zero", "zero">>,
  <<"V6", "nHalf", "F6", "zero", "register", "v">>,
  <<"V6", "n1", "F6", "zero", "register">>}
Strange == {
  <<"R">>, <<"R", "v", "R">>, <<"R", "v", "v", "R">>, <<"R", "v", "v", "Rforbidden", "R", "v">>,
  <<"H2", "Auto", "H2", "v">>, <<"H2", "Auto", "v", "H2">>,
  <<"H2", "Stipple", "H2", "TexGeneral", "multi1">>, <<"H2", "Stipple", "v", "V5", "v">>,
  <<"H2", "Stipple", "v", "v", "R">>, <<"H2", "Auto", "V6", "nHalf">>}
(* One of each kind *)
First == {
  <<"H2", "TexGeneral", "multi1", "plain">>, <<"H2", "Tex1", "agp">>,
  List(<<"B", "A", "v", "v", "fire", "fire">>), <<"R", "v", "R", "v">>,
  <<"V5", "n1", "F5", "zero", "v", "dummy", "zero", "zero">>}
OneOrTwo == Good \cup Wrong \cup Strange \cup {s \o t : s \in First, t \in Good \cup Wrong}
UniChrome == [video |-> FALSE, threeD |-> TRUE]
ProGroupA == [video |-> TRUE, threeD |-> TRUE]
DX9 == [video |-> TRUE, threeD |-> FALSE]
AllChips == {UniChrome, ProGroupA, DX9}
Diagonal == {<<0, 0>>, <<1, 1>>}
(* No step depends on the engine's state, and once it has parted from      *)
(* hc_state no property does: states that differ in it only are one.       *)
WhatMatters ==
  <<input, state, buf, para, checkVars, fireCount, executed, parted, IF parted THEN Reset ELSE hw>>
=============================================================================
