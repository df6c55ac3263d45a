-------------------------- MODULE MCStrategyCreation --------------------------
(* Requests of several kinds for the run of StrategyCreation.              *)
EXTENDS StrategyCreation

Plain == [type |-> "patch", cloud |-> {}, group |-> {}, force |-> FALSE,
          serial |-> {}, max |-> {}, cert |-> {}]

\* Everything with the groups' options, two at a time or serially; a group,
\* one subcloud; forced, with a certificate, a prestage; two the API refuses.
MCPayloads ==
  {Plain,
   [Plain EXCEPT !.force = TRUE],
   [Plain EXCEPT !.group = {2}, !.max = {1}],
   [Plain EXCEPT !.type = "firmware", !.serial = {FALSE}, !.max = {2}],
   [Plain EXCEPT !.type = "upgrade", !.serial = {TRUE}, !.force = TRUE],
   [Plain EXCEPT !.type = "kubernetes", !.cloud = {2}, !.force = TRUE],
   [Plain EXCEPT !.type = "kube-rootca", !.group = {2}, !.cert = {"ca"}],
   [Plain EXCEPT !.type = "prestage", !.group = {1}]}
===============================================================================
