----------------------------- MODULE FirmwareSteps -----------------------------
(***************************************************************************)
(* Firmware strategies: the operators that bring the device images applied *)
(* in RegionOne to the devices of the subcloud, and the audit of them.     *)
(*                                                                         *)
(* The operators know an image by its uuid; the audit knows it by what it  *)
(* contains.  Which devices an image is for follows from its labels, those *)
(* of the devices, and vendor and device ids: Fits says the outcome.       *)
(***************************************************************************)
EXTENDS VimSteps

CONSTANTS
  NumDevices,   \* the devices of the subcloud, in the order they are listed
  NumImages,    \* the device images there are, in the order they are listed
  Content,      \* what an image contains
  Fits          \* per image, the devices it is for

Devices == 1..NumDevices

Images == 1..NumImages

ASSUME FirmwareStepsAssumption ==
  /\ {NumDevices, NumImages} \subseteq Nat
  /\ DOMAIN Content = Images
  /\ Fits \in [Images -> SUBSET Devices]

ImageStates == {"none", "pending", "completed", "failed"}

FirmwareCentrals == SUBSET Images

\* An image cannot be applied before it is there.
FirmwareSubs ==
  {s \in [images : SUBSET Images, applied : SUBSET Images, enabled : SUBSET Devices,
          written : [Devices -> [Images -> ImageStates]]] :
     s.applied \subseteq s.images}

\* Images that were applied to the devices present and have been written.
SettledFirmware(enabled, images, applied) ==
  [images |-> images, applied |-> applied, enabled |-> enabled,
   written |-> [d \in Devices |-> [i \in Images |->
                 IF i \in applied /\ d \in enabled \cap Fits[i] THEN "completed" ELSE "none"]]]

\* The devices an image is for that are enabled.
For(i) == Fits[i] \cap sub.enabled

--------------------------------------------------------------------------------
\* The operators.

\* "importing firmware": what is applied in the subcloud and not here is to be
\* removed; what is applied here is looked at next.
CompareImages ==
  /\ Begins("importing")
  /\ step' = [step EXCEPT !.pc = "remove",
                !.calls["remove"] = sub.applied \ central,
                !.calls["upload"] = central \ sub.images,
                !.calls["apply"] = central]
  /\ OperatorQuiet /\ UNCHANGED <<vim, sub>>

RemoveImage(i) ==
  /\ step.pc = "remove" /\ i \in step.calls["remove"]
  /\ step' = [step EXCEPT !.calls["remove"] = @ \ {i}]
  /\ sub' = [sub EXCEPT !.applied = @ \ {i},
                        !.written = [d \in Devices |-> [@[d] EXCEPT ![i] = "none"]]]
  /\ OperatorQuiet /\ UNCHANGED vim

\* The device image states of the subcloud are read: an image is applied when
\* the first device it is for has no state for it.
FindDevices ==
  LET first(i) == CHOOSE d \in For(i) : \A c \in For(i) : d <= c
  IN /\ step.pc = "remove" /\ step.calls["remove"] = {}
     /\ step' = [step EXCEPT !.pc = "import",
                   !.calls["upload"] = {i \in @ : For(i) # {}},
                   !.calls["apply"] = {i \in @ : For(i) # {} /\ sub.written[first(i)][i] = "none"}]
     /\ OperatorQuiet /\ UNCHANGED <<vim, sub>>

UploadImage(i) ==
  /\ step.pc = "import" /\ i \in step.calls["upload"]
  /\ step' = [step EXCEPT !.calls["upload"] = @ \ {i}]
  /\ sub' = [sub EXCEPT !.images = @ \cup {i}]
  /\ OperatorQuiet /\ UNCHANGED vim

\* An image is applied that may not have been uploaded yet.
WrongApplyImage(i) ==
  /\ step.pc = "import" /\ i \in step.calls["apply"]
  /\ step' = [step EXCEPT !.calls["apply"] = @ \ {i}]
  /\ sub' = [sub EXCEPT !.applied = @ \cup {i}]
  /\ OperatorQuiet /\ UNCHANGED vim

\* apply_device_image with the labels of the image: for every device it fits.
ApplyImage(i) ==
  /\ step.pc = "import" /\ i \in step.calls["apply"] \ step.calls["upload"]
  /\ step' = [step EXCEPT !.calls["apply"] = @ \ {i}]
  /\ sub' = [sub EXCEPT
       !.applied = @ \cup {i},
       !.written = [d \in Devices |->
          [sub.written[d] EXCEPT ![i] = IF d \in For(i) /\ @ = "none" THEN "pending" ELSE @]]]
  /\ OperatorQuiet /\ UNCHANGED vim

Imported ==
  /\ step.pc = "import" /\ step.calls = NoCalls
  /\ Enter(NextState)
  /\ OperatorQuiet /\ UNCHANGED <<vim, sub>>

\* "finishing firmware update": unless an applied image has not been written
\* to an enabled device, the endpoint is reported in sync without an audit.
FinishFirmware ==
  /\ Begins("finishing")
  /\ IF \E d \in sub.enabled, i \in sub.applied : sub.written[d][i] \in {"pending", "failed"}
     THEN Raise /\ UNCHANGED status
     ELSE status' = "in-sync" /\ Enter(NextState)
  /\ UNCHANGED <<update, opts, job, vim, central, sub, audit, undisturbed, bounded>>

\* Firmware has operators of its own for the VIM strategy.  They differ in that
\* no strategy to apply is no failure.
FirmwareCreatesVim == CreatesVim(0)

FirmwareAppliesVim == AppliesVim

FirmwareOperators ==
  /\ update = "firmware"
  /\ \/ CompareImages \/ FindDevices \/ Imported
     \/ \E i \in Images : RemoveImage(i) \/ UploadImage(i) \/ ApplyImage(i)
     \/ FirmwareCreatesVim \/ FirmwareAppliesVim
     \/ FinishFirmware

--------------------------------------------------------------------------------
\* The subcloud and RegionOne (external).

Unwritten == {d \in sub.enabled : \E i \in Images : sub.written[d][i] \in {"pending", "failed"}}

FirmwareVimBuilds ==
  /\ Built(IF Unwritten = {} THEN "build-failed" ELSE "ready-to-apply")
  /\ UNCHANGED bounded /\ VimQuiet

WriteImages(D) ==
  sub' = [sub EXCEPT !.written = [d \in Devices |-> [i \in Images |->
            IF @[d][i] \in {"pending", "failed"}
            THEN IF d \in D THEN "completed" ELSE "failed"
            ELSE @[d][i]]]]

FirmwareVimApplies ==
  /\ Applied("applied")
  /\ WriteImages(Devices)
  /\ UNCHANGED bounded /\ VimQuiet

\* Some devices fail: the VIM finds it out, or the operator at the end.
FirmwareVimFails(D, outcome) ==
  /\ Applied(outcome)
  /\ WriteImages(D)
  /\ Fault /\ VimQuiet

\* An image is applied or removed in RegionOne, a device comes to the subcloud.
FirmwareChanges ==
  \/ /\ \E i \in Images : central' = (IF i \in central THEN central \ {i} ELSE central \cup {i})
     /\ UNCHANGED sub
  \/ /\ \E d \in Devices \ sub.enabled : sub' = [sub EXCEPT !.enabled = @ \cup {d}]
     /\ UNCHANGED central

--------------------------------------------------------------------------------
\* The audit.

\* The first image state of the device whose image has the same content.
Shown(d, i) ==
  LET alike == {j \in Images : Content[j] = Content[i] /\ sub.written[d][j] # "none"}
  IN IF alike = {} THEN "none"
     ELSE sub.written[d][CHOOSE j \in alike : \A k \in alike : j <= k]

FirmwareVerdict(images) ==
  \A i \in images : \A d \in For(i) : Shown(d, i) = "completed"

\* What it is all about: the devices bear what RegionOne has applied.
SameFirmware == FirmwareVerdict(central)

\* The operators look at the first device of an image alone: one that comes
\* later gets an image only with the first.
FirmwareBlocked ==
  \E i \in central : \E d \in For(i) :
    /\ sub.written[d][i] = "none"
    /\ \E c \in For(i) : c < d /\ sub.written[c][i] # "none"
================================================================================
