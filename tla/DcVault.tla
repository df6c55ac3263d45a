-------------------------------- MODULE DcVault --------------------------------
(***************************************************************************)
(* The vault of the system controller, from which the strategies take      *)
(* loads, device images and patches.  dcorch's proxies before sysinv and   *)
(* the patch controller keep it the same as what these accept: the file of *)
(* a request is staged, the request is passed on, and its answer decides   *)
(* what becomes of the file.  The staging directory of loads and images    *)
(* and the temporary directory of loads are shared by all requests, of any *)
(* worker process.                                                         *)
(*                                                                         *)
(* An action is a file operation, or the answer of sysinv or of the patch  *)
(* controller.                                                             *)
(***************************************************************************)
EXTENDS Integers, FiniteSets

CONSTANTS
  Clients,      \* requests that are handled at the same time
  Versions,     \* of loads; each has an ISO and a signature, by names of its own
  Images,       \* uuids of device images; an upload makes a new one
  Patches,
  MaxCommands,  \* bound on the requests
  MaxVaultFaults

VARIABLES
  accepted,  \* what sysinv and the patch controller have
  staging,   \* files in LOAD_FILES_STAGING_DIR
  tmp,       \* files in LOAD_VAULT_TMP_DIR
  loads,     \* per version: the files in its directory of the vault
  stored,    \* device images and patches in the vault
  client,    \* per request: what it does next, and with what
  kept,      \* a ghost: what was accepted, and the proxy did not fail to store
  crossed,   \* a ghost: what has had two requests at a time
  commands, vaultFaults

dirs == <<staging, tmp, loads, stored>>
vaultBounds == <<commands, vaultFaults>>
vaultVars == <<accepted, dirs, client, kept, crossed, vaultBounds>>

ASSUME VaultAssumption ==
  /\ Versions \cap Images = {} /\ Versions \cap Patches = {} /\ Images \cap Patches = {}
  /\ {MaxCommands, MaxVaultFaults} \subseteq Nat

\* The parts of a load, in the order of IMPORT_LOAD_FILES.
Iso(v) == <<v, "iso">>
Sig(v) == <<v, "sig">>
LoadFiles(v) == {Iso(v), Sig(v)}
Files == (Versions \X {"iso", "sig"}) \cup (Images \X {"image"})

Idle == [pc |-> "idle", on |-> {}]

VaultInit ==
  /\ accepted = {}
  /\ staging = {} /\ tmp = {}
  /\ loads = [v \in Versions |-> {}]
  /\ stored = {}
  /\ client = [c \in Clients |-> Idle]
  /\ kept = {} /\ crossed = {}
  /\ commands = 0 /\ vaultFaults = 0

VaultFault ==
  /\ vaultFaults < MaxVaultFaults
  /\ vaultFaults' = vaultFaults + 1

\* Requests for loads meet in the directories, the others only in one thing.
Touches(x) == IF x \in Versions THEN Versions ELSE {x}

Busy(x) == \E c \in Clients : client[c].on \cap Touches(x) # {}

Begin(c, pc, x) ==
  /\ client[c] = Idle
  /\ commands < MaxCommands
  /\ commands' = commands + 1
  /\ client' = [client EXCEPT ![c] = [pc |-> pc, on |-> {x}]]
  /\ crossed' = IF Busy(x) THEN crossed \cup Touches(x) ELSE crossed
  /\ UNCHANGED vaultFaults

At(c, pc, x) == client[c] = [pc |-> pc, on |-> {x}]

GoTo(c, pc) ==
  /\ client' = [client EXCEPT ![c].pc = pc]
  /\ UNCHANGED <<crossed, vaultBounds>>

EndRequest(c) ==
  /\ client' = [client EXCEPT ![c] = Idle]
  /\ UNCHANGED <<crossed, vaultBounds>>

-------------------------------------------------------------------------------
(* The import of a load.                                                   *)

ImportLoad(c, v) ==
  /\ Begin(c, "upload iso", v)
  /\ UNCHANGED <<accepted, dirs, kept>>

\* _store_load_to_vault, for one file: _upload_file ...
UploadFile(c, v, part, next) ==
  /\ staging' = staging \cup {<<v, part>>}
  /\ GoTo(c, next)
  /\ UNCHANGED <<accepted, tmp, loads, stored, kept>>

\* ... and _copy_load_to_vault_for_validation.
CopyForValidation(c, v, part, next) ==
  /\ <<v, part>> \in staging
  /\ tmp' = tmp \cup {<<v, part>>}
  /\ GoTo(c, next)
  /\ UNCHANGED <<accepted, staging, loads, stored, kept>>

StoreLoad(c, v) ==
  \/ At(c, "upload iso", v) /\ UploadFile(c, v, "iso", "copy iso")
  \/ At(c, "copy iso", v) /\ CopyForValidation(c, v, "iso", "upload sig")
  \/ At(c, "upload sig", v) /\ UploadFile(c, v, "sig", "copy sig")
  \/ At(c, "copy sig", v) /\ CopyForValidation(c, v, "sig", "import")

Storing == {"upload iso", "copy iso", "upload sig", "copy sig"}

\* There is no space, or the file is gone: what is staged is removed, what is
\* in the temporary directory is not.
StoreLoadFails(c) ==
  /\ client[c].pc \in Storing
  /\ client' = [client EXCEPT ![c] = Idle]
  /\ \/ VaultFault
     \/ /\ \E v \in client[c].on, part \in {"iso", "sig"} :
             At(c, IF part = "iso" THEN "copy iso" ELSE "copy sig", v) /\ <<v, part>> \notin staging
        /\ UNCHANGED vaultFaults
  /\ staging' = {}
  /\ UNCHANGED <<accepted, tmp, loads, stored, kept, crossed, commands>>

\* sysinv takes the staged files, and has one imported load at most.
SysinvImports(c, v) ==
  /\ At(c, "import", v)
  /\ LoadFiles(v) \subseteq staging
  /\ accepted \cap Versions = {}
  /\ accepted' = accepted \cup {v}
  /\ GoTo(c, "save")
  /\ UNCHANGED <<dirs, kept>>

SysinvRejects(c, v) ==
  /\ At(c, "import", v)
  /\ client' = [client EXCEPT ![c].pc = "check"]
  /\ \/ VaultFault
     \/ ~LoadFiles(v) \subseteq staging /\ UNCHANGED vaultFaults
     \/ accepted \cap Versions # {} /\ UNCHANGED vaultFaults
  /\ UNCHANGED <<accepted, dirs, kept, crossed, commands>>

WrongToSave == tmp # {}

\* The temporary directory is there, and has as many files as were imported.
ToSave == Cardinality(tmp) = 2

\* _save_load_to_vault: the prior load of this version is removed, then the
\* temporary directory becomes the new one, or the client is told of an error.
SaveLoad(c, v) ==
  /\ At(c, "save", v)
  /\ IF ToSave
     THEN /\ loads' = [loads EXCEPT ![v] = tmp]
          /\ tmp' = {}
          /\ kept' = kept \cup ({v} \cap accepted)
     ELSE /\ loads' = [loads EXCEPT ![v] = {}]
          /\ UNCHANGED <<tmp, kept>>
  /\ EndRequest(c)
  /\ UNCHANGED <<accepted, staging, stored>>

\* _check_load_in_vault, which a temporary directory keeps from being empty.
CheckLoad(c, v) ==
  /\ At(c, "check", v)
  /\ tmp' = {}
  /\ EndRequest(c)
  /\ UNCHANGED <<accepted, staging, loads, stored, kept>>

DeleteLoad(c, v) ==
  /\ v \in accepted
  /\ Begin(c, "remove", v)
  /\ accepted' = accepted \ {v}
  /\ kept' = kept \ {v}
  /\ UNCHANGED dirs

RemoveLoad(c, v) ==
  /\ At(c, "remove", v)
  /\ v \in Versions
  /\ loads' = [loads EXCEPT ![v] = {}]
  /\ EndRequest(c)
  /\ UNCHANGED <<accepted, staging, tmp, stored, kept>>

-------------------------------------------------------------------------------
(* Device images.  sysinv has the image before the proxy has its file.     *)

ImportImage(c, i) ==
  /\ i \notin accepted \cup stored
  /\ \A d \in Clients : client[d].on # {i}
  /\ Begin(c, "stage image", i)
  /\ accepted' = accepted \cup {i}
  /\ UNCHANGED <<dirs, kept>>

\* _store_image_file: staged, copied, and everything that is staged removed.
StoreImage(c, i) ==
  \/ /\ At(c, "stage image", i)
     /\ staging' = staging \cup {<<i, "image">>}
     /\ GoTo(c, "copy image")
     /\ UNCHANGED <<accepted, tmp, loads, stored, kept>>
  \/ /\ At(c, "copy image", i)
     /\ IF <<i, "image">> \in staging
        THEN stored' = stored \cup {i} /\ kept' = kept \cup ({i} \cap accepted)
        ELSE UNCHANGED <<stored, kept>>
     /\ staging' = {}
     /\ EndRequest(c)
     /\ UNCHANGED <<accepted, tmp, loads>>

\* The client is not told.
StoreImageFails(c) ==
  /\ client[c].pc \in {"stage image", "copy image"}
  /\ VaultFault
  /\ staging' = {}
  /\ client' = [client EXCEPT ![c] = Idle]
  /\ UNCHANGED <<accepted, tmp, loads, stored, kept, crossed, commands>>

-------------------------------------------------------------------------------
(* Patches.  Each request has a directory of its own.                      *)

UploadPatch(c, p) ==
  /\ Begin(c, "store", p)
  /\ accepted' = accepted \cup {p}
  /\ UNCHANGED <<dirs, kept>>

\* patch_upload_req: the patch is stored, or the response has a warning.
StorePatch(c, p) ==
  /\ At(c, "store", p)
  /\ stored' = stored \cup {p}
  /\ kept' = kept \cup ({p} \cap accepted)
  /\ EndRequest(c)
  /\ UNCHANGED <<accepted, staging, tmp, loads>>

StorePatchFails(c) ==
  /\ client[c].pc = "store"
  /\ VaultFault
  /\ client' = [client EXCEPT ![c] = Idle]
  /\ UNCHANGED <<accepted, dirs, kept, crossed, commands>>

\* An image or a patch is deleted, then its file.
DeleteFile(c, x) ==
  /\ x \in accepted \cap (Images \cup Patches)
  /\ Begin(c, "delete", x)
  /\ accepted' = accepted \ {x}
  /\ kept' = kept \ {x}
  /\ UNCHANGED dirs

RemoveFile(c, x) ==
  /\ At(c, "delete", x)
  /\ stored' = stored \ {x}
  /\ EndRequest(c)
  /\ UNCHANGED <<accepted, staging, tmp, loads, kept>>

-------------------------------------------------------------------------------
\* A worker of the proxy dies in the middle of a request.
ProxyDies(c) ==
  /\ client[c] # Idle
  /\ VaultFault
  /\ client' = [client EXCEPT ![c] = Idle]
  /\ UNCHANGED <<accepted, dirs, kept, crossed, commands>>

VaultNext ==
  \E c \in Clients :
    \/ \E v \in Versions :
         \/ ImportLoad(c, v) \/ StoreLoad(c, v)
         \/ SysinvImports(c, v) \/ SysinvRejects(c, v)
         \/ SaveLoad(c, v) \/ CheckLoad(c, v)
         \/ DeleteLoad(c, v) \/ RemoveLoad(c, v)
    \/ StoreLoadFails(c)
    \/ \E i \in Images : ImportImage(c, i) \/ StoreImage(c, i)
    \/ StoreImageFails(c)
    \/ \E p \in Patches : UploadPatch(c, p) \/ StorePatch(c, p)
    \/ StorePatchFails(c)
    \/ \E x \in Images \cup Patches : DeleteFile(c, x) \/ RemoveFile(c, x)
    \/ ProxyDies(c)

-------------------------------------------------------------------------------
VaultTypeOK ==
  /\ accepted \subseteq Versions \cup Images \cup Patches
  /\ Cardinality(accepted \cap Versions) <= 1
  /\ staging \subseteq Files /\ tmp \subseteq Files
  /\ loads \in [Versions -> SUBSET Files]
  /\ stored \subseteq Images \cup Patches
  /\ kept \subseteq accepted
  /\ \A c \in Clients : Cardinality(client[c].on) <= 1

\* Whatever sysinv and the patch controller have and the proxy did not report
\* as not stored is in the vault, a load with its own two files and no others:
\* leftovers of imports that failed, of workers that died, and the images that
\* share its directories notwithstanding.  Two requests for loads at a time, or
\* for the same patch, may break it.
VaultHasWhatIsKept ==
  \A x \in kept \ crossed :
    IF x \in Versions THEN loads[x] = LoadFiles(x) ELSE x \in stored
===============================================================================
