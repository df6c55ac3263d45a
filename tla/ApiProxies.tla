------------------------------- MODULE ApiProxies -------------------------------
(***************************************************************************)
(* dcorch's proxies before sysinv and the patch controller.  The response  *)
(* of the service that was called decides what a proxy does: a change of a *)
(* platform resource is recorded for the subclouds, a load, an image or a  *)
(* patch goes to the vault.  The two have nothing in common, so that a     *)
(* behaviour follows the requests of one type.                             *)
(***************************************************************************)
EXTENDS PlatformSync, DcVault

proxiesVars == <<platformVars, vaultVars>>

ProxiesInit == PlatformInit /\ VaultInit

\* _process_response, by the type of the resource.
EnqueuesWork(A) == kind # "file" /\ A /\ UNCHANGED vaultVars
KeepsFiles(A) == kind = "file" /\ A /\ UNCHANGED platformVars

ProxiesNext == EnqueuesWork(PlatformNext) \/ KeepsFiles(VaultNext)

\* The proxy's enqueuer, the initial sync, the sync thread and the audits go on.
ProxiesSpec ==
  /\ ProxiesInit /\ [][ProxiesNext]_proxiesVars
  /\ WF_proxiesVars(EnqueuesWork(Enqueue)) /\ WF_proxiesVars(EnqueuesWork(DistributeKeys))
  /\ WF_proxiesVars(EnqueuesWork(PlatformSyncStep)) /\ WF_proxiesVars(EnqueuesWork(AuditStep))

-------------------------------------------------------------------------------
\* What the variables of both hold: a request in the queue is for a resource that
\* is tracked, a client asks for one thing, and what is kept is accepted.
ProxiesTypeOK == PlatformTypeOK /\ VaultTypeOK
===============================================================================
