------------------------ MODULE MCPermissionsManager ------------------------
(* Instances of the permissions manager for TLC.                           *)
EXTENDS PermissionsManager, TLC

Request(type, level, name, detail, amount) ==
  [type |-> type, level |-> level, name |-> name, detail |-> detail, amount |-> amount]

ForAlice == Request("protocol", 1, "notes", {"alice"}, 0)
Spend(n) == Request("spending", 0, "", {}, n)

MCManifest == <<ForAlice>>

ACall(method, ask, labels, spends, sign) ==
  [method |-> method, ask |-> ask, labels |-> labels, spends |-> spends, sign |-> sign]

NoRequests == {}

AdminBasket == Request("basket", 0, "admin", {}, 0)
Reserved == {AdminBasket}
MixedRequests == {ForAlice, Spend(1), AdminBasket}
MixedCalls ==
  {ACall("encrypt", <<ForAlice>>, <<>>, 0, TRUE),
   ACall("listOutputs", <<AdminBasket>>, <<>>, 0, TRUE),
   ACall("createAction", <<>>, <<>>, 1, FALSE),
   ACall("waitForAuthentication", <<>>, <<>>, 0, TRUE)}

(* One token of an earlier session, which the first tick expires. *)
Old(r, n, expiry, amount) == [id |-> -n, of |-> r, amount |-> amount, expiry |-> expiry]
OldTokens == {{Old(ForAlice, 1, 1, 0)}}

AllOptions ==
  {"seekProtocolPermissionsForSigning", "seekProtocolPermissionsForEncrypting",
   "seekProtocolPermissionsForHMAC", "seekPermissionsForKeyLinkageRevelation",
   "seekPermissionsForPublicKeyRevelation", "seekPermissionsForIdentityKeyRevelation",
   "seekPermissionsForIdentityResolution", "seekBasketInsertionPermissions",
   "seekBasketRemovalPermissions", "seekBasketListingPermissions",
   "seekPermissionWhenApplyingActionLabels", "seekPermissionWhenListingActionsByLabel",
   "seekCertificateDisclosurePermissions", "seekCertificateAcquisitionPermissions",
   "seekCertificateRelinquishmentPermissions", "seekCertificateListingPermissions",
   "seekSpendingPermissions", "seekGroupedPermission"}

Symmetry == Permutations(Callers)
=============================================================================
