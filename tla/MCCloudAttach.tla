--------------------------- MODULE MCCloudAttach ---------------------------
(* Model values for CloudAttach: one job with one address.                  *)
EXTENDS CloudAttach
OneJob == <<1>>
=============================================================================
