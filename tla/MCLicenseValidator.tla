-------------------------- MODULE MCLicenseValidator --------------------------
(* Small instances of LicenseValidator.                                      *)
EXTENDS LicenseValidator
=============================================================================
