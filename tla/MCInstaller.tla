---------------------------- MODULE MCInstaller ----------------------------
(***************************************************************************)
(* A small instance of Installer: two builds and one of another platform,  *)
(* and the configurations the registrar's tests tell apart.                *)
(***************************************************************************)
EXTENDS Installer

Mtp       == Entry("MTP", "plugins/wfx/mtp/fsplugin.wfx64")
Elsewhere == Entry("ADB", "/opt/adb/fsplugin.wfx64")
OtherName == Entry("Phone", PathValue)
MCExtra   == Entry("FTP", "plugins/wfx/ftp/ftp.wfx64")
MCConfigs == {<<>>, <<Mtp>>, <<Elsewhere, Mtp, OtherName>>, <<OwnEntry, Mtp>>}
=============================================================================
