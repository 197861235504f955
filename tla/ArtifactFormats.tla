-------------------------- MODULE ArtifactFormats --------------------------
(***************************************************************************)
(* The artifact formats of the catalog and what each implies               *)
(* (siorb-catalog, ArtifactFormat).                                        *)
(***************************************************************************)

Archives   == {"zip", "tar", "tar.gz"}
Installers == {"msi", "msix", "exe", "pkg", "dmg", "deb", "rpm"}
Format     == Archives \union Installers \union {"appimage"}

KindOf(f) == IF f \in Archives THEN "archive"
             ELSE IF f = "appimage" THEN "executable" ELSE "installer"

\* DEB and RPM rest on the digest; a signer named for an RPM is still checked.
RequiresSigner(f) == f \in {"msi", "msix", "exe", "pkg", "dmg"}

\* A content type is one of the format's own, the generic one, or another's.
AcceptsContentType(f, type) == type \in {"octet-stream", f}

LinuxFamilies == {"linux", "debian", "fedora", "arch", "opensuse", "alpine"}

SupportsPlatform(f, platform) ==
  CASE f = "zip" -> platform \in {"windows", "macos"}
    [] f \in {"tar", "tar.gz"} -> platform \in LinuxFamilies \union {"macos"}
    [] f \in {"msi", "msix", "exe"} -> platform = "windows"
    [] f \in {"pkg", "dmg"} -> platform = "macos"
    [] f = "deb" -> platform = "debian"
    [] f = "rpm" -> platform \in {"fedora", "opensuse"}
    [] f = "appimage" -> platform \in LinuxFamilies \ {"alpine"}

\* The formats the signer check of a build can judge (verify_native_signer).
InstallableOn(f, build) ==
  CASE build = "windows" -> f \in {"msi", "msix", "exe"}
    [] build = "macos" -> f \in {"pkg", "dmg"}
    [] build = "linux" -> f \in {"deb", "rpm"}
=============================================================================
