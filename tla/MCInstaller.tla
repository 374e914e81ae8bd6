---- MODULE MCInstaller ----
EXTENDS Installer, TLC
====
