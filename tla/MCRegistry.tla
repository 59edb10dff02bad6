------------------------------- MODULE MCRegistry -------------------------------
(* Instances of Registry for TLC: all indexes of up to MaxEntries descriptors. *)
EXTENDS Registry, SequencesExt

CONSTANTS i1, i2, MaxEntries

MCTarget == [os |-> "linux", arch |-> "arm64", variant |-> "v8"]

MCPlatform(os, arch, variant) == [os |-> os, arch |-> arch, variant |-> variant]

(* An image of the platform, one that leaves out the variant, one of another
   architecture, an attestation, an artifact without a platform, an index in an
   index, and something that is not a manifest. *)
MCDescriptor ==
    {[doc |-> i1, kind |-> "manifest", platform |-> MCTarget],
     [doc |-> i2, kind |-> "manifest", platform |-> MCPlatform("linux", "arm64", NoVariant)],
     [doc |-> i2, kind |-> "manifest", platform |-> MCPlatform("linux", "amd64", NoVariant)],
     [doc |-> i1, kind |-> "manifest", platform |-> MCPlatform("linux", "arm64", "v7")],
     [doc |-> i2, kind |-> "manifest", platform |-> MCPlatform("unknown", "unknown", NoVariant)],
     [doc |-> i1, kind |-> "manifest", platform |-> NoPlatform],
     [doc |-> <<>>, kind |-> "index", platform |-> MCTarget],
     [doc |-> i2, kind |-> "other", platform |-> MCTarget]}

MCIndex == BoundedSeq(MCDescriptor, MaxEntries)

MCBoth == <<[doc |-> i1, kind |-> "manifest", platform |-> MCTarget],
            [doc |-> i2, kind |-> "manifest", platform |-> MCPlatform("linux", "amd64", NoVariant)]>>

MCPins    == {NoDoc, i1, MCBoth}
MCDamaged == {i2, <<>>}
================================================================================
