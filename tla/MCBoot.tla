------------------------------- MODULE MCBoot -------------------------------
EXTENDS Boot

MCFirmwareMasks == {{}, {0, 1, 2, 15}}

\* Both ends of the first, second and last GiB, the screen and the APIC.
MCPages == {0, 184, 512, 262143, 262144, 262657, 786432, 1044480, 1048575}

\* 0x0123456789ABCDEF: no two bytes are the same.
MCTssAddress == <<52719, 35243, 17767, 291>>

\* 32 bytes each from 0x0123456780100000: no two words are the same.
MCStub(vector) == <<vector * 32, 32784, 17767, 291>>
=============================================================================
