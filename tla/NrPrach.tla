------------------------------ MODULE NrPrach ------------------------------
(***************************************************************************)
(* The numbering of PRACH occasions and the RA-RNTI a UE and the gNB       *)
(* derive from an occasion, each with its own code (nr-ue-mac.cc,          *)
(* nr-gnb-mac.cc).  A preamble is answered only if the two agree.          *)
(*                                                                         *)
(* cfg is a PrachConfig: the fields of NrPhySapProvider::PrachConfig that  *)
(* the formulas use.  Numerology 1: two slots per subframe.                *)
(***************************************************************************)
EXTENDS Integers, Sequences

OccasionWidth == 256  \* prachOcc is a uint8_t

\* Occasions of one frequency-domain index.
OccPerFd(cfg) == cfg.occInSlot * Len(cfg.SfN) * cfg.numSlots

\* TS 38.321, 5.1.3, on the normal uplink carrier.
RaRnti(s_id, t_id, f_id) == 1 + s_id + 14 * t_id + 14 * 80 * f_id

\* What the formula can give, and 0 before a preamble is sent.
RaRntis == 0..(14 * 80 * 16)

FirstSymbol(cfg, occ) == cfg.symStart + (occ % cfg.occInSlot) * cfg.duration

\* The last slot of the subframe, or the one of its two slots the occasion is in.
SlotOfFrame(cfg, sf, occ) ==
    IF cfg.numSlots = 1 \/ occ % (cfg.numSlots * cfg.occInSlot) >= cfg.occInSlot
    THEN 2 * sf + 1
    ELSE 2 * sf

(***************************************************************************)
(* UE                                                                      *)
(***************************************************************************)
\* The occasions ChooseRandomPrachOccasionThisSlot draws from in subframe sf,
\* after the conversion to uint8_t.
UeOccasions(cfg, fdm, sf) ==
    {(i * OccPerFd(cfg) + sf * cfg.occInSlot * cfg.numSlots + c) % OccasionWidth :
        i \in 0..(fdm - 1), c \in 0..(cfg.occInSlot - 1)}

UeRaRnti(cfg, sf, occ) ==
    RaRnti(FirstSymbol(cfg, occ), SlotOfFrame(cfg, sf, occ), occ \div OccPerFd(cfg))

(***************************************************************************)
(* gNB                                                                     *)
(***************************************************************************)
GetFrequencyDomain(cfg, occ) == occ \div OccPerFd(cfg)

\* SfN.at(...), a vector indexed from 0.
GetPrachOccasionSubframe(cfg, occ) == cfg.SfN[1 + occ \div (cfg.numSlots * cfg.occInSlot)]

GetRaRnti(cfg, occasion) ==
    LET f_id == GetFrequencyDomain(cfg, occasion)
        occ  == occasion - f_id * OccPerFd(cfg)
        sf   == GetPrachOccasionSubframe(cfg, occ)
    IN  RaRnti(FirstSymbol(cfg, occ), SlotOfFrame(cfg, sf, occ), f_id)
=============================================================================
