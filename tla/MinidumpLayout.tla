--------------------------- MODULE MinidumpLayout ---------------------------
(***************************************************************************)
(* A minidump is written on one machine and read on another: both overlay  *)
(* the structures of the headers on the bytes of the file, each with the   *)
(* offsets its own ABI gives their members, and step over the elements of  *)
(* an array by minidump_size<T>::size().  The writer and the reader go     *)
(* through one structure member by member, element by element.             *)
(***************************************************************************)
EXTENDS Naturals, Sequences, FiniteSets, FiniteSetsExt, TLC

CONSTANTS Structs,   \* the names of the structures that are exchanged
          Elements   \* how many elements an array of structures has

VARIABLES name,      \* the structure
          writer,    \* the ABI of the machine that wrote the dump
          reader,    \* the ABI of the machine that reads it
          element,   \* the element the two are at
          member     \* its member the two are at
vars == <<name, writer, reader, element, member>>

-----------------------------------------------------------------------------
(* Offsets and sizes under an ABI.  The ABIs differ in the alignment of a  *)
(* 64-bit quantity in a structure: "i386" has 4, "full" has 8.             *)

ABIs == {"i386", "full"}
MostAligned(abi) == IF abi = "i386" THEN 4 ELSE 8

Smaller(a, b) == IF a < b THEN a ELSE b
RoundUp(n, to) == ((n + to - 1) \div to) * to

(* The structures of minidump_format.h and the contexts of                 *)
(* minidump_cpu_*.h.  A type is a word of some bytes, a structure, a       *)
(* packed structure (#pragma pack(4)) or a union, with what each ABI makes *)
(* of it; a member is its name, its type and how many there are, and       *)
(* neighbours of one type that no property tells apart are one member.     *)

Word(bytes) ==
    [members |-> << >>,
     layout |-> [abi \in ABIs |->
         [align |-> Smaller(bytes, MostAligned(abi)), offset |-> << >>, size |-> bytes]]]

AlignOf(type, abi) == type.layout[abi].align
SizeOf(type, abi) == type.layout[abi].size
OffsetOf(type, i, abi) == type.layout[abi].offset[i]
Bytes(m, abi) == m[3] * SizeOf(m[2], abi)
End(type, i, abi) == OffsetOf(type, i, abi) + Bytes(type.members[i], abi)

(* Each member behind the one before it, where it is aligned; the members  *)
(* of a union all at the beginning.                                        *)
Aligned(members, pack, union, abi) ==
    LET Alignment(i) == Smaller(pack, AlignOf(members[i][2], abi))
        offset[i \in 1..Len(members)] ==
            IF i = 1 \/ union THEN 0
            ELSE RoundUp(offset[i - 1] + Bytes(members[i - 1], abi), Alignment(i))
        align == Smaller(pack, Max({AlignOf(members[i][2], abi) : i \in 1..Len(members)}))
    IN  [align |-> align, offset |-> offset,
         size |-> RoundUp(Max({offset[i] + Bytes(members[i], abi) : i \in 1..Len(members)}), align)]
Type(members, pack, union) ==
    [members |-> members, layout |-> [abi \in ABIs |-> Aligned(members, pack, union, abi)]]
Struct(members) == Type(members, 16, FALSE)
Packed(members) == Type(members, 4, FALSE)
Union(members)  == Type(members, 16, TRUE)

U8  == Word(1)
U16 == Word(2)
U32 == Word(4)
U64 == Word(8)
U128 == Struct(<< <<"high_low", U64, 2>> >>)
MDRVA == U32

MDGUID == Struct(<< <<"data1", U32, 1>>, <<"data2_3", U16, 2>>, <<"data4", U8, 8>> >>)
MDVSFixedFileInfo == Struct(<< <<"signature_to_date_lo", U32, 13>> >>)
MDLocationDescriptor == Struct(<< <<"data_size", U32, 1>>, <<"rva", MDRVA, 1>> >>)
MDMemoryDescriptor ==
    Struct(<< <<"start_of_memory_range", U64, 1>>, <<"memory", MDLocationDescriptor, 1>> >>)
MDRawHeader ==
    Struct(<< <<"signature_to_stream_count", U32, 3>>, <<"stream_directory_rva", MDRVA, 1>>,
              <<"checksum_stamp", U32, 2>>, <<"flags", U64, 1>> >>)
MDRawDirectory ==
    Struct(<< <<"stream_type", U32, 1>>, <<"location", MDLocationDescriptor, 1>> >>)
MDString == Struct(<< <<"length", U32, 1>>, <<"buffer", U16, 1>> >>)
MDRawThread ==
    Struct(<< <<"thread_id_to_priority", U32, 4>>, <<"teb", U64, 1>>,
              <<"stack", MDMemoryDescriptor, 1>>, <<"thread_context", MDLocationDescriptor, 1>> >>)
MDRawThreadList == Struct(<< <<"number_of_threads", U32, 1>>, <<"threads", MDRawThread, 1>> >>)

(* reserved0 and reserved1 as the platform SDK has them: the header avoids *)
(* them "as a workaround".                                                 *)
MDRawModuleOfTheSDK ==
    Struct(<< <<"base_of_image", U64, 1>>, <<"size_checksum_stamp", U32, 3>>,
              <<"module_name_rva", MDRVA, 1>>, <<"version_info", MDVSFixedFileInfo, 1>>,
              <<"cv_record", MDLocationDescriptor, 1>>, <<"misc_record", MDLocationDescriptor, 1>>,
              <<"reserved0", U64, 1>>, <<"reserved1", U64, 1>> >>)
MDRawModule ==
    Struct(<< <<"base_of_image", U64, 1>>, <<"size_checksum_stamp", U32, 3>>,
              <<"module_name_rva", MDRVA, 1>>, <<"version_info", MDVSFixedFileInfo, 1>>,
              <<"cv_record", MDLocationDescriptor, 1>>, <<"misc_record", MDLocationDescriptor, 1>>,
              <<"reserved0", U32, 2>>, <<"reserved1", U32, 2>> >>)
MDCVHeader == Struct(<< <<"signature", U32, 1>>, <<"offset", U32, 1>> >>)
MDCVInfoPDB20 ==
    Struct(<< <<"cv_header", MDCVHeader, 1>>, <<"signature_age", U32, 2>>,
              <<"pdb_file_name", U8, 1>> >>)
MDCVInfoPDB70 ==
    Struct(<< <<"cv_signature", U32, 1>>, <<"signature", MDGUID, 1>>, <<"age", U32, 1>>,
              <<"pdb_file_name", U8, 1>> >>)
MDCVInfoELF == Struct(<< <<"cv_signature", U32, 1>>, <<"build_id", U8, 1>> >>)
MDImageDebugMisc ==
    Struct(<< <<"data_type_length", U32, 2>>, <<"unicode_reserved", U8, 4>>, <<"data", U8, 1>> >>)
MDRawModuleList == Struct(<< <<"number_of_modules", U32, 1>>, <<"modules", MDRawModule, 1>> >>)
MDRawMemoryList ==
    Struct(<< <<"number_of_memory_ranges", U32, 1>>, <<"memory_ranges", MDMemoryDescriptor, 1>> >>)
MD_EXCEPTION_MAXIMUM_PARAMETERS == 15
MDException ==
    Struct(<< <<"exception_code_flags", U32, 2>>, <<"exception_record", U64, 1>>,
              <<"exception_address", U64, 1>>, <<"number_parameters", U32, 1>>,
              <<"__align", U32, 1>>,
              <<"exception_information", U64, MD_EXCEPTION_MAXIMUM_PARAMETERS>> >>)
MDRawExceptionStream ==
    Struct(<< <<"thread_id", U32, 1>>, <<"__align", U32, 1>>, <<"exception_record", MDException, 1>>,
              <<"thread_context", MDLocationDescriptor, 1>> >>)
MDCPUInformation ==
    Union(<< <<"x86_cpu_info", Struct(<< <<"vendor_id_to_amd_features", U32, 6>> >>), 1>>,
             <<"arm_cpu_info", Struct(<< <<"cpuid_hwcaps", U32, 2>> >>), 1>>,
             <<"other_cpu_info", Struct(<< <<"processor_features", U64, 2>> >>), 1>> >>)
MDRawSystemInfo ==
    Struct(<< <<"architecture_level_revision", U16, 3>>, <<"processors_product", U8, 2>>,
              <<"versions_platform", U32, 4>>, <<"csd_version_rva", MDRVA, 1>>,
              <<"suite_reserved2", U16, 2>>, <<"cpu", MDCPUInformation, 1>> >>)
MDRawUnloadedModule ==
    Struct(<< <<"base_of_image", U64, 1>>, <<"size_checksum_stamp", U32, 3>>,
              <<"module_name_rva", MDRVA, 1>> >>)
MDRawUnloadedModuleList == Struct(<< <<"size_of_header_entry_number", U32, 3>> >>)
MDSystemTime == Struct(<< <<"year_to_milliseconds", U16, 8>> >>)
MDTimeZoneInformation ==
    Struct(<< <<"bias", U32, 1>>, <<"standard_name", U16, 32>>, <<"standard_date", MDSystemTime, 1>>,
              <<"standard_bias", U32, 1>>, <<"daylight_name", U16, 32>>,
              <<"daylight_date", MDSystemTime, 1>>, <<"daylight_bias", U32, 1>> >>)
MD_MAX_PATH == 260
MDXStateFeature == Struct(<< <<"offset_size", U32, 2>> >>)
MDXStateConfigFeatureMscInfo ==
    Struct(<< <<"size_of_info_context_size", U32, 2>>, <<"enabled_features", U64, 1>>,
              <<"features", MDXStateFeature, 64>> >>)

MDRawMiscInfo ==
    Struct(<< <<"size_of_info_to_kernel_time", U32, 6>>,
              <<"processor_max_mhz", U32, 1>>, <<"processor_current_mhz_to_idle_state", U32, 4>>,
              <<"process_integrity_level", U32, 1>>, <<"execute_protected_zone_id", U32, 3>>,
              <<"time_zone", MDTimeZoneInformation, 1>>,
              <<"build_string", U16, MD_MAX_PATH>>, <<"dbg_bld_str", U16, 40>>,
              <<"xstate_data", MDXStateConfigFeatureMscInfo, 1>>, <<"process_cookie", U32, 1>> >>)

MDRawMemoryInfoList ==
    Struct(<< <<"size_of_header_entry", U32, 2>>, <<"number_of_entries", U64, 1>> >>)
MDRawMemoryInfo ==
    Struct(<< <<"base_address", U64, 1>>, <<"allocation_base", U64, 1>>,
              <<"allocation_protection", U32, 1>>, <<"__alignment1", U32, 1>>,
              <<"region_size", U64, 1>>, <<"state_protection_type", U32, 3>>,
              <<"__alignment2", U32, 1>> >>)
MDRawBreakpadInfo == Struct(<< <<"validity_and_threads", U32, 3>> >>)
MDRawAssertionInfo ==
    Struct(<< <<"expression_function_file", U16, 3 * 128>>, <<"line_type", U32, 2>> >>)
MDRawLinkMap32 == Struct(<< <<"addr", U32, 1>>, <<"name", MDRVA, 1>>, <<"ld", U32, 1>> >>)
MDRawDebug32 ==
    Struct(<< <<"version", U32, 1>>, <<"map", MDRVA, 1>>, <<"dso_count", U32, 1>>,
              <<"brk_ldbase_dynamic", U32, 3>> >>)
MDRawLinkMap64 == Struct(<< <<"addr", U64, 1>>, <<"name", MDRVA, 1>>, <<"ld", U64, 1>> >>)
MDRawDebug64 ==
    Struct(<< <<"version", U32, 1>>, <<"map", MDRVA, 1>>, <<"dso_count", U32, 1>>,
              <<"brk_ldbase_dynamic", U64, 3>> >>)
MDRawSimpleStringDictionaryEntry == Struct(<< <<"key", MDRVA, 1>>, <<"value", MDRVA, 1>> >>)
MDRawSimpleStringDictionary ==
    Struct(<< <<"count", U32, 1>>, <<"entries", MDRawSimpleStringDictionaryEntry, 0>> >>)
MDRawModuleCrashpadInfo ==
    Struct(<< <<"version", U32, 1>>, <<"list_annotations", MDLocationDescriptor, 1>>,
              <<"simple_annotations", MDLocationDescriptor, 1>> >>)
MDRawModuleCrashpadInfoLink ==
    Struct(<< <<"minidump_module_list_index", U32, 1>>, <<"location", MDLocationDescriptor, 1>> >>)
MDRawModuleCrashpadInfoList ==
    Struct(<< <<"count", U32, 1>>, <<"modules", MDLocationDescriptor, 0>> >>)
MDRawCrashpadInfo ==
    Struct(<< <<"version", U32, 1>>, <<"report_client_id", MDGUID, 2>>,
              <<"simple_annotations", MDLocationDescriptor, 1>>,
              <<"module_list", MDLocationDescriptor, 1>> >>)

-----------------------------------------------------------------------------
(* The register contexts.                                                  *)

MDXmmSaveArea32AMD64 ==
    Struct(<< <<"control_status_word", U16, 2>>, <<"tag_word_reserved1", U8, 2>>,
              <<"error_opcode", U16, 1>>, <<"error_offset", U32, 1>>,
              <<"error_selector_reserved2", U16, 2>>, <<"data_offset", U32, 1>>,
              <<"data_selector_reserved3", U16, 2>>, <<"mx_csr_mask", U32, 2>>,
              <<"float_registers", U128, 8>>, <<"xmm_registers", U128, 16>>,
              <<"reserved4", U8, 96>> >>)
SseRegisters ==
    Struct(<< <<"header", U128, 2>>, <<"legacy", U128, 8>>, <<"xmm", U128, 16>> >>)
MDRawContextAMD64 ==
    Struct(<< <<"homes", U64, 6>>, <<"context_flags", U32, 1>>, <<"mx_csr", U32, 1>>,
              <<"segments", U16, 6>>, <<"eflags", U32, 1>>, <<"dr", U64, 6>>,
              <<"rax_to_rip", U64, 17>>,
              <<"float_save", Union(<< <<"flt_save", MDXmmSaveArea32AMD64, 1>>,
                                       <<"sse_registers", SseRegisters, 1>> >>), 1>>,
              <<"vector_register", U128, 26>>, <<"vector_control_to_last_exception", U64, 6>> >>)

MDFloatingSaveAreaARM ==
    Struct(<< <<"fpscr", U64, 1>>, <<"regs", U64, 32>>, <<"extra", U32, 8>> >>)
MDRawContextARM ==
    Struct(<< <<"context_flags", U32, 1>>, <<"iregs", U32, 16>>, <<"cpsr", U32, 1>>,
              <<"float_save", MDFloatingSaveAreaARM, 1>> >>)

MDFloatingSaveAreaARM64 == Struct(<< <<"regs", U128, 32>>, <<"fpcr_fpsr", U32, 2>> >>)
MDRawContextARM64 ==
    Struct(<< <<"context_flags", U32, 1>>, <<"cpsr", U32, 1>>, <<"iregs", U64, 33>>,
              <<"float_save", MDFloatingSaveAreaARM64, 1>>, <<"bcr", U32, 8>>,
              <<"bvr", U64, 8>>, <<"wcr", U32, 2>>, <<"wvr", U64, 2>> >>)
MDFloatingSaveAreaARM64_Old == Struct(<< <<"fpsr_fpcr", U32, 2>>, <<"regs", U128, 32>> >>)
MDRawContextARM64_Old ==
    Packed(<< <<"context_flags", U64, 1>>, <<"iregs", U64, 33>>, <<"cpsr", U32, 1>>,
              <<"float_save", MDFloatingSaveAreaARM64_Old, 1>> >>)

MDFloatingSaveAreaMIPS == Struct(<< <<"regs", U64, 32>>, <<"fpcsr_fir", U32, 2>> >>)
MDRawContextMIPS ==
    Struct(<< <<"context_flags", U32, 1>>, <<"_pad0", U32, 1>>, <<"iregs", U64, 32>>,
              <<"mdhi_mdlo", U64, 2>>, <<"hi", U32, 3>>, <<"lo", U32, 3>>,
              <<"dsp_control", U32, 1>>, <<"_pad1", U32, 1>>, <<"epc_badvaddr", U64, 2>>,
              <<"status_cause", U32, 2>>, <<"float_save", MDFloatingSaveAreaMIPS, 1>> >>)

MDFloatingSaveAreaPPC == Struct(<< <<"fpregs", U64, 32>>, <<"fpscr_pad_fpscr", U32, 2>> >>)
MDVectorSaveAreaPPC ==
    Struct(<< <<"save_vr", U128, 32>>, <<"save_vscr", U128, 1>>, <<"save_pad5", U32, 4>>,
              <<"save_vrvalid", U32, 1>>, <<"save_pad6", U32, 7>> >>)
MDRawContextPPC ==
    Packed(<< <<"context_flags", U32, 1>>, <<"srr0_srr1", U32, 2>>, <<"gpr", U32, 32>>,
              <<"cr_to_vrsave", U32, 6>>, <<"float_save", MDFloatingSaveAreaPPC, 1>>,
              <<"vector_save", MDVectorSaveAreaPPC, 1>> >>)
MDRawContextPPC64 ==
    Struct(<< <<"context_flags", U64, 1>>, <<"srr0_srr1", U64, 2>>, <<"gpr", U64, 32>>,
              <<"cr_to_vrsave", U64, 5>>, <<"float_save", MDFloatingSaveAreaPPC, 1>>,
              <<"vector_save", MDVectorSaveAreaPPC, 1>> >>)

MDFloatingSaveAreaSPARC == Struct(<< <<"regs", U64, 32>>, <<"filler_fsr", U64, 2>> >>)
MDRawContextSPARC ==
    Struct(<< <<"context_flags", U32, 1>>, <<"flag_pad", U32, 1>>, <<"g_r", U64, 32>>,
              <<"ccr_to_fprs", U64, 6>>, <<"float_save", MDFloatingSaveAreaSPARC, 1>> >>)

MDFloatingSaveAreaX86 ==
    Struct(<< <<"control_word_to_data_selector", U32, 7>>, <<"register_area", U8, 80>>,
              <<"cr0_npx_state", U32, 1>> >>)
MDRawContextX86 ==
    Struct(<< <<"context_flags", U32, 1>>, <<"dr", U32, 6>>,
              <<"float_save", MDFloatingSaveAreaX86, 1>>, <<"segments", U32, 4>>,
              <<"integer", U32, 6>>, <<"control", U32, 6>>, <<"extended_registers", U8, 512>> >>)

-----------------------------------------------------------------------------
(* The structures of the two headers. *)
Structure ==
    [MDGUID |-> MDGUID, MDVSFixedFileInfo |-> MDVSFixedFileInfo,
     MDMemoryDescriptor |-> MDMemoryDescriptor, MDRawHeader |-> MDRawHeader,
     MDRawDirectory |-> MDRawDirectory, MDString |-> MDString, MDRawThread |-> MDRawThread,
     MDRawThreadList |-> MDRawThreadList, MDRawModule |-> MDRawModule,
     MDCVInfoPDB20 |-> MDCVInfoPDB20, MDCVInfoPDB70 |-> MDCVInfoPDB70,
     MDCVInfoELF |-> MDCVInfoELF, MDImageDebugMisc |-> MDImageDebugMisc,
     MDRawModuleList |-> MDRawModuleList, MDRawMemoryList |-> MDRawMemoryList,
     MDException |-> MDException, MDRawExceptionStream |-> MDRawExceptionStream,
     MDCPUInformation |-> MDCPUInformation, MDRawSystemInfo |-> MDRawSystemInfo,
     MDRawUnloadedModule |-> MDRawUnloadedModule,
     MDRawUnloadedModuleList |-> MDRawUnloadedModuleList, MDRawMiscInfo |-> MDRawMiscInfo,
     MDRawMemoryInfoList |-> MDRawMemoryInfoList, MDRawMemoryInfo |-> MDRawMemoryInfo,
     MDRawBreakpadInfo |-> MDRawBreakpadInfo, MDRawAssertionInfo |-> MDRawAssertionInfo,
     MDRawLinkMap32 |-> MDRawLinkMap32, MDRawDebug32 |-> MDRawDebug32,
     MDRawLinkMap64 |-> MDRawLinkMap64, MDRawDebug64 |-> MDRawDebug64,
     MDRawSimpleStringDictionaryEntry |-> MDRawSimpleStringDictionaryEntry,
     MDRawSimpleStringDictionary |-> MDRawSimpleStringDictionary,
     MDRawModuleCrashpadInfo |-> MDRawModuleCrashpadInfo,
     MDRawModuleCrashpadInfoLink |-> MDRawModuleCrashpadInfoLink,
     MDRawModuleCrashpadInfoList |-> MDRawModuleCrashpadInfoList,
     MDRawCrashpadInfo |-> MDRawCrashpadInfo, MDRawContextAMD64 |-> MDRawContextAMD64,
     MDRawContextARM |-> MDRawContextARM, MDRawContextARM64 |-> MDRawContextARM64,
     MDRawContextARM64_Old |-> MDRawContextARM64_Old, MDRawContextMIPS |-> MDRawContextMIPS,
     MDRawContextPPC |-> MDRawContextPPC, MDRawContextPPC64 |-> MDRawContextPPC64,
     MDRawContextSPARC |-> MDRawContextSPARC, MDRawContextX86 |-> MDRawContextX86]

LayoutAssumption == Structs \subseteq DOMAIN Structure /\ Elements \in Nat \ {0}

(* The structures of which a dump holds arrays. *)
Arrays ==
    {"MDRawDirectory", "MDRawThread", "MDRawModule", "MDMemoryDescriptor", "MDRawMemoryInfo",
     "MDRawUnloadedModule", "MDRawLinkMap32", "MDRawLinkMap64",
     "MDRawSimpleStringDictionaryEntry", "MDRawModuleCrashpadInfoLink"}

-----------------------------------------------------------------------------
Last(type) == Len(type.members)
Named(type, m) == CHOOSE i \in 1..Len(type.members) : type.members[i][1] = m

(* The sizes the headers define because sizeof is not the size in the      *)
(* file, and the *_minsize of a structure with a variable-length array.    *)
ModuleSizeShort(abi) == OffsetOf(MDRawModule, Last(MDRawModule), abi)
MD_MODULE_SIZE(abi) == 108
MiscInfoSizesRounded(abi) ==
    {OffsetOf(MDRawMiscInfo, Named(MDRawMiscInfo, m), abi) :
        m \in {"processor_max_mhz", "process_integrity_level", "build_string", "xstate_data"}}
    \cup {SizeOf(MDRawMiscInfo, abi)}
MD_MISCINFO_SIZES(abi) ==
    {OffsetOf(MDRawMiscInfo, Named(MDRawMiscInfo, m), abi) :
        m \in {"processor_max_mhz", "process_integrity_level", "build_string", "xstate_data"}}
    \cup {OffsetOf(MDRawMiscInfo, Named(MDRawMiscInfo, "process_cookie"), abi) + 4}
minsize(n, abi) == OffsetOf(Structure[n], Last(Structure[n]), abi)

VariableLength ==
    {"MDString", "MDRawThreadList", "MDCVInfoPDB20", "MDCVInfoPDB70", "MDCVInfoELF",
     "MDImageDebugMisc", "MDRawModuleList", "MDRawMemoryList"}

(* minidump_size<T>::size() *)
size(n, abi) ==
    CASE n \in VariableLength -> minsize(n, abi)
      [] n = "MDRawModule"    -> MD_MODULE_SIZE(abi)
      [] OTHER                -> SizeOf(Structure[n], abi)

-----------------------------------------------------------------------------
Init ==
    /\ name \in Structs
    /\ writer \in ABIs
    /\ reader \in ABIs
    /\ element = 1
    /\ member = 1

NextMember ==
    /\ member < Last(Structure[name])
    /\ member' = member + 1
    /\ UNCHANGED <<name, writer, reader, element>>

NextElement ==
    /\ member = Last(Structure[name])
    /\ name \in Arrays
    /\ element < Elements
    /\ element' = element + 1
    /\ member' = 1
    /\ UNCHANGED <<name, writer, reader>>

Next == NextMember \/ NextElement
Spec == Init /\ [][Next]_vars

(* Where a machine finds the member the two are at. *)
Place(abi) == (element - 1) * size(name, abi) + OffsetOf(Structure[name], member, abi)

-----------------------------------------------------------------------------
(* Properties *)

TypeOK ==
    /\ name \in Structs
    /\ {writer, reader} \subseteq ABIs
    /\ element \in 1..Elements
    /\ member \in 1..Last(Structure[name])

(* Interoperability, the purpose of the precise-sized types: every member  *)
(* of every element is read from the bytes it was written to, whatever     *)
(* the ABIs of the two machines.                                           *)
SamePlace == Place(writer) = Place(reader)

(* An element ends where the next one starts or before: stepping by        *)
(* minidump_size (MD_MODULE_SIZE for a module, without its tail padding)   *)
(* cuts off no member.                                                     *)
ElementsAreWhole ==
    name \in Arrays =>
        End(Structure[name], member, reader) <= size(name, reader)

(* The five sizes of the miscellaneous information are sizes in the file:  *)
(* each is the end of a member, with no padding counted in, so that a      *)
(* writer's size_of_info tells every reader the same version.              *)
SizesAreUsable ==
    name = "MDRawMiscInfo" =>
        /\ MD_MISCINFO_SIZES(writer) = MD_MISCINFO_SIZES(reader)
        /\ MD_MISCINFO_SIZES(reader) \subseteq
               {End(MDRawMiscInfo, i, reader) : i \in 1..Last(MDRawMiscInfo)}

(* "The size returned for these should be the size for an object without   *)
(* its variable-length section" (minidump_size.h:50-52): it is where the   *)
(* last member before the array ends.                                      *)
SizeIsWithoutTheArray ==
    name \in VariableLength =>
        size(name, reader) = End(Structure[name], Last(Structure[name]) - 1, reader)
=============================================================================
