----------------------------- MODULE MCUniverse -----------------------------
(* Constants of UniverseTool for TLC: a directory of up to five files, two *)
(* host profiles and the command lines that are tried.                     *)
EXTENDS UniverseTool

MCCapabilities == <<"cpu.x86", "graphics.opengl3.1", "graphics.vulkan1.0", "kernel.jit", "kernel.threads",
                    "runtime.native", "runtime.wine">>

Native == <<"org.zenov.runtime", "native">>
OtherNative == <<"test.runtime", "native">>
Wine == <<"org.zenov.runtime", "wine">>
Sdk == <<"org.zenov", "sdk">>
Game == <<"org.zenov.profile", "game">>

MCIds == <<Sdk, Game, Native, Wine, OtherNative>>

V(n) == [parts |-> <<n>>, text |-> 0]

NativeRuntime ==
    [id |-> Native, version |-> V(1), kind |-> "runtime", platform |-> "zenov", architecture |-> "x86",
     artifact |-> "runtime-bundle", delivery |-> "builtin", runtime |-> "native",
     availability |-> "available", entrypoint |-> "kernel-loader", abi |-> TRUE, launch |-> "builtin",
     mirrors |-> FALSE, sized |-> FALSE, requires |-> <<"cpu.x86">>, any |-> <<>>,
     provides |-> <<"runtime.native">>, assets |-> {}, accepts |-> {"zex1"}, args |-> {},
     wellformed |-> TRUE]

\* A later version that is announced only, and one of another publisher.
PlannedNative ==
    [NativeRuntime EXCEPT !.version = [parts |-> <<1, 1>>, text |-> 1], !.delivery = "metadata-only",
                          !.artifact = "metadata", !.availability = "planned", !.launch = "external",
                          !.entrypoint = "absolute"]
EmbeddedNative ==
    [NativeRuntime EXCEPT !.id = OtherNative, !.version = [parts |-> <<1, 0>>, text |-> 1],
                          !.delivery = "embedded", !.sized = TRUE, !.launch = "exec",
                          !.entrypoint = "absolute", !.requires = <<>>]

WineRuntime ==
    [EmbeddedNative EXCEPT !.id = Wine, !.version = V(1), !.architecture = "any",
                           !.provides = <<"runtime.wine">>, !.requires = <<"kernel.threads">>,
                           !.any = <<<<"graphics.vulkan1.0", "graphics.opengl3.1">>>>,
                           !.accepts = {"exe"}, !.assets = {"fonts"},
                           !.args = {<<"artifact", "">>, <<"asset", "fonts">>}]
DirectWine == [WineRuntime EXCEPT !.requires = <<"kernel.jit">>, !.any = <<>>, !.architecture = "x86"]

\* Development kits that provide host capabilities.
Kit(provides, requires) ==
    [NativeRuntime EXCEPT !.id = Sdk, !.kind = "sdk", !.delivery = "https", !.mirrors = TRUE,
                          !.sized = TRUE, !.abi = FALSE, !.launch = "none", !.accepts = {},
                          !.provides = provides, !.requires = requires]
ThreadKit == Kit(<<"kernel.threads", "graphics.vulkan1.0">>, <<>>)
JitKit == Kit(<<"kernel.jit">>, <<"kernel.threads">>)
LoopKit == Kit(<<"graphics.opengl3.1">>, <<"runtime.wine">>)
GlKit == [Kit(<<"graphics.opengl3.1">>, <<>>) EXCEPT !.version = V(2)]
BadKit == [ThreadKit EXCEPT !.mirrors = FALSE]

WindowsGame ==
    [Kit(<<>>, <<>>) EXCEPT !.id = Game, !.kind = "game", !.platform = "windows", !.runtime = "wine",
                            !.artifact = "exe", !.architecture = "any",
                            !.any = <<<<"graphics.opengl3.1", "kernel.threads">>>>]
NativeApp ==
    [WindowsGame EXCEPT !.platform = "zenov", !.runtime = "native", !.artifact = "zex1",
                        !.kind = "profile", !.requires = <<"graphics.opengl3.1">>, !.any = <<>>]
ConsoleGame ==
    [NativeApp EXCEPT !.kind = "game", !.platform = "xbox", !.artifact = "iso", !.runtime = "external",
                      !.delivery = "user-supplied", !.mirrors = FALSE, !.sized = FALSE]

MCPaths == 5
MCDirectories ==
    {<<a, b, c, d, e>> :
        a \in {NativeRuntime, NoFile}, b \in {PlannedNative, EmbeddedNative, GlKit},
        c \in {WineRuntime, DirectWine, NoFile}, d \in {ThreadKit, JitKit, LoopKit, BadKit, NoFile},
        e \in {WindowsGame, NativeApp, ConsoleGame, NoFile}}

MCProfiles ==
    [zenov |-> [architecture |-> "x86", capabilities |-> {"cpu.x86"}, limit |-> 2],
     broken |-> [architecture |-> "x86", capabilities |-> {"kernel.jit"}, limit |-> 2]]

Line(name) ==
    [name |-> name, wellformed |-> TRUE, package |-> Game, host |-> "zenov", artifact |-> "none",
     arch |-> "x86", capabilities |-> {}, runtime |-> "native", owned |-> TRUE, supplied |-> <<>>]

MCCommands ==
    {[Line("validate") EXCEPT !.wellformed = FALSE], Line("validate"), Line("compile"), Line("fetch-plan"),
     Line("host-profile"), [Line("host-profile") EXCEPT !.host = "broken"],
     Line("resolve"), [Line("resolve") EXCEPT !.capabilities = {"graphics.opengl3.1", "cpu.x86"}],
     [Line("resolve") EXCEPT !.arch = "x86_64", !.capabilities = {"kernel.threads", "cpu.x86"}],
     [Line("resolve") EXCEPT !.capabilities = {"kernel.threadz"}], [Line("resolve") EXCEPT !.package = Native],
     Line("runtime-plan"), [Line("runtime-plan") EXCEPT !.artifact = "exe"],
     [Line("runtime-plan") EXCEPT !.package = Native],
     Line("runtime-status"), [Line("runtime-status") EXCEPT !.runtime = "wine"],
     [Line("artifact-manifest") EXCEPT !.artifact = "exe"],
     [Line("artifact-manifest") EXCEPT !.artifact = "zex1", !.owned = FALSE],
     Line("verify-artifact"), Line("launch-plan"),
     [Line("launch-plan") EXCEPT !.supplied = [fonts |-> TRUE]]}
============================================================================
